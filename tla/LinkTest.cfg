\* A client writing parameters and commands at any step of the main loop.
SPECIFICATION FairSpec
CONSTANTS
  Nums = {0, 2}
  Times = {0, 1}
  Commands = {"START", "RETRANSMISSION", "STOP"}
  MaxTx = 2
INVARIANTS
  LossIsAShare
  TestWillEnd
  CommandWaits
PROPERTIES
  TestEnds
