CONSTANTS
  c1 = c1 c2 = c2 c3 = c3 c4 = c4 c5 = c5
  Clients = {c1, c2, c3, c4, c5}
  Concurrency = 1
  QueueCapacity = 2
SPECIFICATION FairSpec
INVARIANTS GateInv NoLostWakeUp
PROPERTIES ServesInOrder WaiterIsServed
