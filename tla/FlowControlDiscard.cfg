SPECIFICATION Spec
CONSTANTS
  TxQueues = {q0}
  Sizes = {1, 2}
  QdMax = 3
  Quota = 2
  Aqm = FALSE
  HeaderSize = 1
  Mtu = 2
  DevMode = "bytes"
  DevMax = 4
  QueueLimits = FALSE
  MaxPackets = 4
  RootPeek = FALSE
INVARIANTS NeverDiscards
CHECK_DEADLOCK FALSE
