SPECIFICATION FairSpec
CONSTANTS
  TxQueues = {q0, q1}
  Sizes = {1}
  QdMax = 3
  Quota = 2
  Aqm = FALSE
  HeaderSize = 1
  Mtu = 2
  DevMode = "packets"
  DevMax = 2
  QueueLimits = TRUE
  MaxPackets = 6
  RootPeek = FALSE
INVARIANTS SentIsHandedToDevice ArrivesAsSent NeverDiscards
PROPERTIES Drains
CHECK_DEADLOCK FALSE
