SPECIFICATION FairSpec
CONSTANTS
  TxQueues = {q0}
  Sizes = {1, 4}
  QdMax = 3
  Quota = 2
  Aqm = TRUE
  HeaderSize = 1
  Mtu = 4
  DevMode = "bytes"
  DevMax = 8
  QueueLimits = TRUE
  MaxPackets = 5
  RootPeek = TRUE
INVARIANTS TypeOK StatsIdentities PeekedIsRetained NoLostWakeup SingleQueueNeverRequeues StoppedMeansBacklog
PROPERTIES ImplementsLossyFifo
CHECK_DEADLOCK FALSE
