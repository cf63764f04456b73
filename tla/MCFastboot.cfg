SPECIFICATION FairSpec
CONSTANTS
  SeqSpace = 4
  FirstExpected = {0}
  kMaxConnectAttempts = 1
  kMaxTransmissionAttempts = 2
  HostMaxData = 2
  DeviceMaxData = {0, 3}
  MaxSessions = 2
  MaxKills = 1
  TRANSPORT_BUF_SIZE = 2
  MAX_MAP_SIZE = 3
  Limits = {1, 3}
  Words <- MCWords
  Data <- MCData
  Messages <- MCMessages
  Queue <- MCQueue
  Staged <- MCStaged
INVARIANTS FlashedWhatWasSent QueueCarriedOut
PROPERTIES UdpSpec LinkSpec QueueEnds
