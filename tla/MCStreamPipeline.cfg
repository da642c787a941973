SPECIFICATION FairSpec
CONSTANTS
  NumberChannels = {1}
  Statuses <- MCStatuses
  MaxQueueSize = 2
  UninitQueueSize = {0}
  NoPkt = NoPkt
  MaxPackets = 4
  MaxOutQueue = 2
  Register <- MCRegister
  datfile_open = "datfile"
  g3stream_open = "g3"
  Value = {0, 1}
  NoSession = NoSession
  MaxTime = 0
  MaxFrameNum = 20
INVARIANTS
  TypeOK
  SessionHoldsItsData
PROPERTIES
  StopEndsSession
CHECK_DEADLOCK FALSE
