SPECIFICATION FairSpec
CONSTANTS
  NumberChannels <- MCNumberChannels
  Statuses = {st}
  MaxQueueSize = 3
  UninitQueueSize <- MCUninit
  NoPkt = NoPkt
  MaxPackets = 4
  MaxOutQueue = 2
PROPERTIES
  EverySampleFlushed
  SilenceBringsBarrier
  PythonNotShutOut
