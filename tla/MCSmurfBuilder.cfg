SPECIFICATION Spec
CONSTANTS
  NumberChannels <- MCNumberChannels
  Statuses = {st}
  MaxQueueSize = 4
  UninitQueueSize <- MCUninit
  NoPkt = NoPkt
  MaxPackets = 5
  MaxOutQueue = 2
INVARIANTS
  TypeOK
  QueueSizeExact
  StashBounded
  SamplesInOrder
  Conservation
  UniformFrames
  AliveIsBarrier
  StatusNotOvertaken
PROPERTIES
  ChannelSpec
