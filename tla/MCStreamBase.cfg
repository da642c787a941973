SPECIFICATION FairSpec
CONSTANTS
  Option <- MCOption
  Tag <- MCTag
  open_g3stream = "open_g3stream"
  Stream <- MCStream
  Polled <- MCPolled
  Thread = {t1, t2}
  Timestreams = 2
  MetaBuffer = 1
  MaxSets = 3
  MaxUpdates = 1
  MaxScans = 1
INVARIANTS
  TypeOK
  OptionsOfOneMoment
  StreamTellsVariables
PROPERTIES
  StartStatusComplete
  StartOpensStream
