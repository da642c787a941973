SPECIFICATION Spec
CONSTANTS
  NoSession = NoSession
  NoFile = NoFile
  Status <- MCStatus
  Duration <- MCDuration
  Second = 2
  MaxTime = 4
  MaxSessions = 2
  MaxFrameNum = 3
INVARIANTS
  FilesFound
