SPECIFICATION Spec
CONSTANTS
  Register <- MCRegister
  datfile_open = "datfile_open"
  g3stream_open = "g3stream_open"
  Value <- MCValue
  NoSession = NoSession
  MaxTime = 1
  MaxFrameNum = 4
INVARIANTS
  OpenStreamHasSession
