SPECIFICATION Spec
CONSTANTS
  Slot = {2}
  CommType <- MCCommType
  Argv <- MCTransportArgv
  SlotCfg <- MCSlotCfg
  None = None
INVARIANTS
  RootMatchesSetup
CHECK_DEADLOCK FALSE
