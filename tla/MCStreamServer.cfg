SPECIFICATION FairSpec
CONSTANTS
  Slot = {2, 3}
  CommType <- MCCommType
  Argv <- MCArgv
  SlotCfg <- MCSlotCfg
  None = None
INVARIANTS
  TypeOK
  DefaultsNeverClash
  
PROPERTIES
  JoinReturns
CHECK_DEADLOCK FALSE
