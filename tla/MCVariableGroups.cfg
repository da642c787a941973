SPECIFICATION Spec
CONSTANTS
  Names <- MCNames
  Indices = {"0", "1", "2", "3"}
  Templates <- MCTemplates
  eval <- MCEval
  MaxDepth = 3
  NoIndex = NoIndex
  NoPoll = NoPoll
  Files <- MCFiles
  ExtraFiles <- MCExtraFiles
INVARIANTS
  TypeOK
  RegistersAsDeclared
CHECK_DEADLOCK FALSE
