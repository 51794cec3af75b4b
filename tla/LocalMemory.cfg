SPECIFICATION Spec
CONSTANTS
  Write <- MCWrite
  Memory <- MCMemory
  idOf <- MCIdOf
  Chosen <- MCChosen
  keyOf <- MCKeyOf
  NoKey = "none"
  bodyOf <- MCBodyOf
  Durable <- MCDurable
  NoWrite = "nowrite"
  Concurrent = FALSE
  QueryLimit = 1
  MaxTrouble = 2
  MaxDeprecate = 1
INVARIANTS
  TypeOK
  CreatedIsKept
  RecallMatchesNotes
  OneNotePerKey
PROPERTIES
  SweepCompletes
  RestoreCompletes
CHECK_DEADLOCK FALSE
