SPECIFICATION Spec
CONSTANTS
  Write <- MCWrite
  Memory <- MCMemory
  idOf <- MCIdOf
  Chosen <- MCChosen
  keyOf <- MCKeyOf
  NoKey = "none"
  bodyOf <- MCBodyOf
  Durable <- MCDurable
  NoWrite = "nowrite"
  Concurrent = FALSE
  QueryLimit = 1
  MaxTrouble = 1
  MaxDeprecate = 0
PROPERTY NotesAppendOnly
CHECK_DEADLOCK FALSE
