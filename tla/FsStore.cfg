SPECIFICATION LiveSpec
CONSTANTS
  Task <- MCTask
  kindOf <- MCKindOf
  Edit <- MCEdit
  Crowded = TRUE
  Unreadable = TRUE
  Absent = Absent
  NoTask = NoTask
  NoHash = NoHash
INVARIANTS
  TypeOK
  PathExclusive
  FirstGoes
PROPERTIES
  GuardedUpdate
  QueueDrains
CHECK_DEADLOCK FALSE
