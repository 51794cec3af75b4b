SPECIFICATION Spec
CONSTANTS
  Task <- MCTask
  kindOf <- MCKindOf
  Edit <- MCEdit
  Crowded = FALSE
  Unreadable = FALSE
  Absent = Absent
  NoTask = NoTask
  NoHash = NoHash
PROPERTY EditsNeverClobbered
CHECK_DEADLOCK FALSE
