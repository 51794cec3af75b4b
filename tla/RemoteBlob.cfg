SPECIFICATION LiveSpec
CONSTANTS
  Worker <- MCWorker
  Task <- MCTask
  Path <- MCPath
  Body <- MCBody
  workerOf <- MCWorkerOf
  kindOf <- MCKindOf
  pathOf <- MCPathOf
  bodyOf <- MCBodyOf
  Absent = Absent
  NoTask = NoTask
INVARIANTS
  TypeOK
  RowsHaveBlobs
  FirstGoes
PROPERTIES
  QueueSettles
  LinearFiles
CHECK_DEADLOCK FALSE
