SPECIFICATION Spec
CONSTANTS
  p1 = p1
  p2 = p2
  a = a
  b = b
  Pid <- MCPid
  Instance <- MCInstance
  pidOf <- MCPidOf
  Task <- MCTask
  lockOf <- MCLockOf
  HasProbe = TRUE
  MaxGen = 2
  NoFile = NoFile
  Malformed = Malformed
  Unknown = Unknown
INVARIANT OneHolder
CHECK_DEADLOCK FALSE
