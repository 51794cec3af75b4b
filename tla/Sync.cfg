SPECIFICATION Spec
CONSTANTS
  Call = {"s1", "c1"}
  Session = {"s1"}
  Client = {"c1"}
  Fact = {"s1", "b", "g", "l", "x", "failed"}
  Notes = 1
  Nodes = 2
  Edges = 3
  Remote <- MCRemote
  Stored <- MCStored
  Written = {"b"}
  Linked = {"l"}
  Failure = "failed"
  Attempts = 2
  MaxCalls = 2
  MaxEvents = 2
INVARIANTS
  TypeOK
  MirrorLoads
  SessionReplicated
PROPERTIES
  NothingDroppedUnsaved
  PullMirrors
  SessionsAnswer
CHECK_DEADLOCK FALSE
