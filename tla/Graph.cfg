SPECIFICATION Spec
CONSTANTS
  Node <- MCNode
  Type = {"uses", "supersedes"}
  Client = {"c1"}
  Worker = "consolidation"
  None = 0
  Linkable <- MCLinkable
  Stored <- MCStored
  labelOf <- MCLabelOf
  Aka <- MCAka
  Supersedes = "supersedes"
  QueryLimit = 3
  MaxCalls = 1
  MaxTrouble = 1
  MaxPasses = 2
INVARIANTS
  PlanTypeOK
  EndsExist
  FilesLoad
  OldOrNew
  CleanAfterTwoPasses
PROPERTIES
  MergeKeepsFacts
  CallsSettle
  PassEnds
CHECK_DEADLOCK FALSE
