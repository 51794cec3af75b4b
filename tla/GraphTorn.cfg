SPECIFICATION Spec
CONSTANTS
  Node <- MCNode
  Type = {"uses", "supersedes"}
  Client = {}
  Worker = "consolidation"
  None = 0
  Linkable <- MCLinkable
  Stored <- MCStored
  labelOf <- MCLabelOf
  Aka <- MCAka
  Supersedes = "supersedes"
  QueryLimit = 4
  MaxCalls = 0
  MaxTrouble = 1
  MaxPasses = 1
INVARIANTS
  HydrateFindsPair
CHECK_DEADLOCK FALSE
