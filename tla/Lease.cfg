SPECIFICATION Spec
CONSTANTS
  Task <- MCTask
  Owner <- MCOwner
  ownerOf <- MCOwnerOf
  ttlOf <- MCTtlOf
  MaxTime = 6
  NoLease = NoLease
INVARIANTS
  TypeOK
  ExclusiveUnlessCut
  FreshIsLeased
PROPERTY
  LeaseEndsByOwner
CHECK_DEADLOCK FALSE
