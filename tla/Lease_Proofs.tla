---------------------------- MODULE Lease_Proofs ----------------------------
(***************************************************************************)
(* The lease for any number of calls and owners and any ttl: a running     *)
(* call inside its time owns the lease, unless a call of the same owner    *)
(* cut its time, so operations of two owners do not overlap.               *)
(***************************************************************************)
EXTENDS Lease, TLAPS

\* Every reachable state of the lease is well typed.
THEOREM TypeCorrect == Spec => []TypeOK
<1> USE OwnerAssumption, TtlAssumption, MaxTimeAssumption
<1>1. Init => TypeOK
  BY DEF Init, TypeOK, Running
<1>2. ASSUME TypeOK, [Next]_vars PROVE TypeOK'
  <2> USE <1>2 DEF TypeOK, Leases, Running
  <2>1. ASSUME NEW t \in Task, pc[t] \in {"idle", "running"}, Grant(t),
               pc' = [pc EXCEPT ![t] = "running"], now' = now
        PROVE TypeOK'
    <3>1. now + ttlOf[t] \in Nat
      OBVIOUS
    <3>2. cut' \subseteq Running'
      BY <2>1 DEF Grant
    <3>3. QED BY <2>1, <3>1, <3>2 DEF Grant
  <2>2. ASSUME NEW t \in Task, Acquire(t) PROVE TypeOK'
    <3>1. CASE Active /\ lease.owner # ownerOf[t]
      BY <2>2, <3>1 DEF Acquire
    <3>2. CASE ~(Active /\ lease.owner # ownerOf[t])
      BY <2>1, <2>2, <3>2 DEF Acquire
    <3>3. QED BY <3>1, <3>2
  <2>3. ASSUME NEW t \in Task, Extend(t) PROVE TypeOK'
    <3>1. pc' = [pc EXCEPT ![t] = "running"]
      BY <2>3 DEF Extend
    <3>2. QED BY <2>1, <2>3, <3>1 DEF Extend
  <2>4. ASSUME NEW t \in Task, Release(t) PROVE TypeOK'
    BY <2>4 DEF Release
  <2>5. ASSUME NEW t \in Task, Vanish(t) PROVE TypeOK'
    BY <2>5 DEF Vanish
  <2>6. CASE GetLease
    BY <2>6 DEF GetLease
  <2>7. CASE Tick
    BY <2>7 DEF Tick
  <2>8. CASE UNCHANGED vars
    BY <2>8 DEF vars
  <2>9. QED BY <2>2, <2>3, <2>4, <2>5, <2>6, <2>7, <2>8 DEF Next
<1>3. QED BY <1>1, <1>2, PTL DEF Spec

\* A grant gives the lease to its call, and every call that was inside its
\* time with the same owner keeps it or is cut.
LEMMA GrantKeepsFresh ==
  ASSUME TypeOK, FreshIsLeased, NEW t \in Task, Grant(t), now' = now,
         pc[t] \in {"idle", "running"}, pc' = [pc EXCEPT ![t] = "running"],
         Active => lease.owner = ownerOf[t]
  PROVE  FreshIsLeased'
<1> USE OwnerAssumption, TtlAssumption, MaxTimeAssumption
<1> USE DEF TypeOK, Leases, Running
<1> DEFINE end == now + ttlOf[t]
<1>0. now \in Nat /\ ttlOf[t] \in Nat /\ ttlOf[t] > 0 /\ ownerOf[t] \in Owner
  <2>1. now \in Nat
    OBVIOUS
  <2>2. ttlOf[t] \in Nat \ {0}
    OBVIOUS
  <2>3. ttlOf[t] > 0
    BY <2>2
  <2>4. ownerOf[t] \in Owner
    OBVIOUS
  <2>5. QED BY <2>1, <2>2, <2>3, <2>4
<1>1. end \in Nat /\ end > now
  BY <1>0
<1>2. lease' = [owner |-> ownerOf[t], expiresAt |-> end]
  BY DEF Grant
<1>3. lease' # NoLease
  <2>1. lease' \in Leases
    BY <1>0, <1>1, <1>2
  <2>2. QED BY <2>1, NoLeaseAssumption
<1>4. SUFFICES ASSUME NEW s \in Task, Fresh(s)', s \notin cut'
               PROVE  ownerOf[s] = ownerOf[t] /\ end >= until'[s]
  BY <1>1, <1>2, <1>3 DEF FreshIsLeased, HeldBy, Active
<1>5. CASE s = t
  BY <1>1, <1>4, <1>5 DEF Grant
<1>6. CASE s # t
  <2>1. Fresh(s) /\ until'[s] = until[s]
    BY <1>4, <1>6 DEF Fresh, Grant
  <2>2. s \notin cut
    BY <1>4, <1>6 DEF Grant
  <2>3. HeldBy(ownerOf[s])
    BY <2>1, <2>2 DEF FreshIsLeased
  <2>4. ownerOf[s] = ownerOf[t]
    BY <2>3 DEF HeldBy
  <2>5. ~(until[s] > end)
    BY <1>4, <1>6, <2>1, <2>4 DEF Grant, Fresh
  <2>6. QED BY <1>1, <2>1, <2>4, <2>5
<1>7. QED BY <1>5, <1>6

\* No step takes the lease from a call inside its time without cutting it.
LEMMA LeasedStep ==
  ASSUME TypeOK, TypeOK', FreshIsLeased, [Next]_vars
  PROVE  FreshIsLeased'
<1> USE OwnerAssumption DEF TypeOK, Leases, Running
<1>1. ASSUME NEW t \in Task, Acquire(t) PROVE FreshIsLeased'
  <2>1. CASE Active /\ lease.owner # ownerOf[t]
    BY <1>1, <2>1 DEF Acquire, FreshIsLeased, Fresh, HeldBy, Active
  <2>2. CASE ~(Active /\ lease.owner # ownerOf[t])
    BY <1>1, <2>2, GrantKeepsFresh DEF Acquire
  <2>3. QED BY <2>1, <2>2
<1>2. ASSUME NEW t \in Task, Extend(t) PROVE FreshIsLeased'
  <2>1. pc' = [pc EXCEPT ![t] = "running"]
    BY <1>2 DEF Extend
  <2>2. QED BY <1>2, <2>1, GrantKeepsFresh DEF Extend, HeldBy
<1>3. ASSUME NEW t \in Task, Release(t) PROVE FreshIsLeased'
  <2>1. SUFFICES ASSUME NEW s \in Task, Fresh(s)', s \notin cut'
                 PROVE  HeldBy(ownerOf[s])' /\ lease'.expiresAt >= until'[s]
    BY DEF FreshIsLeased
  <2>2. s # t /\ Fresh(s) /\ s \notin cut
    BY <1>3, <2>1 DEF Release, Fresh
  <2>3. HeldBy(ownerOf[s]) /\ lease.expiresAt >= until[s]
    BY <2>2 DEF FreshIsLeased
  <2>4. ownerOf[s] # ownerOf[t]
    BY <1>3, <2>1, <2>2, <2>3 DEF Release, HeldBy, Active, Fresh
  <2>5. QED BY <1>3, <2>3, <2>4 DEF Release, HeldBy, Active
<1>4. ASSUME NEW t \in Task, Vanish(t) PROVE FreshIsLeased'
  BY <1>4 DEF Vanish, FreshIsLeased, Fresh, HeldBy, Active
<1>5. CASE GetLease
  BY <1>5 DEF GetLease, FreshIsLeased, Fresh, HeldBy, Active
<1>6. CASE Tick
  <2>1. SUFFICES ASSUME NEW s \in Task, Fresh(s)', s \notin cut'
                 PROVE  HeldBy(ownerOf[s])' /\ lease'.expiresAt >= until'[s]
    BY DEF FreshIsLeased
  <2>2. Fresh(s) /\ s \notin cut
    BY <1>6, <2>1, MaxTimeAssumption DEF Tick, Fresh
  <2>3. HeldBy(ownerOf[s]) /\ lease.expiresAt >= until[s]
    BY <2>2 DEF FreshIsLeased
  <2>4. lease.expiresAt \in Nat /\ now \in Nat /\ until[s] \in Nat
    BY <2>3, MaxTimeAssumption DEF HeldBy, Active
  <2>5. now + 1 < until[s]
    BY <1>6, <2>1 DEF Tick, Fresh
  <2>6. QED BY <1>6, <2>3, <2>4, <2>5 DEF Tick, HeldBy, Active
<1>7. CASE UNCHANGED vars
  BY <1>7 DEF vars, FreshIsLeased, Fresh, HeldBy, Active
<1>8. QED BY <1>1, <1>2, <1>3, <1>4, <1>5, <1>6, <1>7 DEF Next

\* A running call inside its time finds its lease in the map.
THEOREM FreshHoldsLease == Spec => []FreshIsLeased
<1>1. Init => FreshIsLeased
  BY DEF Init, FreshIsLeased, Fresh
<1>2. QED BY <1>1, TypeCorrect, LeasedStep, PTL DEF Spec

\* Operations of two owners never overlap inside the times they were granted,
\* unless a call of the same owner cut one of them short.
THEOREM Exclusion == Spec => []ExclusiveUnlessCut
<1>1. FreshIsLeased => ExclusiveUnlessCut
  BY DEF FreshIsLeased, ExclusiveUnlessCut, HeldBy
<1>2. QED BY <1>1, FreshHoldsLease, PTL

\* An active lease ends only by a call of its owner.
THEOREM OnlyOwnerEnds == Spec => LeaseEndsByOwner
<1> USE OwnerAssumption DEF TypeOK, Leases
<1>1. ASSUME TypeOK, [Next]_vars
      PROVE  [Active /\ lease' # lease =>
                \E t \in Task : /\ ownerOf[t] = lease.owner
                                /\ Acquire(t) \/ Extend(t) \/ Release(t)]_vars
  <2>1. SUFFICES ASSUME Next, Active, lease' # lease
                 PROVE  \E t \in Task : /\ ownerOf[t] = lease.owner
                                        /\ Acquire(t) \/ Extend(t) \/ Release(t)
    BY <1>1
  <2>2. ASSUME NEW t \in Task, Acquire(t) PROVE ownerOf[t] = lease.owner
    BY <2>1, <2>2 DEF Acquire
  <2>3. ASSUME NEW t \in Task, Extend(t) PROVE ownerOf[t] = lease.owner
    BY <2>3 DEF Extend, HeldBy
  <2>4. ASSUME NEW t \in Task, Release(t) PROVE ownerOf[t] = lease.owner
    BY <2>1, <2>4 DEF Release
  <2>5. ASSUME NEW t \in Task PROVE ~Vanish(t)
    BY <2>1 DEF Vanish
  <2>6. ~GetLease /\ ~Tick
    BY <1>1, <2>1, MaxTimeAssumption DEF GetLease, Tick, Active
  <2>7. QED BY <2>1, <2>2, <2>3, <2>4, <2>5, <2>6 DEF Next
<1>2. QED BY <1>1, TypeCorrect, PTL DEF Spec, LeaseEndsByOwner
=============================================================================
