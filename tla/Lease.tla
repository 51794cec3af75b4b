-------------------------------- MODULE Lease --------------------------------
(***************************************************************************)
(* The lease on one store: InMemoryLeaseManager and withMemoryLease        *)
(* (packages/core/src/agentfs/leases/).  The map of the manager is kept    *)
(* per store, so one store shows everything.                               *)
(*                                                                         *)
(* A task is one call of withMemoryLease: it acquires, runs its operation, *)
(* which may extend the lease, and releases.  Each method of the manager   *)
(* runs without an await, so it is one step, at the time now.              *)
(***************************************************************************)
EXTENDS Naturals

CONSTANTS
  Task,        \* calls of withMemoryLease
  Owner,       \* owner ids
  ownerOf,     \* call -> its ownerId
  ttlOf,       \* call -> its ttlMs
  MaxTime,     \* bound: the clock stops here
  NoLease      \* leases.get(storeId) is undefined

ASSUME OwnerAssumption == ownerOf \in [Task -> Owner]
ASSUME TtlAssumption == ttlOf \in [Task -> Nat \ {0}]    \* assertLeaseInput
ASSUME MaxTimeAssumption == MaxTime \in Nat
ASSUME NoLeaseAssumption == NoLease \notin [owner : Owner, expiresAt : Nat]

VARIABLES
  now,         \* Date.now()
  lease,       \* leases.get(storeId)
  pc,          \* call -> where it is
  until,       \* call -> the expiry its last acquire or extend was granted
  cut          \* history: running calls whose lease a call with the same
               \* owner deleted, or set to expire earlier

vars == <<now, lease, pc, until, cut>>

-----------------------------------------------------------------------------
Leases == [owner : Owner, expiresAt : Nat]

Running == {t \in Task : pc[t] = "running"}

TypeOK ==
  /\ now \in 0..MaxTime
  /\ lease \in Leases \cup {NoLease}
  /\ pc \in [Task -> {"idle", "running", "refused", "done"}]
  /\ until \in [Task -> Nat]
  /\ cut \in SUBSET Running

Init ==
  /\ now = 0
  /\ lease = NoLease
  /\ pc = [t \in Task |-> "idle"]
  /\ until = [t \in Task |-> 0]
  /\ cut = {}

Active == lease # NoLease /\ lease.expiresAt > now

HeldBy(o) == Active /\ lease.owner = o

\* Mutant: the ttl is taken from the clock instead of added to it.
GrantBackwards(t) ==
  LET end == now - ttlOf[t] IN
  /\ lease' = [owner |-> ownerOf[t], expiresAt |-> end]
  /\ until' = [until EXCEPT ![t] = end]
  /\ cut' = cut

\* The lease is set for the call t; the calls that share its owner and were
\* granted a longer one lose the rest of it.
Grant(t) ==
  LET end == now + ttlOf[t] IN
  /\ lease' = [owner |-> ownerOf[t], expiresAt |-> end]
  /\ until' = [until EXCEPT ![t] = end]
  /\ cut' = (cut \ {t}) \cup
            {s \in Running \ {t} : ownerOf[s] = ownerOf[t] /\ until[s] > end}

\* Mutant: the owner of an active lease is not looked at.
AcquireAlways(t) ==
  /\ pc[t] = "idle"
  /\ pc' = [pc EXCEPT ![t] = "running"]
  /\ Grant(t)
  /\ UNCHANGED now

\* acquire: an expired lease is nobody's, an active one its owner's.
Acquire(t) ==
  /\ pc[t] = "idle"
  /\ IF Active /\ lease.owner # ownerOf[t]
     THEN /\ pc' = [pc EXCEPT ![t] = "refused"]      \* AgentfsLeaseError
          /\ lease' = lease
          /\ UNCHANGED <<until, cut>>
     ELSE /\ pc' = [pc EXCEPT ![t] = "running"]
          /\ Grant(t)
  /\ UNCHANGED now

\* extend, by the operation: only an active lease of its owner, and not for
\* another while.
Extend(t) ==
  /\ pc[t] = "running"
  /\ HeldBy(ownerOf[t])
  /\ Grant(t)
  /\ UNCHANGED <<now, pc>>

\* Mutant: a release deletes whatever lease there is.
ReleaseAny(t) ==
  /\ pc[t] = "running"
  /\ pc' = [pc EXCEPT ![t] = "done"]
  /\ lease' = NoLease
  /\ cut' = cut \ {t}
  /\ UNCHANGED <<now, until>>

\* The operation settles, and the finally block releases: a lease of the
\* owner is deleted, whichever call acquired it.
Release(t) ==
  LET mine == lease # NoLease /\ lease.owner = ownerOf[t] IN
  /\ pc[t] = "running"
  /\ pc' = [pc EXCEPT ![t] = "done"]
  /\ lease' = IF mine THEN NoLease ELSE lease
  /\ cut' = (IF mine THEN cut \cup {s \in Running : ownerOf[s] = ownerOf[t]}
                     ELSE cut) \ {t}
  /\ UNCHANGED <<now, until>>

\* getLease forgets a lease that expired.
GetLease ==
  /\ lease # NoLease
  /\ lease.expiresAt <= now
  /\ lease' = NoLease
  /\ UNCHANGED <<now, pc, until, cut>>

\* The client dies before its finally block: only the ttl frees the lease.
Vanish(t) ==
  /\ pc[t] = "running"
  /\ pc' = [pc EXCEPT ![t] = "done"]
  /\ cut' = cut \ {t}
  /\ UNCHANGED <<now, lease, until>>

Tick ==
  /\ now < MaxTime
  /\ now' = now + 1
  /\ UNCHANGED <<lease, pc, until, cut>>

Next ==
  \/ \E t \in Task : Acquire(t) \/ Extend(t) \/ Release(t) \/ Vanish(t)
  \/ GetLease
  \/ Tick

Spec == Init /\ [][Next]_vars

-----------------------------------------------------------------------------
(* Properties.                                                             *)

Fresh(t) == pc[t] = "running" /\ now < until[t]

\* Operations of two owners never overlap while both are inside the time they
\* were granted, unless a call of the same owner cut that time short.
ExclusiveUnlessCut ==
  \A s, t \in Task :
    Fresh(s) /\ Fresh(t) /\ ownerOf[s] # ownerOf[t] => {s, t} \cap cut # {}

\* A running call still inside its time finds its lease in the map, and with
\* no less time left than it was granted.
FreshIsLeased ==
  \A t \in Task :
    Fresh(t) /\ t \notin cut =>
      HeldBy(ownerOf[t]) /\ lease.expiresAt >= until[t]

\* An active lease is replaced or deleted only by a call of its own owner: a
\* release that comes after the ttl leaves the next owner's lease alone.
LeaseEndsByOwner ==
  [][Active /\ lease' # lease =>
       \E t \in Task : /\ ownerOf[t] = lease.owner
                       /\ Acquire(t) \/ Extend(t) \/ Release(t)]_vars

\* "Executes an operation under a memory lease, ensuring exclusive access"
\* (packages/core/src/agentfs/leases/with-memory-lease.ts:39): operations of
\* two owners never overlap while both are inside the time they were granted.
ExclusiveWhileFresh ==
  \A s, t \in Task :
    Fresh(s) /\ Fresh(t) => ownerOf[s] = ownerOf[t]
=============================================================================
