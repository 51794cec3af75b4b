------------------------- MODULE AdvisoryLock_Proofs -------------------------
(***************************************************************************)
(* What holds of the advisory lock for any number of processes, instances  *)
(* and calls: a running holder is never judged stale, and link(2) admits   *)
(* one holder unless a reclaim or a release removed the file of another.   *)
(***************************************************************************)
EXTENDS AdvisoryLock, TLAPS

-----------------------------------------------------------------------------
(* Typing.                                                                 *)

\* Every reachable state of the lock is well typed.
THEOREM TypeCorrect == Spec => []TypeOK
<1> USE PidOfAssumption, LockOfAssumption, MaxGenAssumption
<1>1. Init => TypeOK
  BY DEF Init, TypeOK, AcqPc, TaskPc
<1>2. ASSUME TypeOK, [Next]_vars PROVE TypeOK'
  <2> USE <1>2 DEF TypeOK
  <2>0. ASSUME NEW i \in Instance PROVE Mine(i) \in Contents
    BY <2>0 DEF Mine, Contents
  <2>1. CASE UNCHANGED vars
    BY <2>1 DEF vars
  <2>2. ASSUME NEW i \in Instance, Acquiring(i) PROVE TypeOK'
    <3>1. CASE TryCreate(i)
      BY <2>0, <3>1 DEF TryCreate, LinkMine, AcqPc
    <3>2. CASE ReadLock(i)
      BY <3>2 DEF ReadLock, AcqPc
    <3>3. CASE ProbeAlive(i)
      BY <3>3 DEF ProbeAlive, AcqPc
    <3>4. CASE ProbeStart(i)
      BY <3>4 DEF ProbeStart, Settle, AcqPc, TaskPc
    <3>5. CASE Reclaim(i)
      BY <3>5 DEF Reclaim, AcqPc, Contents
    <3>6. CASE Recreate(i)
      BY <2>0, <3>6 DEF Recreate, LinkMine, Settle, AcqPc, TaskPc
    <3>7. CASE Acquired(i)
      BY <3>7 DEF Acquired, Settle, AcqPc, TaskPc
    <3>8. QED BY <2>2, <3>1, <3>2, <3>3, <3>4, <3>5, <3>6, <3>7 DEF Acquiring
  <2>3. ASSUME NEW i \in Instance, NEW t \in Task,
               Mutate(i, t) \/ Release(i, t) \/ Releasing(i, t)
        PROVE  TypeOK'
    <3>1. CASE Mutate(i, t)
      BY <3>1 DEF Mutate, AcqPc, TaskPc
    <3>2. CASE Release(i, t)
      BY <3>2 DEF Release, TaskPc
    <3>3. CASE ReleaseCheck(i, t)
      BY <3>3 DEF ReleaseCheck, TaskPc
    <3>4. CASE ReleaseUnlink(i, t)
      BY <3>4 DEF ReleaseUnlink, TaskPc, Contents
    <3>5. CASE ReleaseDone(i, t)
      BY <3>5 DEF ReleaseDone, TaskPc
    <3>6. QED BY <2>3, <3>1, <3>2, <3>3, <3>4, <3>5 DEF Releasing
  <2>4. ASSUME NEW p \in Pid, Exit(p) \/ Crash(p) \/ Start(p) PROVE TypeOK'
    <3>1. CASE Exit(p)
      BY <3>1 DEF Exit, Forget, AcqPc, TaskPc
    <3>2. CASE Crash(p)
      BY <3>2 DEF Crash, Forget, AcqPc, TaskPc
    <3>3. CASE Start(p)
      BY <3>3 DEF Start
    <3>4. QED BY <2>4, <3>1, <3>2, <3>3
  <2>5. QED BY <2>1, <2>2, <2>3, <2>4, <1>2 DEF Next
<1>3. QED BY <1>1, <1>2, PTL DEF Spec

-----------------------------------------------------------------------------
(* The inductive invariant.  HolderOwnsFile says nothing while an acquire  *)
(* or a release is between two awaits; the conjuncts below do.             *)

\* Contents name a process that started no later than the one of its slot.
KnownGen(c) == /\ c.gen <= gen[pidOf[c.owner]]
               /\ c.start \in {0, c.gen}

GenOK ==
  /\ file \in Contents => KnownGen(file)
  /\ \A i \in Instance : seen[i] \in Contents => KnownGen(seen[i])

\* isStale looks at contents that readLock parsed.
SeenOK ==
  \A i \in Instance : acq[i] \in {"probe", "start"} => seen[i] \in Contents

\* A dead process holds and acquires nothing; a holder acquires nothing.
PhaseOK ==
  \A i \in Instance :
    /\ ~Running(i) => ~held[i] /\ acq[i] = "none"
    /\ held[i] => acq[i] = "none"

\* Between link(2) and held = true the instance owns the file it linked.
LinkedOwnsFile ==
  \A i \in Instance : acq[i] = "linked" /\ i \notin lost => file = Mine(i)

IInv == /\ GenOK /\ SeenOK /\ PhaseOK
        /\ LinkedOwnsFile /\ HolderOwnsFile /\ NoLiveHolderJudgedStale

LEMMA MineIsContents ==
  ASSUME TypeOK, NEW i \in Instance
  PROVE  /\ Mine(i) \in Contents
         /\ Mine(i).owner = i
         /\ Mine(i).gen = gen[pidOf[i]]
         /\ KnownGen(Mine(i))
BY PidOfAssumption, MaxGenAssumption DEF TypeOK, Mine, Contents, KnownGen

\* The contents of two instances differ.
LEMMA MineInjective ==
  ASSUME NEW i \in Instance, NEW j \in Instance, Mine(i) = Mine(j)
  PROVE  i = j
BY DEF Mine

\* The process of a dead lock file never comes back: slots only move on.
LEMMA DeadStaysDead ==
  ASSUME TypeOK, TypeOK', [Next]_vars,
         NEW c \in Contents, KnownGen(c), ~Live(c)
  PROVE  ~Live(c)'
<1> USE PidOfAssumption DEF TypeOK, Contents
<1>1. CASE UNCHANGED <<proc, gen>>
  BY <1>1 DEF Live, Alive
<1>2. ASSUME NEW p \in Pid, Exit(p) \/ Crash(p) PROVE ~Live(c)'
  BY <1>2 DEF Exit, Crash, Forget, Live, Alive
<1>3. ASSUME NEW p \in Pid, Start(p) PROVE ~Live(c)'
  BY <1>3, MaxGenAssumption DEF Start, Live, Alive, KnownGen
<1>4. QED
  BY <1>1, <1>2, <1>3
  DEF Next, vars, Acquiring, Releasing, TryCreate, ReadLock, ProbeAlive,
      ProbeStart, Reclaim, Recreate, Acquired, Mutate, Release,
      ReleaseCheck, ReleaseUnlink, ReleaseDone

\* What is known of a process that started stays known.
LEMMA KnownStaysKnown ==
  ASSUME TypeOK, TypeOK', [Next]_vars, NEW c \in Contents, KnownGen(c)
  PROVE  KnownGen(c)'
<1> USE PidOfAssumption DEF TypeOK, Contents
<1>1. CASE UNCHANGED gen
  BY <1>1 DEF KnownGen
<1>2. ASSUME NEW p \in Pid, Start(p) PROVE KnownGen(c)'
  BY <1>2, MaxGenAssumption DEF Start, KnownGen
<1>3. QED
  BY <1>1, <1>2
  DEF Next, vars, Acquiring, Releasing, TryCreate, ReadLock, ProbeAlive,
      ProbeStart, Reclaim, Recreate, Acquired, Mutate, Release,
      ReleaseCheck, ReleaseUnlink, ReleaseDone, Exit, Crash, Forget

LEMMA Sentinels ==
  NoFile \notin Contents /\ Malformed \notin Contents /\ Unknown \notin Contents
BY SentinelAssumption

LEMMA InitInv == Init => IInv
BY PidOfAssumption, Sentinels
   DEF Init, IInv, GenOK, SeenOK, PhaseOK, LinkedOwnsFile, HolderOwnsFile,
       NoLiveHolderJudgedStale, Running, Alive

\* A step of an acquire.
LEMMA AcquireStep ==
  ASSUME TypeOK, TypeOK', IInv, NEW a \in Instance, Acquiring(a)
  PROVE  IInv'
<1> USE PidOfAssumption, LockOfAssumption, Sentinels
<1>0. /\ UNCHANGED <<proc, gen>>
      /\ Running(a)
      /\ \A i \in Instance : i # a => acq'[i] = acq[i] /\ seen'[i] = seen[i]
                                      /\ held'[i] = held[i]
      /\ \A i \in Instance : Mine(i)' = Mine(i) /\ Running(i)' = Running(i)
      /\ \A i \in Instance : InRelease(i)' = InRelease(i)
      /\ \A c : KnownGen(c)' = KnownGen(c) /\ Live(c)' = Live(c)
  BY DEF Acquiring, TryCreate, LinkMine, ReadLock, ProbeAlive, ProbeStart,
         Reclaim, Recreate, Acquired, Settle, Mine, Running, Alive, InRelease,
         TypeOK, KnownGen, Live
<1>1. GenOK'
  BY <1>0, MineIsContents
  DEF Acquiring, TryCreate, LinkMine, ReadLock, ProbeAlive, ProbeStart,
      Reclaim, Recreate, Acquired, IInv, GenOK, TypeOK
<1>2. SeenOK'
  BY <1>0
  DEF Acquiring, TryCreate, LinkMine, ReadLock, ProbeAlive, ProbeStart,
      Reclaim, Recreate, Acquired, IInv, SeenOK, TypeOK
<1>3. PhaseOK'
  BY <1>0
  DEF Acquiring, TryCreate, LinkMine, ReadLock, ProbeAlive, ProbeStart,
      Reclaim, Recreate, Acquired, IInv, PhaseOK, TypeOK
<1>4. LinkedOwnsFile'
  BY <1>0, MineIsContents
  DEF Acquiring, TryCreate, LinkMine, ReadLock, ProbeAlive, ProbeStart,
      Reclaim, Recreate, Acquired, IInv, LinkedOwnsFile, TypeOK
<1>5. HolderOwnsFile'
  BY <1>0, MineIsContents
  DEF Acquiring, TryCreate, LinkMine, ReadLock, ProbeAlive, ProbeStart,
      Reclaim, Recreate, Acquired, IInv, PhaseOK, LinkedOwnsFile,
      HolderOwnsFile, TypeOK
<1>6. NoLiveHolderJudgedStale'
  <2>1. ASSUME NEW c \in Contents, KnownGen(c), PidReused(c) PROVE ~Live(c)
    BY <2>1 DEF PidReused, StartTime, Live, KnownGen, TypeOK, Contents
  <2>2. QED
    BY <1>0, <2>1
    DEF Acquiring, TryCreate, LinkMine, ReadLock, ProbeAlive, ProbeStart,
        Reclaim, Recreate, Acquired, IInv, GenOK, SeenOK, Live,
        NoLiveHolderJudgedStale, TypeOK
<1>7. QED BY <1>1, <1>2, <1>3, <1>4, <1>5, <1>6 DEF IInv

\* A call of acquire() that starts or joins it, and the steps of release().
LEMMA CallStep ==
  ASSUME TypeOK, TypeOK', IInv, NEW a \in Instance, NEW t \in Task,
         Mutate(a, t) \/ Release(a, t) \/ Releasing(a, t)
  PROVE  IInv'
<1> USE PidOfAssumption, LockOfAssumption, Sentinels
<1>0. /\ UNCHANGED <<proc, gen, seen>>
      /\ Running(a)
      /\ \A i \in Instance : i # a => acq'[i] = acq[i] /\ held'[i] = held[i]
                                      /\ InRelease(i)' = InRelease(i)
      /\ \A i \in Instance : Mine(i)' = Mine(i) /\ Running(i)' = Running(i)
      /\ \A c : KnownGen(c)' = KnownGen(c) /\ Live(c)' = Live(c)
  BY DEF Mutate, Release, Releasing, ReleaseCheck, ReleaseUnlink, ReleaseDone,
         Mine, Running, Alive, InRelease, TypeOK, KnownGen, Live
<1>1. GenOK'
  BY <1>0 DEF Mutate, Release, Releasing, ReleaseCheck, ReleaseUnlink,
              ReleaseDone, IInv, GenOK, TypeOK
<1>2. SeenOK'
  BY <1>0 DEF Mutate, Release, Releasing, ReleaseCheck, ReleaseUnlink,
              ReleaseDone, IInv, SeenOK, TypeOK
<1>3. PhaseOK'
  BY <1>0 DEF Mutate, Release, Releasing, ReleaseCheck, ReleaseUnlink,
              ReleaseDone, IInv, PhaseOK, TypeOK
<1>4. LinkedOwnsFile'
  BY <1>0, MineIsContents
  DEF Mutate, Release, Releasing, ReleaseCheck, ReleaseUnlink, ReleaseDone,
      IInv, PhaseOK, LinkedOwnsFile, TypeOK
<1>5. HolderOwnsFile'
  <2>1. ASSUME Mutate(a, t) PROVE UNCHANGED <<held, file, lost>>
                                  /\ InRelease(a)' = InRelease(a)
    BY <2>1 DEF Mutate, InRelease, TypeOK
  <2>2. ASSUME Release(a, t) \/ ReleaseCheck(a, t) \/ ReleaseUnlink(a, t)
        PROVE  UNCHANGED held /\ InRelease(a)'
    BY <2>2 DEF Release, ReleaseCheck, ReleaseUnlink, InRelease, TypeOK
  <2>3. ASSUME ReleaseDone(a, t) PROVE UNCHANGED <<file, lost>> /\ ~held'[a]
    BY <2>3 DEF ReleaseDone, TypeOK
  <2>4. CASE Mutate(a, t) \/ ReleaseDone(a, t)
    BY <1>0, <2>1, <2>3, <2>4 DEF IInv, HolderOwnsFile
  <2>5. CASE Release(a, t) \/ ReleaseCheck(a, t)
    BY <1>0, <2>2, <2>5
    DEF Release, ReleaseCheck, IInv, HolderOwnsFile
  <2>6. CASE ReleaseUnlink(a, t)
    BY <1>0, <2>2, <2>6, MineIsContents
    DEF ReleaseUnlink, IInv, HolderOwnsFile, TypeOK
  <2>7. QED BY <2>4, <2>5, <2>6 DEF Releasing
<1>6. NoLiveHolderJudgedStale'
  BY <1>0 DEF Mutate, Release, Releasing, ReleaseCheck, ReleaseUnlink,
              ReleaseDone, IInv, NoLiveHolderJudgedStale, TypeOK
<1>7. QED BY <1>1, <1>2, <1>3, <1>4, <1>5, <1>6 DEF IInv

\* When the process of slot p dies, its instances are idle and the others
\* are as before; when one starts, every instance is as before.
LEMMA Processes ==
  ASSUME TypeOK, IInv, NEW p \in Pid, Exit(p) \/ Crash(p) \/ Start(p),
         NEW i \in Instance
  PROVE  \/ /\ ~held'[i] /\ acq'[i] = "none" /\ seen'[i] = Unknown
         \/ /\ held'[i] = held[i] /\ acq'[i] = acq[i] /\ seen'[i] = seen[i]
            /\ \A t \in Task : lockOf[t] = i => pc'[t] = pc[t]
            /\ i \in lost' <=> i \in lost
            /\ held[i] \/ acq[i] # "none" => pidOf[i] # p
<1> USE PidOfAssumption, LockOfAssumption
<1>1. CASE Start(p)
  BY <1>1 DEF Start, IInv, PhaseOK, Running
<1>2. CASE Forget(p, "exited") \/ Forget(p, "killed")
  <2>1. CASE pidOf[i] = p
    BY <1>2, <2>1 DEF Forget
  <2>2. CASE pidOf[i] # p
    <3>1. held'[i] = held[i] /\ acq'[i] = acq[i] /\ seen'[i] = seen[i]
      BY <1>2, <2>2 DEF Forget
    <3>2. \A t \in Task : lockOf[t] = i => pc'[t] = pc[t]
      BY <1>2, <2>2 DEF Forget
    <3>3. i \in lost' <=> i \in lost
      BY <1>2, <2>2 DEF Forget
    <3>4. QED BY <2>2, <3>1, <3>2, <3>3
  <2>3. QED BY <2>1, <2>2
<1>3. QED BY <1>1, <1>2 DEF Exit, Crash

\* A process dies, gracefully or not, or another one starts in its slot.
LEMMA ProcessStep ==
  ASSUME TypeOK, TypeOK', IInv, NEW p \in Pid, Exit(p) \/ Crash(p) \/ Start(p)
  PROVE  IInv'
<1> USE PidOfAssumption, LockOfAssumption, Sentinels
<1>0. [Next]_vars
  BY DEF Next
<1>m. \A q \in Pid : q # p => proc'[q] = proc[q] /\ gen'[q] = gen[q]
  <2>1. CASE Start(p)
    BY <2>1 DEF Start, TypeOK
  <2>2. CASE Forget(p, "exited") \/ Forget(p, "killed")
    BY <2>2 DEF Forget, TypeOK
  <2>3. QED BY <2>1, <2>2 DEF Exit, Crash
<1>1. GenOK'
  <2>1. ASSUME NEW c \in Contents, KnownGen(c) PROVE KnownGen(c)'
    BY <2>1, <1>0, KnownStaysKnown
  <2>2. file' \in Contents => KnownGen(file)'
    BY <2>1 DEF Exit, Crash, Start, Forget, IInv, GenOK
  <2>3. ASSUME NEW i \in Instance, seen'[i] \in Contents
        PROVE  KnownGen(seen[i])'
    BY <2>1, <2>3, Processes DEF IInv, GenOK
  <2>4. QED BY <2>2, <2>3, <2>1, Processes DEF IInv, GenOK
<1>2. SeenOK'
  BY Processes DEF IInv, SeenOK
<1>3. PhaseOK'
  <2>1. ASSUME NEW i \in Instance, pidOf[i] # p PROVE Running(i)' = Running(i)
    BY <2>1, <1>m DEF Running, Alive
  <2>2. QED BY <2>1, Processes DEF IInv, PhaseOK
<1>4. ASSUME NEW i \in Instance, pidOf[i] # p
      PROVE  Mine(i)' = Mine(i) /\ (file = Mine(i) => file' = file)
  <2>1. gen'[pidOf[i]] = gen[pidOf[i]]
    BY <1>4, <1>m
  <2>2. file = Mine(i) => file' = file
    BY <1>4, MineInjective DEF Exit, Crash, Start
  <2>3. QED BY <2>1, <2>2 DEF Mine
<1>5. LinkedOwnsFile'
  BY <1>4, Processes DEF IInv, LinkedOwnsFile
<1>6. HolderOwnsFile'
  BY <1>4, Processes DEF IInv, HolderOwnsFile, InRelease
<1>7. NoLiveHolderJudgedStale'
  <2>1. ASSUME NEW i \in Instance, acq'[i] = "unlink"
        PROVE  acq[i] = "unlink" /\ seen'[i] = seen[i]
    BY <2>1, Processes
  <2>2. ASSUME NEW c \in Contents, KnownGen(c), ~Live(c) PROVE ~Live(c)'
    BY <2>2, <1>0, DeadStaysDead
  <2>3. ASSUME NEW i \in Instance, acq'[i] = "unlink", seen'[i] # Unknown
        PROVE  ~Live(seen[i])'
    <3>1. PICK c \in Contents : c = seen[i] /\ c = seen'[i]
      BY <2>1, <2>3 DEF TypeOK
    <3>2. ~Live(c) /\ KnownGen(c)
      BY <2>1, <2>3, <3>1 DEF IInv, NoLiveHolderJudgedStale, GenOK
    <3>3. QED BY <2>2, <3>1, <3>2
  <2>4. QED BY <2>3 DEF NoLiveHolderJudgedStale
<1>8. QED BY <1>1, <1>2, <1>3, <1>5, <1>6, <1>7 DEF IInv

\* The inductive invariant holds in every reachable state.
THEOREM Invariance == Spec => []IInv
<1>1. TypeOK /\ TypeOK' /\ IInv /\ [Next]_vars => IInv'
  <2> SUFFICES ASSUME TypeOK, TypeOK', IInv, [Next]_vars PROVE IInv'
    OBVIOUS
  <2>1. CASE UNCHANGED vars
    BY <2>1 DEF vars, IInv, GenOK, SeenOK, PhaseOK, LinkedOwnsFile,
                HolderOwnsFile, NoLiveHolderJudgedStale, KnownGen, Live,
                Running, Alive, Mine, InRelease
  <2>2. CASE Next
    BY <2>2, AcquireStep, CallStep, ProcessStep DEF Next
  <2>3. QED BY <2>1, <2>2
<1>2. QED BY InitInv, TypeCorrect, <1>1, PTL DEF Spec

\* tryCreateOrReclaim never unlinks a lock file on the strength of contents
\* whose process still runs.
THEOREM NeverJudgesLiveHolderStale == Spec => []NoLiveHolderJudgedStale
BY Invariance, PTL DEF IInv

\* A holder whose file nobody removed owns the file on disk.
THEOREM HolderOwnsItsFile == Spec => []HolderOwnsFile
BY Invariance, PTL DEF IInv

\* Mutual exclusion, up to the removal of a live file: two holders at once
\* mean that a reclaim or a release unlinked the file of one of them.
THEOREM Exclusion == Spec => []ExclusiveUnlessLost
<1>1. HolderOwnsFile => ExclusiveUnlessLost
  BY MineInjective DEF HolderOwnsFile, ExclusiveUnlessLost
<1>2. QED BY <1>1, HolderOwnsItsFile, PTL
-----------------------------------------------------------------------------
(* The exit handler.                                                       *)

\* A holder is in the static set of the exit handler until its release starts,
\* also when several calls of release() overlap a new acquire.
Watched == \A i \in Instance : held[i] /\ ~InRelease(i) => registered[i]

LEMMA WatchedNext == TypeOK /\ [Next]_vars /\ Watched => Watched'
<1> SUFFICES ASSUME TypeOK, [Next]_vars, Watched PROVE Watched'
  OBVIOUS
<1> USE LockOfAssumption, PidOfAssumption DEF TypeOK, Watched
<1>1. CASE UNCHANGED vars
  BY <1>1 DEF vars, InRelease
<1>2. ASSUME NEW a \in Instance, Acquiring(a) PROVE Watched'
  <2>1. \A i \in Instance : InRelease(i)' = InRelease(i)
    BY <1>2 DEF Acquiring, TryCreate, ReadLock, ProbeAlive, ProbeStart, Reclaim,
                Recreate, Acquired, Settle, InRelease
  <2>2. CASE Acquired(a)
    BY <2>1, <2>2 DEF Acquired
  <2>3. CASE UNCHANGED <<held, registered>>
    BY <2>1, <2>3
  <2>4. QED BY <1>2, <2>2, <2>3 DEF Acquiring, TryCreate, ReadLock, ProbeAlive,
                                    ProbeStart, Reclaim, Recreate
<1>3. ASSUME NEW a \in Instance, NEW t \in Task,
             Mutate(a, t) \/ Release(a, t) \/ Releasing(a, t)
      PROVE  Watched'
  <2>1. \A i \in Instance : i # a =>
          InRelease(i)' = InRelease(i) /\ held'[i] = held[i] /\ registered'[i] = registered[i]
    BY <1>3 DEF Mutate, Release, Releasing, ReleaseCheck, ReleaseUnlink,
                ReleaseDone, InRelease
  <2>2. CASE Mutate(a, t)
    BY <2>1, <2>2 DEF Mutate, InRelease
  <2>3. CASE Release(a, t) \/ ReleaseCheck(a, t) \/ ReleaseUnlink(a, t)
    <3>1. InRelease(a)'
      BY <2>3 DEF Release, ReleaseCheck, ReleaseUnlink, InRelease
    <3>2. QED BY <2>1, <3>1
  <2>4. CASE ReleaseDone(a, t)
    BY <2>1, <2>4 DEF ReleaseDone
  <2>5. QED BY <1>3, <2>2, <2>3, <2>4 DEF Releasing
<1>4. ASSUME NEW p \in Pid, Exit(p) \/ Crash(p) PROVE Watched'
  <2>1. Forget(p, "exited") \/ Forget(p, "killed")
    BY <1>4 DEF Exit, Crash
  <2>2. \A i \in Instance : pidOf[i] = p => ~held'[i]
    BY <2>1 DEF Forget
  <2>3. \A i \in Instance : pidOf[i] # p =>
          held'[i] = held[i] /\ registered'[i] = registered[i]
    BY <2>1 DEF Forget
  <2>4. ASSUME NEW i \in Instance, pidOf[i] # p PROVE InRelease(i)' = InRelease(i)
    <3>1. \A t \in Task : lockOf[t] = i => pc'[t] = pc[t]
      <4>1. ASSUME NEW t \in Task, lockOf[t] = i PROVE pc'[t] = pc[t]
        <5>1. pidOf[lockOf[t]] # p
          BY <2>4, <4>1
        <5>2. pc'[t] = IF pidOf[lockOf[t]] = p THEN "idle" ELSE pc[t]
          BY <2>1 DEF Forget
        <5>3. QED BY <5>1, <5>2
      <4>2. QED BY <4>1
    <3>2. QED BY <3>1 DEF InRelease
  <2>5. QED BY <2>2, <2>3, <2>4
<1>5. ASSUME NEW p \in Pid, Start(p) PROVE Watched'
  BY <1>5 DEF Start, InRelease
<1>6. QED BY <1>1, <1>2, <1>3, <1>4, <1>5 DEF Next

\* Only a graceful exit makes a running process an exited one.
LEMMA OnlyExit ==
  ASSUME TypeOK, [Next]_vars, NEW i \in Instance, Running(i),
         proc'[pidOf[i]] = "exited"
  PROVE  Exit(pidOf[i])
<1> USE PidOfAssumption DEF TypeOK, Running, Alive
<1>1. proc' # proc
  OBVIOUS
<1>2. PICK p \in Pid : Exit(p) \/ Crash(p) \/ Start(p)
  BY <1>1 DEF Next, vars, Acquiring, Releasing, TryCreate, ReadLock, ProbeAlive,
      ProbeStart, Reclaim, Recreate, Acquired, Mutate, Release, ReleaseCheck,
      ReleaseUnlink, ReleaseDone
<1>3. CASE Start(p)
  BY <1>3 DEF Start
<1>4. CASE Crash(p)
  BY <1>4 DEF Crash, Forget
<1>5. CASE Exit(p)
  BY <1>5 DEF Exit, Forget
<1>6. QED BY <1>2, <1>3, <1>4, <1>5

\* A process that exits gracefully leaves no lock file of an instance that held
\* the lock and was not in the middle of a release.
THEOREM ExitUnlinks == Spec => ExitFreesLock
<1>1. Init => Watched
  BY DEF Init, Watched
<1>2. TypeOK /\ Watched /\ [Next]_vars =>
        [\A i \in Instance :
           /\ held[i] /\ ~InRelease(i)
           /\ Running(i) /\ proc'[pidOf[i]] = "exited"
           => file' # Mine(i)]_vars
  <2> SUFFICES ASSUME TypeOK, Watched, [Next]_vars, NEW i \in Instance,
                      held[i], ~InRelease(i), Running(i), proc'[pidOf[i]] = "exited"
               PROVE  file' # Mine(i)
    OBVIOUS
  <2>1. Exit(pidOf[i])
    BY OnlyExit
  <2>2. registered[i]
    BY DEF Watched
  <2>3. NoFile # Mine(i)
    BY MineIsContents, Sentinels
  <2>4. QED BY <2>1, <2>2, <2>3 DEF Exit
<1>3. QED BY <1>1, <1>2, WatchedNext, TypeCorrect, PTL DEF Spec, ExitFreesLock

-----------------------------------------------------------------------------
(* Every acquire ends, and refuses for a reason.                           *)

\* The steps a doAcquire has before it, itself included.
Ahead(i) == CASE acq[i] = "create"   -> 7
              [] acq[i] = "read"     -> 6
              [] acq[i] = "probe"    -> 5
              [] acq[i] = "start"    -> 4
              [] acq[i] = "unlink"   -> 3
              [] acq[i] = "recreate" -> 2
              [] acq[i] = "linked"   -> 1
              [] OTHER               -> 0

\* Every step of an acquire brings it nearer to its end; no other step, of this
\* or another process, takes it further from it.
AcquiresSpend ==
  [][\A i \in Instance : /\ Acquiring(i) => Ahead(i)' < Ahead(i)
                         /\ acq[i] # "none" => Ahead(i)' <= Ahead(i)]_vars

LEMMA AheadFalls ==
  ASSUME TypeOK, NEW i \in Instance, Acquiring(i)
  PROVE  /\ Ahead(i)' < Ahead(i)
         /\ acq' = [acq EXCEPT ![i] = acq'[i]]
BY DEF TypeOK, AcqPc, Acquiring, TryCreate, LinkMine, ReadLock, ProbeAlive, ProbeStart, Reclaim,
       Recreate, Acquired, Ahead

\* An acquire makes at most seven steps, whoever else acquires, releases, starts
\* or dies: tryCreateOrReclaim retries nothing.
THEOREM AcquiresAreShort == Spec => AcquiresSpend
<1>1. ASSUME TypeOK, [Next]_vars, NEW i \in Instance, acq[i] # "none"
      PROVE  Ahead(i)' <= Ahead(i)
  <2>0. Ahead(i) \in Nat
    BY DEF Ahead
  <2>1. ASSUME NEW a \in Instance, Acquiring(a) PROVE Ahead(i)' <= Ahead(i)
    <3>1. CASE a = i
      BY <1>1, <2>0, <2>1, <3>1, AheadFalls DEF Ahead
    <3>2. CASE a # i
      <4>1. acq'[i] = acq[i]
        BY <1>1, <2>1, <3>2, AheadFalls DEF TypeOK
      <4>2. QED BY <2>0, <4>1 DEF Ahead
    <3>3. QED BY <3>1, <3>2
  <2>2. ASSUME acq'[i] \in {acq[i], "none"} PROVE Ahead(i)' <= Ahead(i)
    BY <2>0, <2>2 DEF Ahead
  <2>3. ASSUME NEW a \in Instance, NEW t \in Task,
               Mutate(a, t) \/ Release(a, t) \/ Releasing(a, t)
        PROVE  acq'[i] = acq[i]
    BY <1>1, <2>3 DEF TypeOK, Mutate, Release, Releasing, ReleaseCheck, ReleaseUnlink, ReleaseDone
  <2>4. ASSUME NEW p \in Pid, Exit(p) \/ Crash(p) \/ Start(p)
        PROVE  acq'[i] \in {acq[i], "none"}
    BY <2>4 DEF Exit, Crash, Start, Forget
  <2>5. CASE UNCHANGED vars
    BY <2>2, <2>5 DEF vars
  <2>6. QED BY <1>1, <2>1, <2>2, <2>3, <2>4, <2>5 DEF Next
<1>2. ASSUME TypeOK, [Next]_vars
      PROVE  \A i \in Instance : /\ Acquiring(i) => Ahead(i)' < Ahead(i)
                                 /\ acq[i] # "none" => Ahead(i)' <= Ahead(i)
  BY <1>1, <1>2, AheadFalls
<1>3. QED BY <1>2, TypeCorrect, PTL DEF Spec, AcquiresSpend

\* A call that waits for the lock waits for an acquire that is under way, in a
\* process that runs; and one that has contents to judge where it judges them.
Awaited ==
  /\ \A t \in Task : pc[t] = "acquiring" => acq[lockOf[t]] # "none"
  /\ \A i \in Instance : acq[i] # "none" => Running(i)
  /\ \A i \in Instance : acq[i] \in {"probe", "start"} => seen[i] \in Contents

\* No call is left behind by the acquire it joined.
THEOREM NobodyStuck == Spec => []Awaited
<1> DEFINE Joined == \A t \in Task : pc[t] = "acquiring" => acq[lockOf[t]] # "none"
<1>1. Init => Joined
  BY DEF Init
<1>2. ASSUME TypeOK, Joined, [Next]_vars PROVE Joined'
  <2> USE <1>2, LockOfAssumption DEF TypeOK
  <2>1. ASSUME NEW i \in Instance, Acquiring(i) PROVE Joined'
    BY <2>1 DEF AcqPc, Acquiring, TryCreate, LinkMine, ReadLock, ProbeAlive, ProbeStart,
                Reclaim, Recreate, Acquired, Settle
  <2>2. ASSUME NEW i \in Instance, NEW t \in Task,
               Mutate(i, t) \/ Release(i, t) \/ Releasing(i, t)
        PROVE  Joined'
    BY <2>2 DEF Mutate, Release, Releasing, ReleaseCheck, ReleaseUnlink, ReleaseDone
  <2>3. ASSUME NEW p \in Pid, Exit(p) \/ Crash(p) \/ Start(p) PROVE Joined'
    BY <2>3 DEF Exit, Crash, Start, Forget
  <2>4. CASE UNCHANGED vars
    BY <2>4 DEF vars
  <2>5. QED BY <1>2, <2>1, <2>2, <2>3, <2>4 DEF Next
<1>3. Joined /\ IInv => Awaited
  BY DEF Awaited, IInv, PhaseOK, SeenOK
<1> HIDE DEF Joined
<1>4. QED BY <1>1, <1>2, <1>3, TypeCorrect, Invariance, PTL DEF Spec

\* Where the platform reports start times, every lock file has a signature.
Signed ==
  /\ file \in Contents => file.start # 0
  /\ \A i \in Instance : seen[i] \in Contents => seen[i].start # 0

\* doAcquire throws LockHeldError after its probes.
Refuses(i) == acq[i] = "start" /\ acq'[i] = "none" /\ Running(i)'

\* A call is refused for a lock file whose process still runs, or ran until
\* after the first of the two probes: a pid that is in use again refuses nobody.
\* With AcquiresAreShort this is what StaleLockReclaimed needs besides fairness.
THEOREM RefusedByTheLiving ==
  ASSUME HasProbe = TRUE
  PROVE  Spec => [][\A i \in Instance : Refuses(i) =>
                      Live(seen[i]) \/ ~Alive(pidOf[seen[i].owner])]_vars
<1> USE PidOfAssumption, LockOfAssumption, Sentinels
<1>1. Init => Signed
  BY DEF Init, Signed
<1>2. ASSUME TypeOK, Signed, [Next]_vars PROVE Signed'
  <2> USE <1>2 DEF TypeOK, Signed
  <2>1. \A i \in Instance : Mine(i).start # 0
    BY MaxGenAssumption DEF Mine
  <2>2. ASSUME NEW i \in Instance, Acquiring(i) PROVE Signed'
    BY <2>1, <2>2 DEF Acquiring, TryCreate, LinkMine, ReadLock, ProbeAlive, ProbeStart,
                Reclaim, Recreate, Acquired
  <2>3. ASSUME NEW i \in Instance, NEW t \in Task,
               Mutate(i, t) \/ Release(i, t) \/ Releasing(i, t)
        PROVE  Signed'
    BY <2>3 DEF Mutate, Release, Releasing, ReleaseCheck, ReleaseUnlink, ReleaseDone
  <2>4. ASSUME NEW p \in Pid, Exit(p) \/ Crash(p) \/ Start(p) PROVE Signed'
    BY <2>4 DEF Exit, Crash, Start, Forget
  <2>5. CASE UNCHANGED vars
    BY <2>5 DEF vars
  <2>6. QED BY <1>2, <2>2, <2>3, <2>4, <2>5 DEF Next
<1>3. ASSUME TypeOK, IInv, Signed, [Next]_vars, NEW i \in Instance, Refuses(i)
      PROVE  Live(seen[i]) \/ ~Alive(pidOf[seen[i].owner])
  <2>0. \A a \in Instance : Acquiring(a) => acq' = [acq EXCEPT ![a] = acq'[a]]
    BY <1>3, AheadFalls
  <2> USE <1>3 DEF TypeOK, Refuses
  <2>1. seen[i] \in Contents /\ seen[i].start = seen[i].gen
    BY DEF IInv, SeenOK, GenOK, KnownGen, Signed
  <2>2. ProbeStart(i)
    <3>1. ASSUME NEW a \in Instance, Acquiring(a) PROVE ProbeStart(i)
      <4>1. a = i
        BY <2>0, <3>1
      <4>2. QED BY <3>1, <4>1 DEF Acquiring, TryCreate, ReadLock, ProbeAlive, Reclaim, Recreate,
                                  Acquired
    <3>2. ASSUME NEW a \in Instance, NEW t \in Task,
                 Mutate(a, t) \/ Release(a, t) \/ Releasing(a, t)
          PROVE  FALSE
      BY <3>2 DEF Mutate, Release, Releasing, ReleaseCheck, ReleaseUnlink, ReleaseDone
    <3>3. ASSUME NEW p \in Pid, Exit(p) \/ Crash(p) \/ Start(p) PROVE FALSE
      <4>1. CASE Start(p)
        BY <4>1 DEF Start
      <4>2. CASE Forget(p, "exited") \/ Forget(p, "killed")
        BY <4>2 DEF Forget, Running, Alive
      <4>3. QED BY <3>3, <4>1, <4>2 DEF Exit, Crash
    <3>4. CASE UNCHANGED vars
      BY <3>4 DEF vars
    <3>5. QED BY <1>3, <3>1, <3>2, <3>3, <3>4 DEF Next
  <2>3. ~PidReused(seen[i])
    BY <2>2 DEF ProbeStart
  <2>4. QED BY <2>1, <2>3, MaxGenAssumption DEF PidReused, StartTime, Live, Contents
<1>4. ASSUME TypeOK, IInv, Signed, [Next]_vars
      PROVE  \A i \in Instance : Refuses(i) =>
               Live(seen[i]) \/ ~Alive(pidOf[seen[i].owner])
  BY <1>3, <1>4
<1>5. QED BY <1>1, <1>2, <1>4, TypeCorrect, Invariance, PTL DEF Spec
=============================================================================
