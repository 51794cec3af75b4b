---------------------------- MODULE AdvisoryLock ----------------------------
(***************************************************************************)
(* The cross-process advisory lock of the filesystem store:                *)
(* packages/core/src/fs/utils/advisory-lock.ts, as its one client,         *)
(* NodeFsMemoryStore, calls it: acquire() before every mutating operation  *)
(* and release() from dispose().                                           *)
(*                                                                         *)
(* A pid is a slot of the operating system: the process in it may die and  *)
(* another start in the same slot (gen counts them, and is what the start  *)
(* signature of a process tells apart).  An instance is one                *)
(* AdvisoryFileLock object, living in the process of its slot; several     *)
(* instances may live in one process.  A task is one asynchronous call on  *)
(* an instance.  One action is the code between two awaits.                *)
(***************************************************************************)
EXTENDS Naturals

CONSTANTS
  Pid,         \* process slots of the machine
  Instance,    \* AdvisoryFileLock objects
  Task,        \* asynchronous calls the stores may have in flight
  lockOf,      \* the instance a task calls
  pidOf,       \* the process an instance lives in
  HasProbe,    \* the platform reports process start times (linux, darwin)
  MaxGen,      \* bound: processes started in one slot
  NoFile,      \* lockPath does not exist
  Malformed,   \* lockPath holds bytes parseLockContents rejects
  Unknown      \* the null of readLock: missing, unreadable or malformed

ASSUME PidOfAssumption == pidOf \in [Instance -> Pid]
ASSUME LockOfAssumption == lockOf \in [Task -> Instance]
ASSUME MaxGenAssumption == MaxGen \in Nat \ {0}
ASSUME ProbeAssumption == HasProbe \in BOOLEAN

VARIABLES
  proc,        \* pid -> what became of the process of the slot
  gen,         \* pid -> which process of the slot it is, or was last
  file,        \* what lockPath holds
  held,        \* instance -> the private field held
  registered,  \* instance -> it is in the static set heldLocks
  acq,         \* instance -> where the one in-flight doAcquire is
  seen,        \* instance -> the contents that doAcquire read
  pc,          \* task -> where the call is
  lost         \* history: instances whose file was removed under them

vars == <<proc, gen, file, held, registered, acq, seen, pc, lost>>

-----------------------------------------------------------------------------
(* Lock-file contents.  The owner and gen together stand for the random    *)
(* ownerId; start is processStartedAt, 0 when the field is absent.         *)

Contents == [owner : Instance, gen : 1..MaxGen, start : 0..MaxGen]

ASSUME SentinelAssumption == {NoFile, Malformed, Unknown} \cap Contents = {}

Mine(i) == [owner |-> i,
            gen   |-> gen[pidOf[i]],
            start |-> IF HasProbe THEN gen[pidOf[i]] ELSE 0]

Alive(p) == proc[p] = "running"     \* kill(pid, 0) succeeds

Running(i) == Alive(pidOf[i])

\* The process that wrote these contents is still the one in its slot.
Live(c) == /\ Alive(pidOf[c.owner])
           /\ gen[pidOf[c.owner]] = c.gen

Stale == file \in Contents /\ ~Live(file)

AcqPc == {"none", "create", "read", "probe", "start", "unlink", "recreate",
          "linked"}
TaskPc == {"idle", "acquiring", "relRead", "relUnlink", "relClear"}

TypeOK ==
  /\ proc \in [Pid -> {"running", "exited", "killed"}]
  /\ gen \in [Pid -> 1..MaxGen]
  /\ file \in Contents \cup {NoFile, Malformed}
  /\ held \in [Instance -> BOOLEAN]
  /\ registered \in [Instance -> BOOLEAN]
  /\ acq \in [Instance -> AcqPc]
  /\ seen \in [Instance -> Contents \cup {Unknown}]
  /\ pc \in [Task -> TaskPc]
  /\ lost \in SUBSET Instance

\* Every slot runs its first process; a human may have left a broken file.
Init ==
  /\ proc = [p \in Pid |-> "running"]
  /\ gen = [p \in Pid |-> 1]
  /\ file \in {NoFile, Malformed}
  /\ held = [i \in Instance |-> FALSE]
  /\ registered = [i \in Instance |-> FALSE]
  /\ acq = [i \in Instance |-> "none"]
  /\ seen = [i \in Instance |-> Unknown]
  /\ pc = [t \in Task |-> "idle"]
  /\ lost = {}

-----------------------------------------------------------------------------
(* acquire(), called by ensureLock() before every mutating operation.      *)

\* acquire(): nothing to do when held; otherwise the call joins the one
\* in-flight doAcquire, or starts it.
Mutate(i, t) ==
  /\ lockOf[t] = i
  /\ Running(i)
  /\ pc[t] = "idle"
  /\ ~held[i]
  /\ pc' = [pc EXCEPT ![t] = "acquiring"]
  /\ acq' = [acq EXCEPT ![i] = IF @ = "none" THEN "create" ELSE @]
  /\ UNCHANGED <<proc, gen, file, held, registered, seen, lost>>

\* Mutant: the temporary file is renamed over lockPath instead of linked.
LinkMineByRename(i, onExists) ==
  /\ file' = Mine(i)
  /\ acq' = [acq EXCEPT ![i] = "linked"]
  /\ lost' = lost \ {i}

\* tryWriteLockFile: link(2) publishes complete contents, or fails on EEXIST.
LinkMine(i, onExists) ==
  IF file = NoFile
  THEN /\ file' = Mine(i)
       /\ acq' = [acq EXCEPT ![i] = "linked"]
       /\ lost' = lost \ {i}
  ELSE /\ acq' = [acq EXCEPT ![i] = onExists]
       /\ UNCHANGED <<file, lost>>

\* The callers that await the in-flight acquire, after it settled.
Settle(i) ==
  pc' = [t \in Task |->
           IF lockOf[t] = i /\ pc[t] = "acquiring" THEN "idle" ELSE pc[t]]

\* The first tryWriteLockFile of tryCreateOrReclaim.
TryCreate(i) ==
  /\ Running(i)
  /\ acq[i] = "create"
  /\ LinkMine(i, "read")
  /\ UNCHANGED <<proc, gen, held, registered, seen, pc>>

\* Mutant: contents that do not parse are passed on.
ReadLockUnparsed(i) ==
  /\ Running(i)
  /\ acq[i] = "read"
  /\ seen' = [seen EXCEPT ![i] = file]
  /\ acq' = [acq EXCEPT ![i] = IF file \in Contents THEN "probe" ELSE "unlink"]
  /\ UNCHANGED <<proc, gen, file, held, registered, pc, lost>>

\* readLock: anything that cannot be parsed, or is gone, may be reclaimed.
ReadLock(i) ==
  /\ Running(i)
  /\ acq[i] = "read"
  /\ IF file \in Contents
     THEN /\ seen' = [seen EXCEPT ![i] = file]
          /\ acq' = [acq EXCEPT ![i] = "probe"]
     ELSE /\ seen' = [seen EXCEPT ![i] = Unknown]
          /\ acq' = [acq EXCEPT ![i] = "unlink"]
  /\ UNCHANGED <<proc, gen, file, held, registered, pc, lost>>

\* isStale, first half: kill(pid, 0).
ProbeAlive(i) ==
  /\ Running(i)
  /\ acq[i] = "probe"
  /\ acq' = [acq EXCEPT ![i] =
               IF Alive(pidOf[seen[i].owner]) THEN "start" ELSE "unlink"]
  /\ UNCHANGED <<proc, gen, file, held, registered, seen, pc, lost>>

\* The start signature the platform reports now, 0 when it reports none.
StartTime(p) == IF HasProbe /\ Alive(p) THEN gen[p] ELSE 0

\* Mutant: the signatures are compared the wrong way round.
PidReusedSwapped(c) == c.start # 0 /\ StartTime(pidOf[c.owner]) = c.start

\* Mutant: a pid that is in use is always taken for its old process.
PidReusedNever(c) == FALSE

\* isStale, second half: another process runs in the pid of the holder.
PidReused(c) ==
  LET now == StartTime(pidOf[c.owner])
  IN  /\ c.start # 0
      /\ now # 0
      /\ now # c.start

ProbeStart(i) ==
  /\ Running(i)
  /\ acq[i] = "start"
  /\ IF PidReused(seen[i])
     THEN /\ acq' = [acq EXCEPT ![i] = "unlink"]
          /\ UNCHANGED pc
     ELSE /\ acq' = [acq EXCEPT ![i] = "none"]     \* LockHeldError
          /\ Settle(i)
  /\ seen' = [seen EXCEPT ![i] = IF PidReused(@) THEN @ ELSE Unknown]
  /\ UNCHANGED <<proc, gen, file, held, registered, lost>>

\* reclaimAndCreate, the unlink: it removes whatever lockPath holds by now.
Reclaim(i) ==
  /\ Running(i)
  /\ acq[i] = "unlink"
  /\ lost' = IF file \in Contents THEN lost \cup {file.owner} ELSE lost
  /\ file' = NoFile
  /\ acq' = [acq EXCEPT ![i] = "recreate"]
  /\ seen' = [seen EXCEPT ![i] = Unknown]
  /\ UNCHANGED <<proc, gen, held, registered, pc>>

\* reclaimAndCreate, the second tryWriteLockFile: no further attempt.
Recreate(i) ==
  /\ Running(i)
  /\ acq[i] = "recreate"
  /\ LinkMine(i, "none")
  /\ IF file = NoFile THEN UNCHANGED pc ELSE Settle(i)
  /\ UNCHANGED <<proc, gen, held, registered, seen>>

\* doAcquire returns: held is set and the callers go on.
Acquired(i) ==
  /\ Running(i)
  /\ acq[i] = "linked"
  /\ acq' = [acq EXCEPT ![i] = "none"]
  /\ held' = [held EXCEPT ![i] = TRUE]
  /\ registered' = [registered EXCEPT ![i] = TRUE]
  /\ Settle(i)
  /\ UNCHANGED <<proc, gen, file, seen, lost>>

-----------------------------------------------------------------------------
(* release(), called by dispose().                                         *)

Release(i, t) ==
  /\ lockOf[t] = i
  /\ Running(i)
  /\ pc[t] = "idle"
  /\ held[i]
  /\ registered' = [registered EXCEPT ![i] = FALSE]
  /\ pc' = [pc EXCEPT ![t] = "relRead"]
  /\ UNCHANGED <<proc, gen, file, held, acq, seen, lost>>

\* isCurrentOwner
ReleaseCheck(i, t) ==
  /\ lockOf[t] = i
  /\ Running(i)
  /\ pc[t] = "relRead"
  /\ pc' = [pc EXCEPT ![t] = IF file = Mine(i) THEN "relUnlink"
                                                  ELSE "relClear"]
  /\ UNCHANGED <<proc, gen, file, held, registered, acq, seen, lost>>

\* The unlink, of whatever lockPath holds by now; ENOENT is swallowed.
ReleaseUnlink(i, t) ==
  /\ lockOf[t] = i
  /\ Running(i)
  /\ pc[t] = "relUnlink"
  /\ lost' = IF file \in Contents /\ ~(file = Mine(i) /\ held[i])
             THEN lost \cup {file.owner} ELSE lost
  /\ file' = NoFile
  /\ pc' = [pc EXCEPT ![t] = "relClear"]
  /\ UNCHANGED <<proc, gen, held, registered, acq, seen>>

\* held = false, after the awaits.
ReleaseDone(i, t) ==
  /\ lockOf[t] = i
  /\ Running(i)
  /\ pc[t] = "relClear"
  /\ held' = [held EXCEPT ![i] = FALSE]
  /\ pc' = [pc EXCEPT ![t] = "idle"]
  /\ UNCHANGED <<proc, gen, file, registered, acq, seen, lost>>

-----------------------------------------------------------------------------
(* Processes.                                                              *)

\* The memory of the process in slot p is gone.
Forget(p, how) ==
  LET In(i) == pidOf[i] = p IN
  /\ proc' = [proc EXCEPT ![p] = how]
  /\ held' = [i \in Instance |-> IF In(i) THEN FALSE ELSE held[i]]
  /\ registered' = [i \in Instance |-> IF In(i) THEN FALSE ELSE registered[i]]
  /\ acq' = [i \in Instance |-> IF In(i) THEN "none" ELSE acq[i]]
  /\ seen' = [i \in Instance |-> IF In(i) THEN Unknown ELSE seen[i]]
  /\ pc' = [t \in Task |-> IF In(lockOf[t]) THEN "idle" ELSE pc[t]]
  /\ lost' = {i \in lost : ~In(i)}
  /\ UNCHANGED gen

\* Mutant: the exit handler forgets the process without unlinking.
ExitKeepsFile(p) == Alive(p) /\ Forget(p, "exited") /\ UNCHANGED file

\* process.exit: processExitHandler runs releaseSync on every held lock.
Exit(p) ==
  /\ Alive(p)
  /\ file' = IF \E i \in Instance : /\ pidOf[i] = p
                                    /\ held[i] /\ registered[i]
                                    /\ file = Mine(i)
             THEN NoFile ELSE file
  /\ Forget(p, "exited")

\* SIGKILL: nothing runs.
Crash(p) ==
  /\ Alive(p)
  /\ Forget(p, "killed")
  /\ UNCHANGED file

\* A process starts in a free slot, with the pid of the one that died.
Start(p) ==
  /\ ~Alive(p)
  /\ gen[p] < MaxGen
  /\ proc' = [proc EXCEPT ![p] = "running"]
  /\ gen' = [gen EXCEPT ![p] = @ + 1]
  /\ UNCHANGED <<file, held, registered, acq, seen, pc, lost>>

-----------------------------------------------------------------------------
Acquiring(i) == \/ TryCreate(i) \/ ReadLock(i) \/ ProbeAlive(i)
                \/ ProbeStart(i) \/ Reclaim(i) \/ Recreate(i) \/ Acquired(i)

Releasing(i, t) == ReleaseCheck(i, t) \/ ReleaseUnlink(i, t)
                   \/ ReleaseDone(i, t)

Next ==
  \/ \E i \in Instance : Acquiring(i)
  \/ \E i \in Instance, t \in Task :
       Mutate(i, t) \/ Release(i, t) \/ Releasing(i, t)
  \/ \E p \in Pid : Exit(p) \/ Crash(p) \/ Start(p)

Spec == Init /\ [][Next]_vars

\* The event loop runs what is pending, and a client keeps writing.
Fairness ==
  /\ \A i \in Instance : WF_vars(Acquiring(i))
  /\ \A i \in Instance : WF_vars(\E t \in Task : Mutate(i, t))
  /\ \A i \in Instance, t \in Task : WF_vars(Releasing(i, t))

LiveSpec == Spec /\ Fairness

-----------------------------------------------------------------------------
(* Properties.                                                             *)

InRelease(i) ==
  \E t \in Task : /\ lockOf[t] = i
                  /\ pc[t] \in {"relRead", "relUnlink", "relClear"}

\* tryCreateOrReclaim unlinks a lock file only after it read contents whose
\* process is gone for good, or found nothing readable: isStale never takes
\* a running holder for a dead one, whatever processes do between its probes.
NoLiveHolderJudgedStale ==
  \A i \in Instance :
    acq[i] = "unlink" => seen[i] = Unknown \/ ~Live(seen[i])

\* An instance that holds the lock, is not being disposed and whose file
\* nobody removed still has its own contents on disk.
HolderOwnsFile ==
  \A i \in Instance :
    held[i] /\ i \notin lost /\ ~InRelease(i) => file = Mine(i)

\* Two instances hold the lock at once only when a reclaim or a release
\* removed the file of one of them: link(2) alone never admits two.
ExclusiveUnlessLost ==
  \A i, j \in Instance :
    held[i] /\ held[j] /\ i # j =>
      \/ {i, j} \cap lost # {}
      \/ InRelease(i) \/ InRelease(j)

\* "a second process attempting a mutating op gets a clear LockHeldError"
\* (advisory-lock.ts:9-10): two instances never hold the lock at once.
OneHolder ==
  \A i, j \in Instance :
    held[i] /\ held[j] /\ ~InRelease(i) /\ ~InRelease(j) => i = j

\* A graceful exit leaves no lock file of an instance that held the lock and
\* was not in the middle of a release.
ExitFreesLock ==
  [][\A i \in Instance :
       /\ held[i] /\ ~InRelease(i)
       /\ Running(i) /\ proc'[pidOf[i]] = "exited"
       => file' # Mine(i)]_vars

\* A lock file left by a process that died is reclaimed once a live instance
\* that holds nothing keeps writing, also when the dead pid is in use again.
StaleLockReclaimed ==
  \A i \in Instance : Stale ~> (~Stale \/ ~Running(i) \/ held[i])
=============================================================================
