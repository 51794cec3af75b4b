------------------------------- MODULE FsStore -------------------------------
(***************************************************************************)
(* One file of the filesystem store: NodeFsMemoryStore in                  *)
(* packages/core/src/fs/node-fs-memory-store.ts, the PathLock that         *)
(* serialises its mutating operations (tooling/utils/src/paths.ts), and a  *)
(* human who edits the file while the store is open.  All state of the     *)
(* store is kept per path, so one path shows every interleaving.  The      *)
(* process holds the advisory lock (module AdvisoryLock) throughout.       *)
(*                                                                         *)
(* A task is one asynchronous call of a client.  An "update" is the way    *)
(* the runtime changes an existing file: read it, compute, write it whole  *)
(* (archive, restore, migrate, session scaffolds).  The content of a file  *)
(* is the set of the entries in it, and its hash is the content itself.    *)
(* One action is the code between two awaits.                              *)
(***************************************************************************)
EXTENDS Naturals

CONSTANTS
  Task,        \* calls on the store
  kindOf,      \* what each call is
  Edit,        \* edits a human makes
  Crowded,     \* more than 100 paths are in use, or a store is disposed of
  Unreadable,  \* reading a file that is there may fail
  Absent,      \* the file does not exist
  NoTask,      \* no task: the path has no entry in PathLock.queues
  NoHash       \* the path has no entry in readHashes

Kind == {"read", "update", "append", "delete"}

ASSUME KindAssumption == kindOf \in [Task -> Kind]
ASSUME CrowdedAssumption == Crowded \in BOOLEAN
ASSUME UnreadableAssumption == Unreadable \in BOOLEAN
ASSUME EntryAssumption == Edit \cap Task = {}
ASSUME NoTaskAssumption == NoTask \notin Task
ASSUME SentinelAssumption ==
  \A c \in SUBSET (Task \cup Edit) : c # Absent /\ c # NoHash

VARIABLES
  disk,        \* the file
  edits,       \* edits not made yet
  readHash,    \* readHashes.get(path)
  tail,        \* PathLock.queues.get(path)
  prev,        \* task -> the tail it awaits, the local variable previous
  pc,          \* task -> where it is
  got,         \* task -> the content its read returned
  lastRead,    \* task -> the hash its write compares with
  checked,     \* task -> the file its write was checked against, Absent
               \* when there was none, or it could not be read
  ticket,      \* history: task -> its place in the order of the calls of
               \* runExclusive, 0 when it is not in one
  joined,      \* history: how many calls of runExclusive there were
  unguarded    \* history: updates whose own read found no file or failed, or
               \* since whose read another call moved the hash

queue == <<tail, prev, ticket, joined>>
vars == <<disk, edits, readHash, queue, pc, got, lastRead, checked, unguarded>>

-----------------------------------------------------------------------------
Content == SUBSET (Task \cup Edit)
File == {Absent} \cup Content
Hash == {NoHash} \cup (File \ {Absent})    \* a missing file has no hash

\* Between its turn and the end of its exclusive section.
Critical == {"compare", "rename", "setHash", "append", "remove", "dropHash"}
Pc == {"start", "returning", "ready", "queued", "done"} \cup Critical

TypeOK ==
  /\ disk \in File
  /\ edits \in SUBSET Edit
  /\ readHash \in Hash
  /\ tail \in Task \cup {NoTask}
  /\ prev \in [Task -> Task \cup {NoTask}]
  /\ pc \in [Task -> Pc]
  /\ got \in [Task -> Content]
  /\ lastRead \in [Task -> Hash]
  /\ checked \in [Task -> File]
  /\ ticket \in [Task -> Nat]
  /\ joined \in Nat
  /\ unguarded \in SUBSET Task

Init ==
  /\ disk \in {Absent, {}}
  /\ edits = Edit
  /\ readHash = NoHash
  /\ tail = NoTask
  /\ prev = [t \in Task |-> NoTask]
  /\ pc = [t \in Task |-> "start"]
  /\ got = [t \in Task |-> {}]
  /\ lastRead = [t \in Task |-> NoHash]
  /\ checked = [t \in Task |-> Absent]
  /\ ticket = [t \in Task |-> 0]
  /\ joined = 0
  /\ unguarded = {}

\* The content after entry e is added, the file being created if need be.
With(f, e) == IF f = Absent THEN {e} ELSE f \cup {e}

\* The updates between their read and their turn to write.
Deciding ==
  {u \in Task : kindOf[u] = "update" /\ pc[u] \in {"ready", "queued"}}

-----------------------------------------------------------------------------
(* read(): not serialised with anything.                                   *)

ReadFile(t) ==
  /\ pc[t] = "start"
  /\ kindOf[t] \in {"read", "update"}
  /\ disk # Absent
  /\ pc' = [pc EXCEPT ![t] = "returning"]
  /\ got' = [got EXCEPT ![t] = disk]
  /\ UNCHANGED <<disk, edits, readHash, queue, lastRead, checked, unguarded>>

\* The file is missing (MemoryNotFoundError, or "" where the options say so)
\* or cannot be read.  The call ends, or an update catches the error and goes
\* on from an empty document, as archiving does.  No hash is recorded, and one
\* recorded before stays.
ReadNothing(t) ==
  /\ pc[t] = "start"
  /\ kindOf[t] \in {"read", "update"}
  /\ disk = Absent \/ Unreadable
  /\ \/ /\ pc' = [pc EXCEPT ![t] = "done"]
        /\ UNCHANGED unguarded
     \/ /\ kindOf[t] = "update"
        /\ pc' = [pc EXCEPT ![t] = "ready"]
        /\ unguarded' = unguarded \cup {t}
  /\ UNCHANGED <<disk, edits, readHash, queue, got, lastRead, checked>>

\* Mutant: the hash of what is on disk by now is recorded.
ReadReturnLate(t) ==
  /\ pc[t] = "returning"
  /\ readHash' = disk
  /\ pc' = [pc EXCEPT ![t] = IF kindOf[t] = "update" THEN "ready" ELSE "done"]
  /\ unguarded' = unguarded \cup Deciding
  /\ UNCHANGED <<disk, edits, queue, got, lastRead, checked>>

\* setReadHash, when the read settles.
ReadReturn(t) ==
  /\ pc[t] = "returning"
  /\ readHash' = got[t]
  /\ pc' = [pc EXCEPT ![t] = IF kindOf[t] = "update" THEN "ready" ELSE "done"]
  /\ unguarded' = unguarded \cup Deciding
  /\ UNCHANGED <<disk, edits, queue, got, lastRead, checked>>

-----------------------------------------------------------------------------
(* PathLock.runExclusive                                                   *)

\* Mutant: the entry of the path is replaced before it is read.
EnqueueSelf(t) ==
  /\ \/ pc[t] = "ready"
     \/ pc[t] = "start" /\ kindOf[t] \in {"append", "delete"}
  /\ prev' = [prev EXCEPT ![t] = t]
  /\ tail' = t
  /\ joined' = joined + 1
  /\ ticket' = [ticket EXCEPT ![t] = joined + 1]
  /\ pc' = [pc EXCEPT ![t] = "queued"]
  /\ UNCHANGED <<disk, edits, readHash, got, lastRead, checked, unguarded>>

Enqueue(t) ==
  /\ \/ pc[t] = "ready"
     \/ pc[t] = "start" /\ kindOf[t] \in {"append", "delete"}
  /\ prev' = [prev EXCEPT ![t] = tail]
  /\ tail' = t
  /\ joined' = joined + 1
  /\ ticket' = [ticket EXCEPT ![t] = joined + 1]
  /\ pc' = [pc EXCEPT ![t] = "queued"]
  /\ UNCHANGED <<disk, edits, readHash, got, lastRead, checked, unguarded>>

\* previous has settled: every task queued before has released.
MyTurn(t) == prev[t] # NoTask => pc[prev[t]] = "done"

\* The task starts; a write picks up the hash it will compare with.
Enter(t) ==
  /\ pc[t] = "queued"
  /\ MyTurn(t)
  /\ pc' = [pc EXCEPT ![t] = CASE kindOf[t] = "append" -> "append"
                               [] kindOf[t] = "delete" -> "remove"
                               [] OTHER -> "compare"]
  /\ lastRead' = [lastRead EXCEPT ![t] = IF kindOf[t] = "update" THEN readHash
                                                            ELSE NoHash]
  /\ UNCHANGED <<disk, edits, readHash, queue, got, checked, unguarded>>

\* Mutant: the queue is forgotten although a task joined it.
LeaveForgets(t) ==
  /\ pc' = [pc EXCEPT ![t] = "done"]
  /\ tail' = NoTask
  /\ prev' = [prev EXCEPT ![t] = NoTask]
  /\ ticket' = [ticket EXCEPT ![t] = 0]
  /\ joined' = joined
  /\ got' = [got EXCEPT ![t] = {}]
  /\ lastRead' = [lastRead EXCEPT ![t] = NoHash]
  /\ checked' = [checked EXCEPT ![t] = Absent]

\* The finally block: release, and forget the queue when nobody joined it.
\* The local variables of the call go out of scope.
Leave(t) ==
  /\ pc' = [pc EXCEPT ![t] = "done"]
  /\ tail' = IF tail = t THEN NoTask ELSE tail
  /\ prev' = [prev EXCEPT ![t] = NoTask]
  /\ ticket' = [ticket EXCEPT ![t] = 0]
  /\ joined' = joined
  /\ got' = [got EXCEPT ![t] = {}]
  /\ lastRead' = [lastRead EXCEPT ![t] = NoHash]
  /\ checked' = [checked EXCEPT ![t] = Absent]

-----------------------------------------------------------------------------
(* write()                                                                 *)

\* Mutant: no optimistic check.
ConflictNever(t) == FALSE

\* The optimistic check: the file is read again and must still be what the
\* store last saw; with no recorded hash, or no file, anything goes.
Conflict(t) == lastRead[t] # NoHash /\ disk # Absent /\ disk # lastRead[t]

Compare(t) ==
  /\ pc[t] = "compare"
  /\ IF Conflict(t)
     THEN /\ Leave(t)                             \* "Conflict detected"
          /\ unguarded' = unguarded \ {t}
     ELSE /\ pc' = [pc EXCEPT ![t] = "rename"]
          /\ checked' = [checked EXCEPT ![t] = disk]
          /\ UNCHANGED <<queue, got, lastRead, unguarded>>
  /\ UNCHANGED <<disk, edits, readHash>>

\* The second read fails, for whatever reason: the write goes on unchecked.
CompareBlind(t) ==
  /\ pc[t] = "compare"
  /\ lastRead[t] # NoHash
  /\ pc' = [pc EXCEPT ![t] = "rename"]
  /\ checked' = [checked EXCEPT ![t] = Absent]
  /\ UNCHANGED <<disk, edits, readHash, queue, got, lastRead, unguarded>>

\* What the update writes: the content it read, with its own change.
Updated(t) == got[t] \cup {t}

\* writeFileAtomic: the rename publishes the complete new content.
Rename(t) ==
  /\ pc[t] = "rename"
  /\ disk' = Updated(t)
  /\ pc' = [pc EXCEPT ![t] = "setHash"]
  /\ UNCHANGED <<edits, readHash, queue, got, lastRead, checked, unguarded>>

WriteDone(t) ==
  /\ pc[t] = "setHash"
  /\ readHash' = Updated(t)
  /\ unguarded' = (unguarded \cup Deciding) \ {t}
  /\ Leave(t)
  /\ UNCHANGED <<disk, edits>>

-----------------------------------------------------------------------------
(* append() and delete()                                                   *)

AppendFile(t) ==
  /\ pc[t] = "append"
  /\ disk' = With(disk, t)
  /\ pc' = [pc EXCEPT ![t] = "dropHash"]
  /\ UNCHANGED <<edits, readHash, queue, got, lastRead, checked, unguarded>>

Remove(t) ==
  /\ pc[t] = "remove"
  /\ disk' = Absent
  /\ pc' = [pc EXCEPT ![t] = "dropHash"]
  /\ UNCHANGED <<edits, readHash, queue, got, lastRead, checked, unguarded>>

\* readHashes.delete(path)
DropHash(t) ==
  /\ pc[t] = "dropHash"
  /\ readHash' = NoHash
  /\ unguarded' = unguarded \cup Deciding
  /\ Leave(t)
  /\ UNCHANGED <<disk, edits>>

\* The call of the filesystem throws, before the rename for a write; a failed
\* append may have put its text in the file.  The hash stays as it is.
Fails(t) ==
  /\ pc[t] \in {"compare", "rename", "append", "remove"}
  /\ disk' \in IF pc[t] = "append" THEN {disk, With(disk, t)} ELSE {disk}
  /\ Leave(t)
  /\ unguarded' = unguarded \ {t}
  /\ UNCHANGED <<edits, readHash>>

-----------------------------------------------------------------------------
(* The rest of the process, and the human.                                 *)

\* The hash leaves the bounded map: 100 other paths were touched, or the
\* store was disposed.
Evict ==
  /\ Crowded
  /\ readHash # NoHash
  /\ readHash' = NoHash
  /\ unguarded' = unguarded \cup Deciding
  /\ UNCHANGED <<disk, edits, queue, pc, got, lastRead, checked>>

\* An editor saves the file with one more entry.
ExternalEdit(e) ==
  /\ e \in edits
  /\ disk' = With(disk, e)
  /\ edits' = edits \ {e}
  /\ UNCHANGED <<readHash, queue, pc, got, lastRead, checked, unguarded>>

Step(t) ==
  \/ ReadFile(t) \/ ReadNothing(t) \/ ReadReturn(t) \/ Enqueue(t) \/ Enter(t)
  \/ Compare(t) \/ CompareBlind(t) \/ Rename(t) \/ WriteDone(t)
  \/ AppendFile(t) \/ Remove(t) \/ DropHash(t) \/ Fails(t)

Next ==
  \/ \E t \in Task : Step(t)
  \/ Evict
  \/ \E e \in Edit : ExternalEdit(e)

Spec == Init /\ [][Next]_vars

\* Every call that can go on does: the event loop never forgets one.
LiveSpec == Spec /\ \A t \in Task : WF_vars(Step(t))

-----------------------------------------------------------------------------
(* Properties.                                                             *)

\* runExclusive: at most one task is inside the exclusive section of a path,
\* also when tasks join while the queue drains and its entry is dropped.
PathExclusive ==
  \A s, t \in Task : pc[s] \in Critical /\ pc[t] \in Critical => s = t

InLine(t) == pc[t] = "queued" \/ pc[t] \in Critical

\* Of the calls that joined the queue, the one that came first may go, and no
\* other: nobody is overtaken, nobody waits for a call that is over, and there
\* is always one that can go on, although runExclusive keeps no list and drops
\* its entry for the path whenever it looks like the last.
FirstGoes ==
  \A t \in Task : InLine(t) =>
    (MyTurn(t) <=> \A s \in Task : InLine(s) => ticket[t] <= ticket[s])

\* An update drops no entry that was in the file when its write was checked,
\* unless another operation of the store touched the recorded hash after the
\* update's own read, or that read found no file or failed and the update went
\* on from an empty document: then the hash the check compares with is not that
\* of the content the update was computed from, and the whole file can go.  (A
\* check that cannot read the file says nothing of it.)
GuardedUpdate ==
  [][\A t \in Task :
       Rename(t) /\ t \notin unguarded /\ checked[t] # Absent
         => checked[t] \subseteq disk']_vars

\* "checked optimistically by hash so an external edit is never silently
\* clobbered" (apps/docs/content/manifesto/index.md:40): a write that compared
\* hashes discards no edit that was on disk when it compared them.
EditsNeverClobbered ==
  [][\A t \in Task :
       Rename(t) /\ lastRead[t] # NoHash /\ checked[t] # Absent
         => checked[t] \cap Edit \subseteq disk']_vars

\* A call that joined the queue of the path gets its turn and leaves, whether
\* the tasks before it succeed, fail or end in a conflict.
QueueDrains == \A t \in Task : pc[t] = "queued" ~> pc[t] = "done"
=============================================================================
