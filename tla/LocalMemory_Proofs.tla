------------------------- MODULE LocalMemory_Proofs -------------------------
(***************************************************************************)
(* What holds of a runtime whose calls come one at a time, for any writes, *)
(* memories, crashes and failed store calls: no memory that was reported   *)
(* created is lost, and a sweep or a restore that ends has done its work.  *)
(* The types hold whether calls overlap or not.                            *)
(***************************************************************************)
EXTENDS LocalMemory, TLAPS

-----------------------------------------------------------------------------
(* The inductive invariant.                                                *)

Busy(w) == pc[w] \notin {"idle", "done"}

\* At most one call is in flight.
OneCall ==
  /\ \A v, w \in Write : Busy(v) /\ Busy(w) => v = w
  /\ \A w \in Write : Busy(w) => sweep.at = "idle" /\ restore.at = "idle"
  /\ sweep.at # "idle" => restore.at = "idle"

\* A write holds every note but those a failed read hid, and its own note is
\* on disk once it went there.
WriteInv ==
  \A w \in Write :
    /\ pc[w] = "write" => notes \ overwritten \subseteq got[w]
    /\ pc[w] \in {"event", "index", "graph", "finish"} => w \in notes

\* What a sweep has read is still true, and what it took it has filed.
SweepInv ==
  /\ sweep.at \in {"idle", "nodes"} => sweep.dep = {} /\ sweep.filed = {}
  /\ sweep.at \in {"nodes", "files"} => sweep.got = notes
  /\ sweep.at \in {"files", "graph", "prune"} /\ Fits =>
       Deprecated \ expired \subseteq sweep.dep
  /\ sweep.at \in {"graph", "prune"} => sweep.filed = Selected
  /\ sweep.at \in {"graph", "prune"} =>
       \A w \in notes : idOf[w] \notin sweep.dep
  /\ \A w \in sweep.filed : idOf[w] \in Archived

\* An archive file holds a block of its own memory.
ArchiveInv == \A m \in Archived : idOf[archive[m]] = m

\* A restore holds a block of its memory, puts it back and revives its node.
RestoreInv ==
  /\ restore.at \in {"read", "write"} =>
       restore.block \in Write /\ idOf[restore.block] = restore.of
  /\ restore.at = "write" => notes \ overwritten \subseteq restore.got
  /\ restore.at \in {"vector", "graph", "delete"} => restore.of \in Ids(notes)
  /\ /\ restore.at = "delete" /\ ~hurt /\ Fits
     /\ restore.of \notin expired
     => status[restore.of] # "archived"

CallInv == OneCall /\ WriteInv /\ SweepInv /\ ArchiveInv /\ RestoreInv

IInv == TypeOK /\ CallInv /\ CreatedIsKept

-----------------------------------------------------------------------------
(* Typing.                                                                 *)

SweepRecord == [at : SweepPc, got : SUBSET Write, twice : SUBSET Write,
                dep : SUBSET Memory, filed : SUBSET Write]
RestoreRecord == [at : RestorePc, of : Memory, block : Write \cup {NoWrite},
                  got : SUBSET Write, twice : SUBSET Write]

LEMMA NoSweepType == NoSweep \in SweepRecord
BY DEF NoSweep, SweepRecord, SweepPc

LEMMA NoRestoreType == NoRestore \in RestoreRecord
<1>1. (CHOOSE m \in Memory : TRUE) \in Memory
  BY WriteAssumption
<1>2. QED BY <1>1 DEF NoRestore, RestoreRecord, RestorePc

\* A step in which store calls fail or not keeps the types of the counters.
LEMMA OutcomeType ==
  ASSUME TypeOK, NEW ok \in BOOLEAN, Outcome(ok)
  PROVE  troubles' \in 0..MaxTrouble /\ hurt' \in BOOLEAN /\ stale' = stale
<1> USE BoundAssumption DEF TypeOK
<1>1. PICK n \in 0..1 : n = IF ok THEN 0 ELSE 1
  OBVIOUS
<1>2. Failures(n)
  BY <1>1 DEF Outcome
<1>3. troubles + n \in Nat /\ troubles + n <= MaxTrouble
  BY <1>2 DEF Failures
<1>4. QED BY <1>2, <1>3 DEF Failures

\* The steps of a write keep the types.
LEMMA WriteType ==
  ASSUME TypeOK, NEW w \in Write, Check(w) \/ WriteStep(w)
  PROVE  TypeOK'
<1> USE WriteAssumption DEF TypeOK, disk, memory, writing, bounds, hidden
<1>1. idOf[w] \in Memory
  OBVIOUS
<1>2. {keyOf[w]} \ {NoKey} \in SUBSET Key
  BY DEF Key
<1>3. ASSUME NEW r \in Result, Settle(w, r)
      PROVE  pc' \in [Write -> WritePc] /\ result' \in [Write -> Result]
  BY <1>3 DEF Settle, WritePc
<1>4. CASE Check(w)
  <2>1. pc' \in [Write -> WritePc] /\ result' \in [Write -> Result]
    BY <1>3, <1>4 DEF Check, Result, WritePc
  <2>2. idem' \in SUBSET Key
    BY <1>2, <1>4 DEF Check
  <2>3. QED BY <1>4, <2>1, <2>2 DEF Check
<1>5. CASE WriteNotes(w)
  BY <1>1, <1>5 DEF WriteNotes, PutNote, DropCopy, WritePc
<1>6. CASE AppendEvent(w)
  BY <1>6 DEF AppendEvent, WritePc
<1>7. CASE Finish(w)
  BY <1>2, <1>3, <1>7 DEF Finish, Result
<1>8. CASE WriteThrows(w)
  <2>1. pc' \in [Write -> WritePc] /\ result' \in [Write -> Result]
    BY <1>3, <1>8 DEF WriteThrows, Result
  <2>2. notes' \in SUBSET Write /\ twice' \in SUBSET Write
    BY <1>8 DEF WriteThrows, PutNote
  <2>3. events' \in SUBSET Write
    BY <1>8 DEF WriteThrows
  <2>4. /\ got' \in [Write -> SUBSET Write]
        /\ again' \in [Write -> SUBSET Write]
    BY <1>8 DEF WriteThrows, DropCopy
  <2>5. /\ troubles' \in 0..MaxTrouble /\ hurt' \in BOOLEAN
        /\ stale' = stale
        /\ UNCHANGED <<archive, status, expired, vec, memory, sweep, restore,
                       hidden>>
    BY <1>8, OutcomeType DEF WriteThrows
  <2>6. QED BY <2>1, <2>2, <2>3, <2>4, <2>5
<1>9. ASSUME NEW ok \in BOOLEAN, ReadNotes(w, ok) PROVE TypeOK'
  BY <1>9, OutcomeType DEF ReadNotes, WritePc
<1>10. ASSUME NEW ok \in BOOLEAN, Index(w, ok) PROVE TypeOK'
  BY <1>1, <1>10, OutcomeType DEF Index, WritePc
<1>11. ASSUME NEW ok \in BOOLEAN, Extract(w, ok) PROVE TypeOK'
  BY <1>1, <1>11, OutcomeType DEF Extract, WritePc
<1>12. QED
  BY <1>4, <1>5, <1>6, <1>7, <1>8, <1>9, <1>10, <1>11 DEF WriteStep

\* So do the steps of a sweep...
LEMMA SweepType ==
  ASSUME TypeOK, SweepRead \/ SweepStep
  PROVE  TypeOK'
<1> USE WriteAssumption
    DEF TypeOK, disk, memory, writing, bounds, hidden, SweepPc, SweepRecord
<1>0. NoSweep \in SweepRecord
  BY NoSweepType
<1>1. CASE SweepRead
  BY <1>1 DEF SweepRead
<1>2. CASE SweepNodes
  <2>1. PICK page \in Pages :
          sweep' = IF Deprecated \cap page = {} THEN NoSweep
                   ELSE [sweep EXCEPT !.at = "files",
                                      !.dep = Deprecated \cap page]
    BY <1>2 DEF SweepNodes
  <2>2. Deprecated \cap page \in SUBSET Memory
    BY DEF Deprecated
  <2>3. sweep' \in SweepRecord
    BY <1>0, <2>1, <2>2
  <2>4. QED BY <1>2, <2>3 DEF SweepNodes
<1>3. CASE SweepNotes
  BY <1>3 DEF SweepNotes, Selected
<1>4. CASE SweepThrows
  BY <1>0, <1>4, OutcomeType DEF SweepThrows, LeftOver
<1>5. ASSUME NEW w \in Write, SweepFile(w) PROVE TypeOK'
  BY <1>5 DEF SweepFile
<1>6. ASSUME NEW ok \in BOOLEAN, SweepGraph(ok) PROVE TypeOK'
  BY <1>6, OutcomeType DEF SweepGraph
<1>7. ASSUME NEW ok \in BOOLEAN, SweepPrune(ok) PROVE TypeOK'
  BY <1>0, <1>7, OutcomeType DEF SweepPrune
<1>8. QED BY <1>1, <1>2, <1>3, <1>4, <1>5, <1>6, <1>7 DEF SweepStep

\* A restore that is to write has found an archive file.
HoldsBlock == restore.at \in {"read", "write"} => restore.block \in Write

\* ...and of a restore.
LEMMA RestoreType ==
  ASSUME TypeOK, HoldsBlock,
         (\E m \in Memory : RestoreStart(m)) \/ RestoreStep
  PROVE  TypeOK'
<1> USE WriteAssumption
    DEF TypeOK, disk, memory, writing, bounds, hidden, RestorePc, RestoreRecord
<1>0. NoRestore \in RestoreRecord
  BY NoRestoreType
<1>1. ASSUME NEW m \in Memory, RestoreStart(m) PROVE TypeOK'
  BY <1>1 DEF RestoreStart
<1>2. CASE RestoreWrite
  <2>1. restore.block \in Write
    BY <1>2 DEF RestoreWrite, HoldsBlock
  <2>2. QED BY <1>2, <2>1 DEF RestoreWrite, PutBlock
<1>3. CASE RestoreThrows
  <2>1. notes' \in SUBSET Write /\ twice' \in SUBSET Write
    BY <1>3 DEF RestoreThrows, PutBlock, HoldsBlock
  <2>2. torn' \in SUBSET Write
    BY <1>3, <2>1 DEF RestoreThrows, LeftOver
  <2>3. /\ troubles' \in 0..MaxTrouble /\ hurt' \in BOOLEAN
        /\ stale' = stale /\ restore' = NoRestore
        /\ UNCHANGED <<events, archive, status, expired, vec, memory, writing,
                       sweep, unread, overwritten>>
    BY <1>3, OutcomeType DEF RestoreThrows
  <2>4. QED BY <1>0, <2>1, <2>2, <2>3
<1>4. ASSUME NEW ok \in BOOLEAN, RestoreRead(ok) PROVE TypeOK'
  BY <1>4, OutcomeType DEF RestoreRead
<1>5. ASSUME NEW ok \in BOOLEAN, RestoreVector(ok) PROVE TypeOK'
  BY <1>5, OutcomeType DEF RestoreVector
<1>6. ASSUME NEW ok \in BOOLEAN, RestoreGraph(ok) PROVE TypeOK'
  BY <1>6, OutcomeType DEF RestoreGraph
<1>7. ASSUME NEW ok \in BOOLEAN, RestoreDelete(ok) PROVE TypeOK'
  BY <1>0, <1>7, OutcomeType DEF RestoreDelete, LeftOver
<1>8. QED BY <1>1, <1>2, <1>3, <1>4, <1>5, <1>6, <1>7 DEF RestoreStep

\* A cold start, a crash and a retired node keep the types too.
LEMMA EnvironmentType ==
  ASSUME TypeOK,
         \/ \E okEvents, okNotes \in BOOLEAN : Hydrate(okEvents, okNotes)
         \/ \E m \in Memory : Deprecate(m) \/ Expire(m)
         \/ Crash
  PROVE  TypeOK'
<1> USE WriteAssumption, BoundAssumption
    DEF TypeOK, disk, memory, writing, bounds, hidden
<1>1. ASSUME NEW okEvents \in BOOLEAN, NEW okNotes \in BOOLEAN,
             Hydrate(okEvents, okNotes)
      PROVE  TypeOK'
  <2>1. PICK n \in 0..2 : Failures(n)
    BY <1>1 DEF Hydrate
  <2>2. troubles' \in 0..MaxTrouble /\ hurt' \in BOOLEAN /\ stale' = stale
    BY <2>1 DEF Failures
  <2>3. known' \in SUBSET Memory /\ lex' \in SUBSET Memory
        /\ bodies' \in SUBSET Memory
    BY <1>1 DEF Hydrate, Ids
  <2>4. idem' \in SUBSET Key
    BY <1>1 DEF Hydrate, Key
  <2>5. unread' \in SUBSET Write
    BY <1>1 DEF Hydrate
  <2>6. /\ ready' \in BOOLEAN
        /\ UNCHANGED <<disk, writing, sweep, restore, overwritten, torn>>
    BY <1>1 DEF Hydrate
  <2>7. QED BY <2>2, <2>3, <2>4, <2>5, <2>6
<1>2. ASSUME NEW m \in Memory, Deprecate(m) \/ Expire(m) PROVE TypeOK'
  <2>1. CASE Deprecate(m)
    BY <2>1 DEF Deprecate
  <2>2. CASE Expire(m)
    BY <2>2 DEF Expire
  <2>3. QED BY <1>2, <2>1, <2>2
<1>3. CASE Crash
  <2>1. pc' \in [Write -> WritePc] /\ result' \in [Write -> Result]
    BY <1>3 DEF Crash, WritePc, Result
  <2>2. sweep' \in SweepRecord /\ restore' \in RestoreRecord
    BY <1>3, NoSweepType, NoRestoreType DEF Crash
  <2>3. torn' \in SUBSET Write
    BY <1>3 DEF Crash, LeftOver
  <2>4. /\ got' \in [Write -> SUBSET Write]
        /\ again' \in [Write -> SUBSET Write]
        /\ troubles' \in 0..MaxTrouble
    BY <1>3 DEF Crash
  <2>5. /\ hurt' = FALSE /\ ready' = FALSE
        /\ known' = {} /\ idem' = {} /\ lex' = {} /\ bodies' = {}
        /\ UNCHANGED <<disk, stale, unread, overwritten>>
    BY <1>3 DEF Crash
  <2>6. QED BY <2>1, <2>2, <2>3, <2>4, <2>5 DEF SweepRecord, RestoreRecord
<1>4. QED BY <1>1, <1>2, <1>3

\* Overlapping calls do not disturb the block a restore holds.
LEMMA HoldsBlockNext ==
  ASSUME TypeOK, HoldsBlock, [Next]_vars PROVE HoldsBlock'
<1> USE DEF TypeOK, HoldsBlock, NoRestore
<1>1. ASSUME NEW m \in Memory, RestoreStart(m) PROVE HoldsBlock'
  BY <1>1 DEF RestoreStart
<1>2. CASE RestoreStep
  <2>1. CASE RestoreWrite
    BY <2>1 DEF RestoreWrite
  <2>2. CASE RestoreThrows
    BY <2>2 DEF RestoreThrows
  <2>3. ASSUME NEW ok \in BOOLEAN, RestoreRead(ok) PROVE HoldsBlock'
    BY <2>3 DEF RestoreRead
  <2>4. ASSUME NEW ok \in BOOLEAN, RestoreVector(ok) \/ RestoreGraph(ok) PROVE HoldsBlock'
    BY <2>4 DEF RestoreVector, RestoreGraph
  <2>5. ASSUME NEW ok \in BOOLEAN, RestoreDelete(ok) PROVE HoldsBlock'
    BY <2>5 DEF RestoreDelete
  <2>6. QED BY <1>2, <2>1, <2>2, <2>3, <2>4, <2>5 DEF RestoreStep
<1>3. ASSUME NEW w \in Write, Check(w) \/ WriteStep(w) PROVE UNCHANGED restore
  BY <1>3 DEF Check, WriteStep, WriteNotes, AppendEvent, Finish, WriteThrows,
              ReadNotes, Index, Extract
<1>4. CASE SweepRead \/ SweepStep
  BY <1>4 DEF SweepRead, SweepStep, SweepNodes, SweepNotes, SweepThrows,
              SweepFile, SweepGraph, SweepPrune
<1>5. CASE \/ \E okEvents, okNotes \in BOOLEAN : Hydrate(okEvents, okNotes)
           \/ \E m \in Memory : Deprecate(m) \/ Expire(m)
           \/ Crash \/ UNCHANGED vars
  BY <1>5 DEF Hydrate, Deprecate, Expire, Crash, vars
<1>6. QED BY <1>1, <1>2, <1>3, <1>4, <1>5 DEF Next

LEMMA TypeNext ==
  ASSUME TypeOK, HoldsBlock, [Next]_vars PROVE TypeOK'
<1>1. CASE UNCHANGED vars
  BY <1>1 DEF vars, disk, memory, writing, bounds, hidden, TypeOK
<1>2. QED BY <1>1, WriteType, SweepType, RestoreType, EnvironmentType DEF Next

-----------------------------------------------------------------------------
(* The steps of a write.                                                   *)

\* When calls come one at a time, one that starts finds no other in flight.
LEMMA Alone ==
  ASSUME Concurrent = FALSE, MayStart
  PROVE  /\ \A w \in Write : ~Busy(w)
         /\ sweep.at = "idle" /\ restore.at = "idle"
BY DEF MayStart, Quiet, Busy

\* A step of a write leaves the other calls and the archive alone.
LEMMA WriteFrame ==
  ASSUME TypeOK, NEW w \in Write, Check(w) \/ WriteStep(w)
  PROVE  /\ UNCHANGED <<sweep, restore, archive>>
         /\ \A v \in Write \ {w} : /\ pc'[v] = pc[v]
                                  /\ got'[v] = got[v]
                                  /\ result'[v] = result[v]
         /\ overwritten \subseteq overwritten'
         /\ \/ notes \subseteq notes'
            \/ pc[w] = "write" /\ notes' = got[w] \cup {w}
<1> USE DEF TypeOK, disk, memory, writing, bounds, hidden
<1>1. CASE Check(w)
  BY <1>1 DEF Check, Settle
<1>2. CASE WriteNotes(w)
  BY <1>2 DEF WriteNotes, PutNote, DropCopy
<1>3. CASE AppendEvent(w)
  BY <1>3 DEF AppendEvent
<1>4. CASE Finish(w)
  BY <1>4 DEF Finish, Settle
<1>5. CASE WriteThrows(w)
  BY <1>5 DEF WriteThrows, Settle, PutNote, DropCopy
<1>6. ASSUME NEW ok \in BOOLEAN, ReadNotes(w, ok) \/ Index(w, ok) \/ Extract(w, ok)
      PROVE  /\ UNCHANGED <<sweep, restore, archive>>
             /\ \A v \in Write \ {w} : /\ pc'[v] = pc[v]
                                      /\ got'[v] = got[v]
                                      /\ result'[v] = result[v]
             /\ overwritten \subseteq overwritten'
             /\ notes \subseteq notes'
  BY <1>6 DEF ReadNotes, Index, Extract
<1>7. QED BY <1>1, <1>2, <1>3, <1>4, <1>5, <1>6 DEF WriteStep

\* A write is past its start, or starts alone.
LEMMA WriteAlone ==
  ASSUME Concurrent = FALSE, OneCall, NEW w \in Write,
         Check(w) \/ WriteStep(w)
  PROVE  /\ \A v \in Write \ {w} : ~Busy(v)
         /\ sweep.at = "idle" /\ restore.at = "idle"
<1>1. CASE Check(w)
  BY <1>1, Alone DEF Check
<1>2. CASE WriteStep(w)
  <2>1. Busy(w)
    BY <1>2 DEF WriteStep, WriteNotes, AppendEvent, Finish, WriteThrows,
                ReadNotes, Index, Extract, Busy
  <2>2. QED BY <2>1 DEF OneCall
<1>3. QED BY <1>1, <1>2

\* The notes a write read stay the notes, and its own is never missing.
LEMMA WriteOwn ==
  ASSUME TypeOK, WriteInv, NEW w \in Write, Check(w) \/ WriteStep(w)
  PROVE  /\ pc'[w] = "write" => notes' \ overwritten' \subseteq got'[w]
         /\ pc'[w] \in {"event", "index", "graph", "finish"} => w \in notes'
<1> USE DEF TypeOK, WriteInv, disk, memory, writing, bounds, hidden
<1>1. CASE Check(w)
  BY <1>1 DEF Check, Settle
<1>2. CASE WriteNotes(w)
  BY <1>2 DEF WriteNotes, PutNote, DropCopy
<1>3. CASE AppendEvent(w)
  BY <1>3 DEF AppendEvent
<1>4. CASE Finish(w)
  BY <1>4 DEF Finish, Settle
<1>5. CASE WriteThrows(w)
  BY <1>5 DEF WriteThrows, Settle, PutNote, DropCopy
<1>6. ASSUME NEW ok \in BOOLEAN, ReadNotes(w, ok)
      PROVE  pc'[w] = "write" /\ notes' \ overwritten' \subseteq got'[w]
  BY <1>6 DEF ReadNotes
<1>7. ASSUME NEW ok \in BOOLEAN, Index(w, ok) \/ Extract(w, ok)
      PROVE  pc'[w] \in {"graph", "finish"} /\ w \in notes'
  BY <1>7 DEF Index, Extract
<1>8. QED BY <1>1, <1>2, <1>3, <1>4, <1>5, <1>6, <1>7 DEF WriteStep

\* Only the last step reports a note created.
LEMMA WriteReports ==
  ASSUME TypeOK, NEW w \in Write, Check(w) \/ WriteStep(w),
         result'[w] = "created"
  PROVE  result[w] = "created" \/ (pc[w] = "finish" /\ UNCHANGED notes)
<1> USE DEF TypeOK, disk, memory, writing, bounds, hidden
<1>1. CASE Check(w)
  BY <1>1 DEF Check, Settle
<1>2. CASE WriteThrows(w)
  BY <1>2 DEF WriteThrows, Settle
<1>3. CASE Finish(w)
  BY <1>3 DEF Finish, Settle
<1>4. CASE WriteNotes(w) \/ AppendEvent(w)
  BY <1>4 DEF WriteNotes, AppendEvent
<1>5. ASSUME NEW ok \in BOOLEAN, ReadNotes(w, ok) \/ Index(w, ok) \/ Extract(w, ok)
      PROVE  UNCHANGED result
  BY <1>5 DEF ReadNotes, Index, Extract
<1>6. QED BY <1>1, <1>2, <1>3, <1>4, <1>5 DEF WriteStep

LEMMA WriteKeeps ==
  ASSUME Concurrent = FALSE, IInv, NEW w \in Write, Check(w) \/ WriteStep(w)
  PROVE  CallInv' /\ CreatedIsKept'
<1> USE WriteAssumption DEF IInv, CallInv
<1>1. /\ UNCHANGED <<sweep, restore, archive>>
      /\ \A v \in Write \ {w} : pc'[v] = pc[v] /\ result'[v] = result[v]
      /\ overwritten \subseteq overwritten'
  BY WriteFrame
<1>2. /\ \A v \in Write \ {w} : ~Busy(v)
      /\ sweep.at = "idle" /\ restore.at = "idle"
  BY WriteAlone
<1>3. OneCall'
  BY <1>1, <1>2 DEF OneCall, Busy
<1>4. WriteInv'
  BY <1>1, <1>2, WriteOwn DEF WriteInv, Busy
<1>5. SweepInv'
  BY <1>1, <1>2 DEF SweepInv
<1>6. ArchiveInv'
  BY <1>1 DEF ArchiveInv, Archived
<1>7. RestoreInv'
  BY <1>1, <1>2 DEF RestoreInv
<1>8. ASSUME NEW u \in notes \ overwritten PROVE u \in notes'
  <2>1. CASE pc[w] = "write" /\ notes' = got[w] \cup {w}
    BY <1>8, <2>1 DEF WriteInv
  <2>2. CASE notes \subseteq notes'
    BY <1>8, <2>2
  <2>3. QED BY <2>1, <2>2, WriteFrame
<1>9. CreatedIsKept'
  <2> SUFFICES ASSUME NEW v \in Write, result'[v] = "created",
                      idOf[v] \notin Ids(overwritten')
               PROVE  idOf[v] \in Ids(notes') \cup Archived'
    BY DEF CreatedIsKept, Ids, Archived
  <2>1. idOf[v] \notin Ids(overwritten)
    BY <1>1 DEF Ids
  <2>2. CASE result[v] = "created"
    <3>1. idOf[v] \in Ids(notes) \cup Archived
      BY <2>1, <2>2 DEF CreatedIsKept
    <3>2. CASE idOf[v] \in Ids(notes)
      <4>1. PICK u \in notes : idOf[u] = idOf[v]
        BY <3>2 DEF Ids
      <4>2. u \notin overwritten
        BY <2>1, <4>1 DEF Ids
      <4>3. QED BY <1>8, <4>1, <4>2 DEF Ids
    <3>3. CASE idOf[v] \in Archived
      BY <1>1, <3>3 DEF Archived
    <3>4. QED BY <3>1, <3>2, <3>3
  <2>3. CASE result[v] # "created"
    <3>1. v = w
      BY <1>1, <2>3
    <3>2. v \in notes'
      BY <2>3, <3>1, WriteReports DEF WriteInv
    <3>3. QED BY <3>2 DEF Ids
  <2>4. QED BY <2>2, <2>3
<1>10. QED BY <1>3, <1>4, <1>5, <1>6, <1>7, <1>9

-----------------------------------------------------------------------------
(* The steps of a sweep.                                                   *)

\* A sweep works alone, and only on what is its own.
LEMMA SweepFrame ==
  ASSUME Concurrent = FALSE, OneCall, SweepRead \/ SweepStep
  PROVE  /\ \A w \in Write : ~Busy(w)
         /\ restore.at = "idle"
         /\ UNCHANGED <<writing, restore, unread, overwritten>>
<1> USE DEF disk, memory, writing, hidden
<1>1. CASE SweepRead
  BY <1>1, Alone DEF SweepRead
<1>2. CASE SweepStep
  <2>1. sweep.at # "idle"
    BY <1>2 DEF SweepStep, SweepNodes, SweepNotes, SweepThrows, SweepFile,
                SweepGraph, SweepPrune
  <2>2. UNCHANGED <<writing, restore, unread, overwritten>>
    BY <1>2 DEF SweepStep, SweepNodes, SweepNotes, SweepThrows, SweepFile,
                SweepGraph, SweepPrune
  <2>3. QED BY <2>1, <2>2 DEF OneCall
<1>3. QED BY <1>1, <1>2

\* No node comes or goes unless the status none does.
LEMMA SameNodes ==
  ASSUME \A m \in Memory : status'[m] = "none" <=> status[m] = "none"
  PROVE  Nodes' = Nodes /\ Fits' = Fits
<1>1. Nodes' = Nodes
  BY DEF Nodes
<1>2. QED BY <1>1 DEF Fits

\* What the sweep knows stays true.
LEMMA SweepOwn ==
  ASSUME TypeOK, SweepInv, SweepRead \/ SweepStep
  PROVE  SweepInv'
<1> USE WriteAssumption DEF TypeOK, disk, memory, writing, bounds, hidden
<1>1. CASE SweepRead
  BY <1>1 DEF SweepRead, SweepInv, Archived
<1>0. Nodes' = Nodes /\ Fits' = Fits
  <2>1. ASSUME NEW ok \in BOOLEAN, SweepGraph(ok), NEW m \in Memory
        PROVE  status'[m] = "none" <=> status[m] = "none"
    BY <2>1 DEF SweepGraph
  <2>2. \/ UNCHANGED status
        \/ \E ok \in BOOLEAN : SweepGraph(ok)
    BY DEF SweepRead, SweepStep, SweepNodes, SweepNotes, SweepThrows,
           SweepFile, SweepPrune
  <2>3. QED BY <2>1, <2>2, SameNodes
<1>2. CASE SweepNodes
  <2>1. PICK page \in Pages :
          sweep' = IF Deprecated \cap page = {} THEN NoSweep
                   ELSE [sweep EXCEPT !.at = "files",
                                      !.dep = Deprecated \cap page]
    BY <1>2 DEF SweepNodes
  <2>2. Fits => Deprecated \ expired \subseteq page
    BY <2>1 DEF Pages, Deprecated, Nodes
  <2>3. /\ Deprecated' = Deprecated /\ Archived' = Archived
        /\ UNCHANGED <<notes, expired>> /\ sweep.at = "nodes"
    BY <1>2 DEF SweepNodes, Deprecated, Archived
  <2>4. CASE Deprecated \cap page = {}
    BY <2>1, <2>4 DEF SweepInv, NoSweep
  <2>5. CASE Deprecated \cap page # {}
    <3>1. /\ sweep'.at = "files" /\ sweep'.dep = Deprecated \cap page
          /\ sweep'.got = sweep.got /\ sweep'.filed = sweep.filed
      BY <2>1, <2>5
    <3>2. QED BY <1>0, <2>2, <2>3, <3>1 DEF SweepInv
  <2>6. QED BY <2>4, <2>5
<1>3. ASSUME NEW w \in Write, SweepFile(w) PROVE SweepInv'
  BY <1>0, <1>3 DEF SweepFile, SweepInv, Archived, Deprecated, Selected
<1>4. CASE SweepNotes
  BY <1>0, <1>4 DEF SweepNotes, SweepInv, Archived, Deprecated, Selected
<1>5. ASSUME NEW ok \in BOOLEAN, SweepGraph(ok) PROVE SweepInv'
  BY <1>0, <1>5 DEF SweepGraph, SweepInv, Archived, Deprecated, Selected
<1>6. ASSUME NEW ok \in BOOLEAN, SweepPrune(ok) PROVE SweepInv'
  BY <1>6 DEF SweepPrune, SweepInv, NoSweep, Archived
<1>7. CASE SweepThrows
  BY <1>7 DEF SweepThrows, SweepInv, NoSweep, Archived
<1>8. QED BY <1>1, <1>2, <1>3, <1>4, <1>5, <1>6, <1>7 DEF SweepStep

\* An id leaves notes.md only once it has an archive file.
LEMMA SweepMoves ==
  ASSUME TypeOK, SweepInv, ArchiveInv, SweepRead \/ SweepStep
  PROVE  /\ ArchiveInv'
         /\ Ids(notes) \cup Archived \subseteq Ids(notes') \cup Archived'
<1> USE WriteAssumption DEF TypeOK, disk, memory, writing, bounds, hidden
<1>1. ASSUME NEW w \in Write, SweepFile(w)
      PROVE  /\ ArchiveInv'
             /\ Ids(notes) \cup Archived \subseteq Ids(notes') \cup Archived'
  BY <1>1 DEF SweepFile, ArchiveInv, Archived, Ids
<1>2. CASE SweepNotes
  <2>1. ArchiveInv' /\ Archived' = Archived
    BY <1>2 DEF SweepNotes, ArchiveInv, Archived
  <2>2. ASSUME NEW w \in notes PROVE idOf[w] \in Ids(notes') \cup Archived
    BY <1>2 DEF SweepNotes, SweepInv, Selected, Ids
  <2>3. QED BY <2>1, <2>2 DEF Ids
<1>3. CASE UNCHANGED <<notes, archive>>
  BY <1>3 DEF ArchiveInv, Archived, Ids
<1>4. SweepRead \/ SweepNodes \/ SweepThrows
      \/ (\E ok \in BOOLEAN : SweepGraph(ok) \/ SweepPrune(ok))
      => UNCHANGED <<notes, archive>>
  BY DEF SweepRead, SweepNodes, SweepThrows, SweepGraph, SweepPrune
<1>5. QED BY <1>1, <1>2, <1>3, <1>4 DEF SweepStep

LEMMA SweepKeeps ==
  ASSUME Concurrent = FALSE, IInv, SweepRead \/ SweepStep
  PROVE  CallInv' /\ CreatedIsKept'
<1> USE DEF IInv, CallInv
<1>1. /\ \A w \in Write : ~Busy(w)
      /\ restore.at = "idle"
      /\ UNCHANGED <<pc, result, got, restore, overwritten>>
  BY SweepFrame DEF writing, hidden
<1>2. OneCall' /\ WriteInv' /\ RestoreInv'
  BY <1>1 DEF OneCall, WriteInv, RestoreInv, Busy
<1>3. CreatedIsKept'
  BY <1>1, SweepMoves DEF CreatedIsKept, Ids
<1>4. QED BY <1>2, <1>3, SweepOwn, SweepMoves

-----------------------------------------------------------------------------
(* The steps of a restore.                                                 *)

\* A restore works alone, and only on what is its own.
LEMMA RestoreFrame ==
  ASSUME Concurrent = FALSE, OneCall,
         (\E m \in Memory : RestoreStart(m)) \/ RestoreStep
  PROVE  /\ \A w \in Write : ~Busy(w)
         /\ sweep.at = "idle"
         /\ UNCHANGED <<writing, sweep>>
         /\ overwritten \subseteq overwritten'
<1> USE DEF disk, memory, writing, hidden
<1>1. ASSUME NEW m \in Memory, RestoreStart(m)
      PROVE  /\ \A w \in Write : ~Busy(w)
             /\ sweep.at = "idle"
             /\ UNCHANGED <<writing, sweep, overwritten>>
  BY <1>1, Alone DEF RestoreStart
<1>2. CASE RestoreStep
  <2>1. restore.at # "idle"
    BY <1>2 DEF RestoreStep, RestoreWrite, RestoreThrows, RestoreRead,
                RestoreVector, RestoreGraph, RestoreDelete
  <2>2. UNCHANGED <<writing, sweep>> /\ overwritten \subseteq overwritten'
    BY <1>2 DEF RestoreStep, RestoreWrite, RestoreThrows, RestoreRead,
                RestoreVector, RestoreGraph, RestoreDelete
  <2>3. QED BY <2>1, <2>2 DEF OneCall
<1>3. QED BY <1>1, <1>2

\* What the restore knows stays true.
LEMMA RestoreOwn ==
  ASSUME TypeOK, RestoreInv, ArchiveInv,
         (\E m \in Memory : RestoreStart(m)) \/ RestoreStep
  PROVE  RestoreInv'
<1> USE WriteAssumption DEF TypeOK, disk, memory, writing, bounds, hidden
<1>1. ASSUME NEW m \in Memory, RestoreStart(m) PROVE RestoreInv'
  BY <1>1 DEF RestoreStart, RestoreInv, ArchiveInv, Archived
<1>2. ASSUME NEW ok \in BOOLEAN, RestoreRead(ok) PROVE RestoreInv'
  BY <1>2 DEF RestoreRead, RestoreInv
<1>3. CASE RestoreWrite
  BY <1>3 DEF RestoreWrite, PutBlock, RestoreInv, Ids
<1>4. ASSUME NEW ok \in BOOLEAN, RestoreVector(ok) PROVE RestoreInv'
  BY <1>4 DEF RestoreVector, RestoreInv, Ids
<1>5. ASSUME NEW ok \in BOOLEAN, RestoreGraph(ok) PROVE RestoreInv'
  <2>1. restore' = [restore EXCEPT !.at = "delete"] /\ notes' = notes
    BY <1>5 DEF RestoreGraph
  <2>2. ~hurt' => ok
    <3>1. Outcome(ok)
      BY <1>5 DEF RestoreGraph
    <3>2. CASE ~ok
      <4>1. Failures(1)
        BY <3>1, <3>2 DEF Outcome
      <4>2. hurt' = (hurt \/ 1 > 0)
        BY <4>1 DEF Failures
      <4>3. 1 > 0
        OBVIOUS
      <4>4. QED BY <4>2, <4>3, Zenon
    <3>3. QED BY <3>2, Zenon
  <2>3. PICK page \in Pages :
          status' = [status EXCEPT ![restore.of] =
                       IF ok /\ restore.of \in page /\ @ = "archived"
                       THEN "active" ELSE @]
    BY <1>5 DEF RestoreGraph
  <2>4. Fits' = Fits
    BY <2>3, SameNodes
  <2>5. Fits /\ restore.of \notin expired /\ status[restore.of] = "archived"
          => restore.of \in page
    BY DEF Pages, Nodes
  <2>6. ok /\ Fits /\ restore.of \notin expired
          => status'[restore.of] # "archived"
    BY <2>3, <2>5
  <2>7. restore'.of = restore.of /\ restore'.at = "delete"
        /\ UNCHANGED expired
    BY <1>5 DEF RestoreGraph
  <2>8. restore.of \in Ids(notes')
    BY <1>5, <2>1 DEF RestoreGraph, RestoreInv
  <2>9. QED BY <2>2, <2>4, <2>6, <2>7, <2>8 DEF RestoreInv
<1>6. ASSUME NEW ok \in BOOLEAN, RestoreDelete(ok) PROVE RestoreInv'
  BY <1>6 DEF RestoreDelete, RestoreInv, NoRestore
<1>7. CASE RestoreThrows
  BY <1>7 DEF RestoreThrows, RestoreInv, NoRestore
<1>8. QED BY <1>1, <1>2, <1>3, <1>4, <1>5, <1>6, <1>7 DEF RestoreStep

\* An archive file goes only once its memory is in notes.md, and the rewrite
\* of notes.md drops no note but those a failed read hid.
LEMMA RestoreMoves ==
  ASSUME TypeOK, RestoreInv, ArchiveInv,
         (\E m \in Memory : RestoreStart(m)) \/ RestoreStep
  PROVE  /\ ArchiveInv'
         /\ notes \ overwritten \subseteq notes'
         /\ Archived \subseteq Ids(notes') \cup Archived'
<1> USE WriteAssumption DEF TypeOK, disk, memory, writing, bounds, hidden
<1>1. CASE restore.at = "write" /\ PutBlock /\ UNCHANGED archive
  BY <1>1 DEF PutBlock, RestoreInv, ArchiveInv, Archived, Ids
<1>2. ASSUME NEW ok \in BOOLEAN, RestoreDelete(ok)
      PROVE  /\ ArchiveInv'
             /\ notes \ overwritten \subseteq notes'
             /\ Archived \subseteq Ids(notes') \cup Archived'
  BY <1>2 DEF RestoreDelete, RestoreInv, ArchiveInv, Archived, Ids
<1>3. CASE UNCHANGED <<notes, archive>>
  BY <1>3 DEF ArchiveInv, Archived, Ids
<1>4. RestoreWrite \/ RestoreThrows
      => \/ restore.at = "write" /\ PutBlock /\ UNCHANGED archive
         \/ UNCHANGED <<notes, archive>>
  BY DEF RestoreWrite, RestoreThrows
<1>5. \/ \E m \in Memory : RestoreStart(m)
      \/ \E ok \in BOOLEAN : \/ RestoreRead(ok) \/ RestoreVector(ok)
                             \/ RestoreGraph(ok)
      => UNCHANGED <<notes, archive>>
  BY DEF RestoreStart, RestoreRead, RestoreVector, RestoreGraph
<1>6. QED BY <1>1, <1>2, <1>3, <1>4, <1>5 DEF RestoreStep

LEMMA RestoreKeeps ==
  ASSUME Concurrent = FALSE, IInv,
         (\E m \in Memory : RestoreStart(m)) \/ RestoreStep
  PROVE  CallInv' /\ CreatedIsKept'
<1> USE DEF IInv, CallInv
<1>1. /\ \A w \in Write : ~Busy(w)
      /\ sweep.at = "idle"
      /\ UNCHANGED <<pc, result, got, sweep>>
      /\ overwritten \subseteq overwritten'
  BY RestoreFrame DEF writing
<1>2. OneCall' /\ WriteInv' /\ SweepInv'
  BY <1>1 DEF OneCall, WriteInv, SweepInv, Busy
<1>3. ASSUME NEW v \in Write, result[v] = "created",
             idOf[v] \notin Ids(overwritten')
      PROVE  idOf[v] \in Ids(notes') \cup Archived'
  <2>1. idOf[v] \notin Ids(overwritten)
    BY <1>1, <1>3 DEF Ids
  <2>2. CASE idOf[v] \in Ids(notes)
    <3>1. PICK u \in notes : idOf[u] = idOf[v]
      BY <2>2 DEF Ids
    <3>2. u \in notes \ overwritten
      BY <2>1, <3>1 DEF Ids
    <3>3. QED BY <3>1, <3>2, RestoreMoves DEF Ids
  <2>3. CASE idOf[v] \in Archived
    BY <2>3, RestoreMoves
  <2>4. QED BY <1>3, <2>1, <2>2, <2>3 DEF CreatedIsKept
<1>4. CreatedIsKept'
  BY <1>1, <1>3 DEF CreatedIsKept, Ids, Archived
<1>5. QED BY <1>2, <1>4, RestoreOwn, RestoreMoves

-----------------------------------------------------------------------------
(* The environment.                                                        *)

LEMMA HydrateKeeps ==
  ASSUME IInv, NEW okEvents \in BOOLEAN, NEW okNotes \in BOOLEAN,
         Hydrate(okEvents, okNotes)
  PROVE  CallInv' /\ CreatedIsKept'
<1> USE DEF IInv, CallInv
<1>1. UNCHANGED <<notes, archive, status, pc, result, got, sweep, restore,
                  overwritten>>
  BY DEF Hydrate, disk, writing
<1>2. hurt => hurt'
  <2>1. PICK n \in 0..2 : Failures(n)
    BY DEF Hydrate
  <2>2. QED BY <2>1 DEF Failures
<1>3. OneCall' /\ WriteInv' /\ ArchiveInv'
  BY <1>1 DEF OneCall, WriteInv, ArchiveInv, Archived, Busy
<1>4. Fits' = Fits /\ UNCHANGED expired
  BY <1>1, SameNodes DEF Hydrate, disk
<1>5. SweepInv'
  BY <1>1, <1>4 DEF SweepInv, Deprecated, Selected, Archived
<1>6. RestoreInv'
  BY <1>1, <1>2, <1>4 DEF RestoreInv, Ids
<1>7. CreatedIsKept'
  BY <1>1 DEF CreatedIsKept, Ids, Archived
<1>8. QED BY <1>3, <1>5, <1>6, <1>7

\* A node goes stale between calls.
LEMMA DeprecateKeeps ==
  ASSUME Concurrent = FALSE, IInv, NEW m \in Memory, Deprecate(m)
  PROVE  CallInv' /\ CreatedIsKept'
<1> USE DEF IInv, CallInv
<1>1. UNCHANGED <<notes, archive, pc, result, got, sweep, restore, overwritten>>
  BY DEF Deprecate, writing, hidden
<1>2. sweep.at = "idle" /\ restore.at = "idle"
  BY Alone DEF Deprecate
<1>3. OneCall' /\ WriteInv' /\ ArchiveInv'
  BY <1>1 DEF OneCall, WriteInv, ArchiveInv, Archived, Busy
<1>4. SweepInv' /\ RestoreInv'
  BY <1>1, <1>2 DEF SweepInv, RestoreInv
<1>5. CreatedIsKept'
  BY <1>1 DEF CreatedIsKept, Ids, Archived
<1>6. QED BY <1>3, <1>4, <1>5

\* Time passes, also while a sweep or a restore is under way.
LEMMA ExpireKeeps ==
  ASSUME IInv, NEW m \in Memory, Expire(m)
  PROVE  CallInv' /\ CreatedIsKept'
<1> USE DEF IInv, CallInv
<1>1. UNCHANGED <<notes, archive, status, pc, result, got, sweep, restore, hurt,
                  overwritten>>
  BY DEF Expire, writing, hidden
<1>2. Fits' = Fits /\ expired \subseteq expired'
  BY <1>1, SameNodes DEF Expire
<1>3. OneCall' /\ WriteInv' /\ ArchiveInv'
  BY <1>1 DEF OneCall, WriteInv, ArchiveInv, Archived, Busy
<1>4. SweepInv'
  BY <1>1, <1>2 DEF SweepInv, Deprecated, Selected, Archived
<1>5. RestoreInv'
  BY <1>1, <1>2 DEF RestoreInv, Ids
<1>6. CreatedIsKept'
  BY <1>1 DEF CreatedIsKept, Ids, Archived
<1>7. QED BY <1>3, <1>4, <1>5, <1>6

\* A crash ends the calls and leaves the disk alone.
LEMMA CrashKeeps ==
  ASSUME IInv, Crash
  PROVE  CallInv' /\ CreatedIsKept'
<1> USE DEF IInv, CallInv
<1>1. UNCHANGED <<notes, archive, overwritten>>
  BY DEF Crash, disk, hidden
<1>2. \A w \in Write : ~Busy(w)'
  BY DEF Crash, Busy
<1>3. sweep' = NoSweep /\ restore'.at = "idle"
  BY DEF Crash, NoRestore
<1>4. OneCall' /\ WriteInv'
  BY <1>2, <1>3 DEF OneCall, WriteInv, Busy, NoSweep
<1>5. SweepInv' /\ RestoreInv' /\ ArchiveInv'
  BY <1>1, <1>3 DEF SweepInv, RestoreInv, ArchiveInv, Archived, NoSweep
<1>6. \A w \in Write : result'[w] = "created" => result[w] = "created"
  BY DEF Crash
<1>7. CreatedIsKept'
  BY <1>1, <1>6 DEF CreatedIsKept, Ids, Archived
<1>8. QED BY <1>4, <1>5, <1>7

-----------------------------------------------------------------------------
(* The theorems.                                                           *)

LEMMA InvInit == Init => IInv
<1> SUFFICES ASSUME Init PROVE IInv
  OBVIOUS
<1> USE WriteAssumption, BoundAssumption DEF Init
<1>1. TypeOK
  <2>1. sweep \in SweepRecord
    BY NoSweepType
  <2>2. restore \in RestoreRecord
    BY NoRestoreType
  <2>3. pc \in [Write -> WritePc] /\ result \in [Write -> Result]
        /\ got \in [Write -> SUBSET Write]
        /\ again \in [Write -> SUBSET Write]
    BY DEF WritePc, Result
  <2>4. /\ archive \in [Memory -> Write \cup {NoWrite}]
        /\ status \in [Memory -> {"none", "active", "deprecated", "archived"}]
    OBVIOUS
  <2>5. troubles \in 0..MaxTrouble /\ stale \in 0..MaxDeprecate
    OBVIOUS
  <2>6. QED BY <2>1, <2>2, <2>3, <2>4, <2>5
            DEF TypeOK, SweepRecord, RestoreRecord
<1>2. sweep = NoSweep /\ restore.at = "idle"
  BY DEF NoRestore
<1>3. CallInv
  BY <1>2 DEF CallInv, OneCall, WriteInv, SweepInv, ArchiveInv, RestoreInv,
              Busy, NoSweep, Archived
<1>4. CreatedIsKept
  BY DEF CreatedIsKept
<1>5. QED BY <1>1, <1>3, <1>4 DEF IInv

LEMMA InvStutter ==
  ASSUME IInv, UNCHANGED vars PROVE IInv'
<1> USE DEF vars, disk, memory, writing, bounds, hidden
<1>1. TypeOK'
  BY DEF IInv, TypeOK
<1>2. OneCall' /\ WriteInv' /\ ArchiveInv'
  BY DEF IInv, CallInv, OneCall, WriteInv, ArchiveInv, Archived, Busy
<1>3. SweepInv' /\ RestoreInv'
  <2>1. Fits' = Fits
    BY SameNodes
  <2>2. QED BY <2>1 DEF IInv, CallInv, SweepInv, RestoreInv, Deprecated,
                        Selected, Archived, Ids
<1>4. CreatedIsKept'
  BY DEF IInv, CreatedIsKept, Ids, Archived
<1>5. QED BY <1>1, <1>2, <1>3, <1>4 DEF IInv, CallInv

LEMMA InvNext ==
  ASSUME Concurrent = FALSE, IInv, [Next]_vars PROVE IInv'
<1>0. TypeOK'
  BY TypeNext DEF IInv, CallInv, RestoreInv, HoldsBlock
<1>1. CASE \E okEvents, okNotes \in BOOLEAN : Hydrate(okEvents, okNotes)
  BY <1>1, <1>0, HydrateKeeps DEF IInv
<1>2. ASSUME NEW w \in Write, Check(w) \/ WriteStep(w) PROVE IInv'
  BY <1>2, <1>0, WriteKeeps DEF IInv
<1>3. CASE SweepRead \/ SweepStep
  BY <1>3, <1>0, SweepKeeps DEF IInv
<1>4. CASE (\E m \in Memory : RestoreStart(m)) \/ RestoreStep
  BY <1>4, <1>0, RestoreKeeps DEF IInv, CallInv
<1>5. ASSUME NEW m \in Memory, Deprecate(m) \/ Expire(m) PROVE IInv'
  BY <1>5, <1>0, DeprecateKeeps, ExpireKeeps DEF IInv
<1>6. CASE Crash
  BY <1>6, <1>0, CrashKeeps DEF IInv
<1>7. CASE UNCHANGED vars
  BY <1>7, InvStutter
<1>8. QED BY <1>1, <1>2, <1>3, <1>4, <1>5, <1>6, <1>7 DEF Next

\* The invariant holds of a runtime whose calls come one at a time.
THEOREM Invariant ==
  ASSUME Concurrent = FALSE PROVE Spec => []IInv
<1>1. IInv /\ [Next]_vars => IInv'
  BY InvNext
<1>2. QED BY <1>1, InvInit, PTL DEF Spec

\* The variables keep their types, whether calls overlap or not.
THEOREM TypeCorrect == Spec => []TypeOK
<1>1. Init => TypeOK /\ HoldsBlock
  BY InvInit DEF IInv, CallInv, RestoreInv, HoldsBlock
<1>2. TypeOK /\ HoldsBlock /\ [Next]_vars => (TypeOK /\ HoldsBlock)'
  BY TypeNext, HoldsBlockNext
<1>3. QED BY <1>1, <1>2, PTL DEF Spec

\* A write that was reported created stays in notes.md or in an archive file
\* (write.ts, archive.ts), for any writes, crashes and failed store calls,
\* unless a failed read hid a note of its id.
THEOREM Kept ==
  ASSUME Concurrent = FALSE PROVE Spec => []CreatedIsKept
<1>1. IInv => CreatedIsKept
  BY DEF IInv
<1>2. QED BY <1>1, Invariant, PTL

\* A write takes no note out of notes.md but those that a failed read hid from
\* a call: what is left of the audit trail that NotesAppendOnly promises.
THEOREM AppendsUnlessHidden ==
  ASSUME Concurrent = FALSE
  PROVE  Spec =>
           [][\A w \in Write : WriteNotes(w) => notes \ overwritten \subseteq notes']_vars
<1>1. IInv => (\A w \in Write : WriteNotes(w) => notes \ overwritten \subseteq notes')
  BY DEF IInv, CallInv, WriteInv, WriteNotes, PutNote
<1>2. QED BY <1>1, Invariant, PTL

\* A sweep that ends without an error has retired and filed all it had to, in a
\* graph that fits into one query (archive.ts).
THEOREM SweepsComplete ==
  ASSUME Concurrent = FALSE PROVE Spec => SweepCompletes
<1> DEFINE Done == /\ \A w \in notes :
                        /\ idOf[w] \notin sweep.dep
                        /\ Fits => idOf[w] \notin Deprecated \ expired
                   /\ Ids(Selected) \subseteq Archived
<1>1. ASSUME IInv, NEW ok \in BOOLEAN, SweepPrune(ok) PROVE Done
  <2>1. sweep.at = "prune" /\ SweepInv /\ notes \subseteq Write
    BY <1>1 DEF SweepPrune, IInv, CallInv, TypeOK
  <2>2. Fits => \A w \in notes : idOf[w] \notin Deprecated \ expired
    BY <2>1 DEF SweepInv
  <2>3. QED BY <2>1, <2>2 DEF SweepInv, Ids
<1>2. ASSUME IInv, SweepNodes, sweep'.at = "idle" PROVE Done
  <2>1. sweep.dep = {}
    BY <1>2 DEF SweepNodes, IInv, CallInv, SweepInv
  <2>2. PICK page \in Pages : Deprecated \cap page = {}
    BY <1>2 DEF SweepNodes, IInv, TypeOK
  <2>3. Fits => Deprecated \ expired = {}
    BY <2>2 DEF Pages, Deprecated, Nodes
  <2>4. QED BY <2>1, <2>3 DEF Selected, Ids
<1>3. IInv => (SweepEnds => Done)
  BY <1>1, <1>2 DEF SweepEnds
<1>4. QED BY <1>3, Invariant, PTL DEF SweepCompletes

\* A restore that ends has put its block back, and revived its node unless a
\* store call failed, the node is expired or the graph does not fit into one
\* query (archive.ts).
THEOREM RestoresComplete ==
  ASSUME Concurrent = FALSE PROVE Spec => RestoreCompletes
<1>1. IInv => ((\E ok \in BOOLEAN : RestoreDelete(ok)) =>
                 /\ restore.of \in Ids(notes)
                 /\ ~hurt /\ Fits /\ restore.of \notin expired
                      => status[restore.of] # "archived")
  BY DEF IInv, CallInv, RestoreInv, RestoreDelete
<1>2. QED BY <1>1, Invariant, PTL DEF RestoreCompletes
=============================================================================
