---------------------- MODULE LocalMemory_IndexProofs ----------------------
(***************************************************************************)
(* What the maps of a runtime are worth whose calls come one at a time:    *)
(* recall agrees with notes.md, and an idempotency key makes one note, for *)
(* any writes, sweeps, restores, crashes and failed store calls.           *)
(***************************************************************************)
EXTENDS LocalMemory_Proofs

-----------------------------------------------------------------------------
(* The inductive invariants.                                               *)

\* A call that was answered is over.
Answered ==
  \A w \in Write :
    result[w] \in {"created", "unlogged", "failed"} => pc[w] = "done"

\* What a call is about to write back is notes.md as it is, or part of it
\* when a store call failed.
CopyInv ==
  /\ \A w \in Write : pc[w] = "write" => /\ got[w] \subseteq notes
                                         /\ ~hurt => notes \subseteq got[w]
  /\ restore.at = "write" => /\ restore.got \subseteq notes
                             /\ ~hurt => notes \subseteq restore.got
  /\ restore.at # "idle" => ready /\ restore.block = archive[restore.of]

\* The memories a sweep has taken out of notes.md and not yet out of the index
Leaving == IF sweep.at \in {"graph", "prune"} THEN Ids(Selected) ELSE {}

LexSound == ready /\ ~hurt => lex \subseteq Ids(notes) \cup Leaving

\* A write that has indexed its memory
Indexed(w) ==
  /\ result[w] = "created" \/ pc[w] \in {"graph", "finish"}
  /\ idOf[w] \in Durable \ Chosen

LexComplete ==
  ready => /\ \A w \in notes \ unread :
                Indexed(w) /\ (~hurt \/ w \notin LeftOver) => idOf[w] \in lex
           /\ restore.at \in {"vector", "graph", "delete"} =>
                restore.of \in lex

RecallInv == Answered /\ CopyInv /\ LexSound /\ LexComplete

\* The blocks that are somewhere on disk
Blocks == notes \cup {archive[m] : m \in Archived}
Generated(w) == idOf[w] \notin Chosen
Excused(w) == result[w] \in {"unlogged", "failed"} \/ w \in unread

\* A write that puts its note into notes.md, though it may end with an error
Puts(w) == pc[w] = "write" /\ (WriteNotes(w) \/ WriteThrows(w))

\* A write without an event has no node, and so no sweep takes its block.
EventInv ==
  \A w \in Write :
    /\ pc[w] \in {"idle", "read", "write"} => w \notin Blocks
    /\ pc[w] \in {"index", "graph"} => w \in events
    /\ Generated(w) /\ w \notin events =>
         /\ status[idOf[w]] = "none"
         /\ idOf[w] \notin sweep.dep
         /\ archive[idOf[w]] = NoWrite

\* The guards of writeMemory find a block by its key or, when the process that
\* wrote it died before its event, by its content.
Found(w) == keyOf[w] \in idem \/ (w \notin events /\ idOf[w] \in lex \cap bodies)
FoundInv ==
  ready => \A w \in Blocks :
    keyOf[w] # NoKey /\ Generated(w) /\ ~Busy(w) /\ ~Excused(w) => Found(w)

\* Two blocks, or a block and a write that is past the guards
Twins(v, w) ==
  /\ v # w /\ keyOf[v] = keyOf[w] /\ keyOf[v] # NoKey
  /\ Generated(v) /\ Generated(w)
Passed(w) == w \in Blocks \/ pc[w] \in {"read", "write"}

\* A call that is over and has left no event
Cut(w) == pc[w] = "done" /\ w \notin events
\* Why both may be there
Allowed(v, w) ==
  \/ Excused(v) \/ Excused(w)
  \/ bodyOf[idOf[v]] # bodyOf[idOf[w]] /\ (Cut(v) \/ Cut(w))
TwinInv ==
  \A v \in Blocks, w \in Write : Passed(w) /\ Twins(v, w) => Allowed(v, w)

KeyInv == EventInv /\ FoundInv /\ TwinInv

\* A block is in notes.md and in an archive file only while it is on its way
\* from one to the other, or when it did not get there; and such a block alone
\* is ever put back twice.
LeftInv ==
  \A w \in LeftOver :
    \/ w \in torn
    \/ sweep.at = "files" /\ w \in sweep.filed
    \/ restore.at \in {"vector", "graph", "delete"} /\ w = restore.block
TwiceInv ==
  /\ twice \subseteq torn
  /\ \A w \in Write : again[w] \subseteq torn
  /\ sweep.twice \subseteq torn /\ restore.twice \subseteq torn
DoubleInv == LeftInv /\ TwiceInv

-----------------------------------------------------------------------------
(* What steps have in common.                                              *)

\* A failed store call is remembered.
LEMMA OutcomeHurt ==
  ASSUME TypeOK, NEW ok \in BOOLEAN, Outcome(ok)
  PROVE  (hurt => hurt') /\ (~ok => hurt')
<1>1. PICK n \in 0..1 : n = IF ok THEN 0 ELSE 1
  OBVIOUS
<1>2. Failures(n)
  BY <1>1 DEF Outcome
<1>3. hurt' = (hurt \/ n > 0)
  BY <1>2 DEF Failures
<1>4. CASE ok
  BY <1>3, <1>4 DEF TypeOK
<1>5. CASE ~ok
  <2>1. n > 0
    BY <1>1, <1>5
  <2>2. QED BY <1>3, <2>1
<1>6. QED BY <1>4, <1>5

\* Steps of a write that leave the indices alone; of these only a failed write
\* of the note may change notes.md.
LEMMA WriteStill ==
  ASSUME TypeOK, NEW w \in Write, Check(w) \/ WriteStep(w),
         ~WriteNotes(w), ~(\E ok \in BOOLEAN : Index(w, ok))
  PROVE  /\ UNCHANGED <<archive, sweep, restore, ready, lex, bodies, unread>>
         /\ hurt => hurt'
         /\ \/ UNCHANGED notes
            \/ Puts(w) /\ hurt' /\ notes' = got[w] \cup {w}
<1> USE DEF TypeOK, disk, memory, writing, bounds, hidden
<1>1. CASE Check(w)
  BY <1>1 DEF Check
<1>2. CASE AppendEvent(w) \/ Finish(w)
  BY <1>2 DEF AppendEvent, Finish
<1>3. CASE WriteThrows(w)
  BY <1>3, OutcomeHurt DEF WriteThrows, PutNote, Puts
<1>4. ASSUME NEW ok \in BOOLEAN, ReadNotes(w, ok) \/ Extract(w, ok)
      PROVE  /\ UNCHANGED <<notes, archive, sweep, restore, ready, lex, bodies,
                            unread>>
             /\ hurt => hurt'
  BY <1>4, OutcomeHurt DEF ReadNotes, Extract
<1>5. QED BY <1>1, <1>2, <1>3, <1>4 DEF WriteStep

\* Steps of a restore that leave them alone, likewise
LEMMA RestoreStill ==
  ASSUME TypeOK, (\E m \in Memory : RestoreStart(m)) \/ RestoreStep,
         ~RestoreWrite
  PROVE  /\ UNCHANGED <<events, sweep, ready, idem, lex, bodies, pc, result,
                        unread>>
         /\ hurt => hurt'
         /\ ~RestoreThrows => UNCHANGED notes
<1> USE DEF TypeOK, disk, memory, writing, bounds, hidden
<1>1. ASSUME NEW m \in Memory, RestoreStart(m)
      PROVE  UNCHANGED <<notes, events, sweep, ready, idem, lex, bodies, pc,
                         result, unread, hurt>>
  BY <1>1 DEF RestoreStart
<1>2. CASE RestoreThrows
  BY <1>2, OutcomeHurt DEF RestoreThrows
<1>3. ASSUME NEW ok \in BOOLEAN, \/ RestoreRead(ok) \/ RestoreVector(ok)
                                 \/ RestoreGraph(ok) \/ RestoreDelete(ok)
      PROVE  /\ UNCHANGED <<notes, events, sweep, ready, idem, lex, bodies, pc,
                            result, unread>>
             /\ hurt => hurt'
  <2>1. CASE RestoreRead(ok)
    BY <2>1, OutcomeHurt DEF RestoreRead
  <2>2. CASE RestoreVector(ok)
    BY <2>2, OutcomeHurt DEF RestoreVector
  <2>3. CASE RestoreGraph(ok)
    BY <2>3, OutcomeHurt DEF RestoreGraph
  <2>4. CASE RestoreDelete(ok)
    BY <2>4, OutcomeHurt DEF RestoreDelete
  <2>5. QED BY <1>3, <2>1, <2>2, <2>3, <2>4
<1>4. QED BY <1>1, <1>2, <1>3 DEF RestoreStep

\* A restore that throws counts as a failed call, and may have put the block.
LEMMA RestoreCut ==
  ASSUME TypeOK, RestoreThrows
  PROVE  /\ hurt' /\ UNCHANGED archive /\ restore' = NoRestore
         /\ \/ UNCHANGED notes
            \/ /\ restore.at = "write"
               /\ notes' = restore.got \cup {restore.block}
BY OutcomeHurt DEF RestoreThrows, PutBlock

\* Steps of a sweep leave the log, the keys and the calls alone, take notes
\* away at most, and the indices only at the end.
LEMMA SweepStill ==
  ASSUME TypeOK, SweepInv, SweepRead \/ SweepStep
  PROVE  /\ UNCHANGED <<events, ready, idem, pc, result, got, restore, unread>>
         /\ notes' \subseteq notes
         /\ hurt => hurt'
         /\ UNCHANGED <<lex, bodies>> \/ \E ok \in BOOLEAN : SweepPrune(ok)
<1> USE DEF TypeOK, disk, memory, writing, bounds, hidden
<1>1. CASE SweepRead \/ SweepNodes
  BY <1>1 DEF SweepRead, SweepNodes
<1>2. ASSUME NEW w \in Write, SweepFile(w)
      PROVE  /\ UNCHANGED <<events, ready, idem, pc, result, got, restore, unread>>
             /\ UNCHANGED <<notes, hurt, lex, bodies>>
  BY <1>2 DEF SweepFile
<1>3. CASE SweepNotes
  BY <1>3 DEF SweepNotes, SweepInv
<1>4. CASE SweepThrows
  BY <1>4, OutcomeHurt DEF SweepThrows
<1>5. ASSUME NEW ok \in BOOLEAN, SweepGraph(ok)
      PROVE  /\ UNCHANGED <<events, ready, idem, pc, result, got, restore, unread>>
             /\ UNCHANGED <<notes, lex, bodies>> /\ (hurt => hurt')
  BY <1>5, OutcomeHurt DEF SweepGraph
<1>6. ASSUME NEW ok \in BOOLEAN, SweepPrune(ok)
      PROVE  /\ UNCHANGED <<events, ready, idem, pc, result, got, restore, unread>>
             /\ UNCHANGED notes /\ (hurt => hurt')
  BY <1>6, OutcomeHurt DEF SweepPrune
<1>7. QED BY <1>1, <1>2, <1>3, <1>4, <1>5, <1>6 DEF SweepStep

-----------------------------------------------------------------------------
(* Answers and copies.                                                     *)

LEMMA AnsweredNext ==
  ASSUME Concurrent = FALSE, IInv, Answered, [Next]_vars
  PROVE  Answered'
<1> USE DEF IInv, CallInv, TypeOK, Answered
<1>1. ASSUME NEW w \in Write, Check(w) \/ WriteStep(w) PROVE Answered'
  <2>1. \A v \in Write \ {w} : pc'[v] = pc[v] /\ result'[v] = result[v]
    BY <1>1, WriteFrame
  <2>2. result'[w] \in {"created", "unlogged", "failed"} => pc'[w] = "done"
    <3> USE DEF disk, memory, writing, bounds, hidden
    <3>1. CASE Check(w)
      BY <3>1 DEF Check, Settle
    <3>2. CASE Finish(w) \/ WriteThrows(w)
      BY <3>2 DEF Finish, WriteThrows, Settle
    <3>3. CASE WriteNotes(w) \/ AppendEvent(w)
      BY <3>3 DEF WriteNotes, AppendEvent
    <3>4. ASSUME NEW ok \in BOOLEAN, ReadNotes(w, ok) \/ Index(w, ok) \/ Extract(w, ok)
          PROVE  result'[w] \notin {"created", "unlogged", "failed"}
      BY <3>4 DEF ReadNotes, Index, Extract
    <3>5. QED BY <1>1, <3>1, <3>2, <3>3, <3>4 DEF WriteStep
  <2>3. QED BY <2>1, <2>2
<1>2. CASE SweepRead \/ SweepStep
  BY <1>2, SweepFrame DEF writing
<1>3. CASE (\E m \in Memory : RestoreStart(m)) \/ RestoreStep
  BY <1>3, RestoreFrame DEF writing
<1>4. CASE Crash
  BY <1>4 DEF Crash
<1>5. CASE (\E okEvents, okNotes \in BOOLEAN : Hydrate(okEvents, okNotes))
           \/ (\E m \in Memory : Deprecate(m) \/ Expire(m)) \/ UNCHANGED vars
  BY <1>5 DEF Hydrate, Deprecate, Expire, vars, writing
<1>6. QED BY <1>1, <1>2, <1>3, <1>4, <1>5 DEF Next

LEMMA CopyNext ==
  ASSUME Concurrent = FALSE, IInv, CopyInv, [Next]_vars
  PROVE  CopyInv'
<1> USE DEF IInv, CallInv, TypeOK
<1>1. ASSUME NEW w \in Write, Check(w) \/ WriteStep(w) PROVE CopyInv'
  <2>1. /\ UNCHANGED <<sweep, restore, archive>> /\ restore.at = "idle"
        /\ \A v \in Write \ {w} : pc'[v] # "write"
    BY <1>1, WriteFrame, WriteAlone DEF Busy
  <2>2. pc'[w] = "write" => /\ got'[w] \subseteq notes'
                            /\ ~hurt' => notes' \subseteq got'[w]
    <3> USE DEF disk, memory, writing, bounds, hidden
    <3>1. ASSUME NEW ok \in BOOLEAN, ReadNotes(w, ok)
          PROVE  got'[w] \subseteq notes' /\ (~hurt' => notes' \subseteq got'[w])
      <4>1. ~ok => hurt'
        BY <3>1, OutcomeHurt DEF ReadNotes
      <4>2. QED BY <3>1, <4>1 DEF ReadNotes
    <3>2. CASE Check(w) \/ Finish(w) \/ WriteThrows(w)
      BY <3>2 DEF Check, Finish, WriteThrows, Settle
    <3>3. CASE WriteNotes(w) \/ AppendEvent(w)
      BY <3>3 DEF WriteNotes, AppendEvent
    <3>4. ASSUME NEW ok \in BOOLEAN, Index(w, ok) \/ Extract(w, ok)
          PROVE  pc'[w] # "write"
      BY <3>4 DEF Index, Extract
    <3>5. QED BY <1>1, <3>1, <3>2, <3>3, <3>4 DEF WriteStep
  <2>3. QED BY <2>1, <2>2 DEF CopyInv
<1>2. CASE SweepRead \/ SweepStep
  BY <1>2, SweepFrame DEF CopyInv, writing, Busy
<1>3. CASE (\E m \in Memory : RestoreStart(m)) \/ RestoreStep
  <2>1. \A w \in Write : pc'[w] # "write"
    BY <1>3, RestoreFrame DEF writing, Busy
  <2>2. /\ restore'.at = "write" => /\ restore'.got \subseteq notes'
                                    /\ ~hurt' => notes' \subseteq restore'.got
        /\ restore'.at # "idle" =>
             ready' /\ restore'.block = archive'[restore'.of]
    <3> USE DEF disk, memory, writing, bounds, hidden
    <3>1. ASSUME NEW m \in Memory, RestoreStart(m)
          PROVE  /\ restore'.at = "read" /\ ready'
                 /\ restore'.block = archive'[restore'.of]
      BY <3>1 DEF RestoreStart, MayStart
    <3>2. ASSUME NEW ok \in BOOLEAN, RestoreRead(ok)
          PROVE  /\ restore'.got \subseteq notes'
                 /\ ~hurt' => notes' \subseteq restore'.got
                 /\ ready' /\ restore'.block = archive'[restore'.of]
      <4>1. ~ok => hurt'
        BY <3>2, OutcomeHurt DEF RestoreRead
      <4>2. QED BY <3>2, <4>1 DEF RestoreRead, CopyInv
    <3>3. CASE RestoreWrite
      BY <3>3 DEF RestoreWrite, CopyInv
    <3>4. CASE RestoreThrows
      BY <3>4 DEF RestoreThrows, NoRestore
    <3>5. ASSUME NEW ok \in BOOLEAN, RestoreVector(ok) \/ RestoreGraph(ok)
          PROVE  /\ restore'.at \notin {"idle", "read", "write"} /\ ready'
                 /\ restore'.block = archive'[restore'.of]
      BY <3>5 DEF RestoreVector, RestoreGraph, CopyInv
    <3>6. ASSUME NEW ok \in BOOLEAN, RestoreDelete(ok)
          PROVE  restore'.at = "idle"
      BY <3>6 DEF RestoreDelete, NoRestore
    <3>7. QED BY <1>3, <3>1, <3>2, <3>3, <3>4, <3>5, <3>6 DEF RestoreStep
  <2>3. QED BY <2>1, <2>2 DEF CopyInv
<1>4. CASE Crash
  BY <1>4 DEF Crash, CopyInv, NoRestore
<1>5. ASSUME NEW okEvents \in BOOLEAN, NEW okNotes \in BOOLEAN, Hydrate(okEvents, okNotes)
      PROVE  CopyInv'
  <2>1. hurt => hurt'
    <3>1. PICK n \in 0..2 : Failures(n)
      BY <1>5 DEF Hydrate
    <3>2. QED BY <3>1 DEF Failures
  <2>2. UNCHANGED <<notes, archive, pc, got, restore>> /\ ready'
    BY <1>5 DEF Hydrate, disk, writing
  <2>3. QED BY <2>1, <2>2 DEF CopyInv
<1>6. CASE (\E m \in Memory : Deprecate(m) \/ Expire(m)) \/ UNCHANGED vars
  BY <1>6 DEF Deprecate, Expire, vars, disk, memory, writing, bounds,
              CopyInv
<1>7. QED BY <1>1, <1>2, <1>3, <1>4, <1>5, <1>6 DEF Next

-----------------------------------------------------------------------------
(* The lexical index.                                                      *)

LEMMA LexSoundNext ==
  ASSUME Concurrent = FALSE, IInv, CopyInv, LexSound, [Next]_vars
  PROVE  LexSound'
<1> USE WriteAssumption DEF IInv, CallInv, TypeOK
<1>0. ASSUME UNCHANGED <<notes, sweep, ready, lex>>, hurt => hurt'
      PROVE  LexSound'
  BY <1>0 DEF LexSound, Leaving, Selected, Ids
<1>1. ASSUME NEW w \in Write, Check(w) \/ WriteStep(w) PROVE LexSound'
  <2>1. CASE WriteNotes(w)
    <3>1. ~hurt => notes \subseteq notes'
      BY <2>1 DEF WriteNotes, PutNote, CopyInv
    <3>2. UNCHANGED <<sweep, ready, lex, hurt>>
      BY <2>1 DEF WriteNotes, bounds
    <3>3. QED BY <3>1, <3>2 DEF LexSound, Leaving, Selected, Ids
  <2>2. ASSUME NEW ok \in BOOLEAN, Index(w, ok) PROVE LexSound'
    <3>1. w \in notes /\ lex' = lex \cup {idOf[w]} /\ UNCHANGED <<notes, sweep, ready>>
      BY <2>2 DEF Index, WriteInv
    <3>2. hurt => hurt'
      BY <2>2, OutcomeHurt DEF Index
    <3>3. QED BY <3>1, <3>2 DEF LexSound, Leaving, Selected, Ids
  <2>3. CASE hurt'
    BY <2>3 DEF LexSound
  <2>4. QED BY <1>0, <1>1, <2>1, <2>2, <2>3, WriteStill
<1>2. CASE SweepRead \/ SweepStep
  <2> USE DEF disk, memory, writing, bounds, hidden
  <2>1. CASE SweepRead
    BY <2>1 DEF SweepRead, SweepInv, LexSound, Leaving
  <2>2. CASE SweepNodes
    <3>1. /\ sweep.at = "nodes" /\ sweep'.at \in {"idle", "files"}
          /\ UNCHANGED <<notes, ready, lex, hurt>>
      BY <2>2 DEF SweepNodes, NoSweep
    <3>2. QED BY <3>1 DEF LexSound, Leaving, Ids
  <2>3. ASSUME NEW w \in Write, SweepFile(w) PROVE LexSound'
    BY <2>3 DEF SweepFile, LexSound, Leaving
  <2>4. CASE SweepNotes
    <3>1. /\ notes \subseteq notes' \cup Selected /\ sweep.at = "files"
          /\ sweep'.at = "graph" /\ Selected' = Selected
          /\ UNCHANGED <<ready, lex, hurt>>
      BY <2>4 DEF SweepNotes, SweepInv, Selected
    <3>2. Ids(notes) \subseteq Ids(notes') \cup Ids(Selected)
      BY <3>1 DEF Ids
    <3>3. Leaving = {} /\ Leaving' = Ids(Selected)
      BY <3>1 DEF Leaving, Ids
    <3>4. QED BY <3>1, <3>2, <3>3 DEF LexSound
  <2>5. ASSUME NEW ok \in BOOLEAN, SweepGraph(ok) PROVE LexSound'
    <3>1. /\ sweep.at = "graph" /\ sweep'.at = "prune" /\ Selected' = Selected
          /\ UNCHANGED <<notes, ready, lex>>
      BY <2>5 DEF SweepGraph, Selected
    <3>2. hurt => hurt'
      BY <2>5, OutcomeHurt DEF SweepGraph
    <3>3. Leaving' = Leaving
      BY <3>1 DEF Leaving, Ids
    <3>4. QED BY <3>1, <3>2, <3>3 DEF LexSound
  <2>6. ASSUME NEW ok \in BOOLEAN, SweepPrune(ok) PROVE LexSound'
    <3>1. /\ sweep.at = "prune" /\ sweep'.at = "idle"
          /\ lex' = lex \ Ids(Selected) /\ UNCHANGED <<notes, ready>>
      BY <2>6 DEF SweepPrune, NoSweep
    <3>2. hurt => hurt'
      BY <2>6, OutcomeHurt DEF SweepPrune
    <3>3. Leaving = Ids(Selected) /\ Leaving' = {}
      BY <3>1 DEF Leaving
    <3>4. QED BY <3>1, <3>2, <3>3 DEF LexSound
  <2>7. CASE SweepThrows
    <3>1. Outcome(FALSE)
      BY <2>7 DEF SweepThrows
    <3>2. hurt'
      BY <3>1, OutcomeHurt
    <3>3. QED BY <3>2 DEF LexSound
  <2>8. QED BY <1>2, <2>1, <2>2, <2>3, <2>4, <2>5, <2>6, <2>7 DEF SweepStep
<1>3. CASE (\E m \in Memory : RestoreStart(m)) \/ RestoreStep
  <2>1. CASE RestoreWrite
    <3>1. ~hurt => notes \subseteq notes'
      BY <2>1 DEF RestoreWrite, PutBlock, CopyInv
    <3>2. restore.of \in Ids(notes') /\ lex' = lex \cup {restore.of}
      BY <2>1 DEF RestoreWrite, PutBlock, RestoreInv, Ids
    <3>3. UNCHANGED <<sweep, ready, hurt>>
      BY <2>1 DEF RestoreWrite, bounds
    <3>4. QED BY <3>1, <3>2, <3>3 DEF LexSound, Leaving, Selected, Ids
  <2>2. CASE RestoreThrows
    BY <2>2, RestoreCut DEF LexSound
  <2>3. QED BY <1>0, <1>3, <2>1, <2>2, RestoreStill
<1>4. ASSUME NEW okEvents \in BOOLEAN, NEW okNotes \in BOOLEAN, Hydrate(okEvents, okNotes)
      PROVE  LexSound'
  BY <1>4 DEF Hydrate, disk, LexSound, Ids
<1>5. CASE Crash
  BY <1>5 DEF Crash, LexSound
<1>6. CASE (\E m \in Memory : Deprecate(m) \/ Expire(m)) \/ UNCHANGED vars
  BY <1>0, <1>6 DEF Deprecate, Expire, vars, disk, memory, bounds
<1>7. QED BY <1>1, <1>2, <1>3, <1>4, <1>5, <1>6 DEF Next

\* What has been indexed stays so until a sweep takes its note; a note that a
\* restore put back although it ended with an error has its archive file.
LEMMA LexCompleteNext ==
  ASSUME Concurrent = FALSE, IInv, Answered, CopyInv, LexComplete, [Next]_vars
  PROVE  LexComplete'
<1> USE WriteAssumption DEF IInv, CallInv, TypeOK
\* Steps that only add to the index and leave the archive alone
<1>0. ASSUME UNCHANGED <<archive, ready>>, hurt => hurt', lex \subseteq lex',
             unread \subseteq unread',
             \A v \in notes' \ unread' :
                  Indexed(v)' /\ ~(v \in notes /\ Indexed(v))
                    => idOf[v] \in lex' \/ (hurt' /\ v \in LeftOver'),
             restore'.at \in {"vector", "graph", "delete"} =>
                  \/ restore'.of \in lex'
                  \/ /\ restore.at \in {"vector", "graph", "delete"}
                     /\ restore'.of = restore.of
      PROVE  LexComplete'
  <2>1. \A v \in notes \cap notes' : v \in LeftOver => v \in LeftOver'
    BY <1>0 DEF LeftOver
  <2>2. QED BY <1>0, <2>1 DEF LexComplete
<1>1. ASSUME NEW w \in Write, Check(w) \/ WriteStep(w) PROVE LexComplete'
  <2>1. /\ notes' \subseteq notes \cup {w} /\ lex \subseteq lex'
        /\ UNCHANGED <<archive, ready, unread, restore>> /\ (hurt => hurt')
    <3>1. CASE WriteNotes(w)
      BY <3>1 DEF WriteNotes, PutNote, CopyInv, hidden, bounds
    <3>2. ASSUME NEW ok \in BOOLEAN, Index(w, ok)
          PROVE  /\ UNCHANGED <<notes, archive, ready, unread, restore>>
                 /\ lex \subseteq lex' /\ (hurt => hurt')
      BY <3>2, OutcomeHurt DEF Index, hidden
    <3>3. QED BY <1>1, <3>1, <3>2, WriteStill DEF CopyInv, Puts
  <2>2. restore.at = "idle"
    BY <1>1, WriteAlone
  <2>3. ASSUME NEW v \in notes', v # w, Indexed(v)'
        PROVE  v \in notes /\ Indexed(v)
    BY <1>1, <2>1, <2>3, WriteFrame DEF Indexed
  <2>4. ASSUME w \in notes', Indexed(w)'
        PROVE  (w \in notes /\ Indexed(w)) \/ idOf[w] \in lex'
    <3> USE DEF disk, memory, writing, bounds, hidden
    <3>1. CASE Check(w) \/ WriteThrows(w)
      <4>1. result[w] # "created" /\ pc'[w] \notin {"graph", "finish"}
        BY <3>1 DEF Check, WriteThrows, Settle, Answered
      <4>2. result'[w] # "created"
        BY <3>1, <4>1 DEF Check, WriteThrows, Settle
      <4>3. QED BY <2>4, <4>1, <4>2 DEF Indexed
    <3>2. CASE WriteNotes(w)
      BY <2>4, <3>2 DEF WriteNotes, Answered, Indexed
    <3>3. CASE AppendEvent(w)
      BY <2>4, <3>3 DEF AppendEvent, Answered, Indexed
    <3>4. CASE Finish(w)
      BY <2>4, <3>4 DEF Finish, Indexed
    <3>5. ASSUME NEW ok \in BOOLEAN, ReadNotes(w, ok) PROVE FALSE
      BY <2>4, <3>5 DEF ReadNotes, Answered, Indexed
    <3>6. ASSUME NEW ok \in BOOLEAN, Index(w, ok) PROVE idOf[w] \in lex'
      BY <3>6 DEF Index
    <3>7. ASSUME NEW ok \in BOOLEAN, Extract(w, ok)
          PROVE  w \in notes /\ Indexed(w)
      BY <2>4, <3>7 DEF Extract, Indexed
    <3>8. QED BY <1>1, <3>1, <3>2, <3>3, <3>4, <3>5, <3>6, <3>7 DEF WriteStep
  <2>5. QED BY <1>0, <2>1, <2>2, <2>3, <2>4
<1>2. CASE SweepRead \/ SweepStep
  <2>1. /\ UNCHANGED <<ready, pc, result, unread>> /\ notes' \subseteq notes
        /\ lex' = lex \/ \E ok \in BOOLEAN : SweepPrune(ok)
        /\ hurt => hurt'
    BY <1>2, SweepStill
  <2>2. ASSUME NEW ok \in BOOLEAN, SweepPrune(ok), NEW v \in notes
        PROVE  idOf[v] \in lex => idOf[v] \in lex'
    BY <2>2 DEF SweepPrune, SweepInv, Selected, Ids
  <2>3. ASSUME NEW v \in notes', v \in LeftOver, Indexed(v)
        PROVE  v \in LeftOver'
    <3>1. ASSUME NEW u \in Write, SweepFile(u) PROVE v \in LeftOver'
      <4>1. archive' = [archive EXCEPT ![idOf[u]] = u]
        BY <3>1 DEF SweepFile
      <4>2. PICK m \in Memory : archive[m] = v
        BY <2>3 DEF LeftOver
      <4>3. idOf[v] = m /\ v \in Write
        BY <2>1, <4>2 DEF ArchiveInv, Archived
      <4>4. idOf[u] = idOf[v] => u = v
        BY <2>3, <4>3, IdAssumption DEF Indexed
      <4>5. archive'[m] = v
        BY <4>1, <4>2, <4>3, <4>4
      <4>6. QED BY <2>3, <4>5 DEF LeftOver
    <3>2. SweepRead \/ SweepNodes \/ SweepNotes \/ SweepThrows
          \/ (\E ok \in BOOLEAN : SweepGraph(ok) \/ SweepPrune(ok))
          => UNCHANGED archive
      BY DEF SweepRead, SweepNodes, SweepNotes, SweepThrows, SweepGraph,
             SweepPrune, disk
    <3>3. QED BY <1>2, <2>3, <3>1, <3>2 DEF SweepStep, LeftOver
  <2>4. restore'.at = "idle"
    BY <1>2, SweepFrame
  <2>5. QED BY <2>1, <2>2, <2>3, <2>4 DEF LexComplete, Indexed
<1>3. CASE (\E m \in Memory : RestoreStart(m)) \/ RestoreStep
  <2>1. CASE RestoreWrite
    <3>1. /\ notes' \subseteq notes \cup {restore.block}
          /\ idOf[restore.block] \in lex' /\ lex \subseteq lex'
          /\ restore'.of \in lex'
          /\ UNCHANGED <<archive, ready, pc, result, unread, hurt>>
      BY <2>1 DEF RestoreWrite, PutBlock, RestoreInv, CopyInv, writing, hidden,
                  bounds
    <3>2. QED BY <1>0, <3>1 DEF Indexed
  <2>2. CASE RestoreThrows
    <3>1. /\ UNCHANGED <<ready, lex, pc, result, unread>>
          /\ hurt' /\ UNCHANGED archive /\ restore'.at = "idle"
      BY <2>2, RestoreStill, RestoreCut DEF RestoreStep, RestoreWrite, NoRestore,
                                            RestoreThrows, memory, writing
    <3>2. ASSUME NEW v \in notes' \ notes PROVE v \in LeftOver'
      <4>1. restore.at = "write" /\ v = restore.block
        BY <2>2, <3>2, RestoreCut DEF CopyInv
      <4>2. restore.of \in Memory /\ v = archive'[restore.of]
        BY <3>1, <4>1 DEF CopyInv
      <4>3. QED BY <3>2, <4>2 DEF LeftOver
    <3>3. QED BY <1>0, <3>1, <3>2 DEF Indexed
  <2>3. ASSUME NEW ok \in BOOLEAN, RestoreDelete(ok) PROVE LexComplete'
    <3>1. /\ UNCHANGED <<notes, ready, lex, pc, result, unread>>
          /\ restore.at = "delete" /\ restore'.at = "idle" /\ (hurt => hurt')
          /\ archive' \in {archive, [archive EXCEPT ![restore.of] = NoWrite]}
      BY <2>3, OutcomeHurt DEF RestoreDelete, NoRestore, memory, writing
    <3>2. ASSUME NEW v \in notes, v \in LeftOver, v \notin LeftOver', ready
          PROVE  idOf[v] \in lex
      <4>1. PICK m \in Memory : archive[m] = v
        BY <3>2 DEF LeftOver
      <4>2. m = restore.of
        BY <3>1, <3>2, <4>1 DEF LeftOver
      <4>3. idOf[v] = m
        BY <4>1 DEF ArchiveInv, Archived
      <4>4. QED BY <3>1, <3>2, <4>2, <4>3 DEF LexComplete
    <3>3. QED BY <3>1, <3>2 DEF LexComplete, Indexed
  <2>4. ASSUME NEW ok \in BOOLEAN, RestoreVector(ok) \/ RestoreGraph(ok)
        PROVE  LexComplete'
    <3>1. /\ UNCHANGED <<notes, archive, ready, lex, pc, result, unread>>
          /\ restore.at \in {"vector", "graph"} /\ restore'.of = restore.of
          /\ hurt => hurt'
      BY <2>4, OutcomeHurt
         DEF RestoreVector, RestoreGraph, memory, writing, hidden
    <3>2. QED BY <1>0, <3>1 DEF Indexed
  <2>5. CASE \/ \E m \in Memory : RestoreStart(m)
             \/ \E ok \in BOOLEAN : RestoreRead(ok)
    <3>1. /\ UNCHANGED <<notes, archive, ready, lex, pc, result, unread>>
          /\ restore'.at \in {"read", "write"} /\ (hurt => hurt')
      <4>1. CASE \E m \in Memory : RestoreStart(m)
        BY <4>1 DEF RestoreStart, disk, memory, writing, bounds, hidden
      <4>2. ASSUME NEW ok \in BOOLEAN, RestoreRead(ok)
            PROVE  /\ UNCHANGED <<notes, archive, ready, lex, pc, result, unread>>
                   /\ restore'.at = "write" /\ (hurt => hurt')
        BY <4>2, OutcomeHurt DEF RestoreRead, disk, memory, writing
      <4>3. QED BY <2>5, <4>1, <4>2
    <3>2. QED BY <1>0, <3>1 DEF Indexed
  <2>6. QED BY <1>3, <2>1, <2>2, <2>3, <2>4, <2>5 DEF RestoreStep
<1>4. ASSUME NEW okEvents \in BOOLEAN, NEW okNotes \in BOOLEAN,
             Hydrate(okEvents, okNotes)
      PROVE  LexComplete'
  <2>1. restore'.at = "idle"
    BY <1>4 DEF Hydrate, CopyInv
  <2>2. QED BY <1>4, <2>1 DEF Hydrate, disk, LexComplete, Indexed, Ids
<1>5. CASE Crash
  BY <1>5 DEF Crash, LexComplete
<1>6. CASE (\E m \in Memory : Deprecate(m) \/ Expire(m)) \/ UNCHANGED vars
  <2>1. UNCHANGED <<notes, archive, ready, lex, pc, result, unread, hurt,
                    restore>>
    BY <1>6 DEF Deprecate, Expire, vars, disk, memory, writing, bounds, hidden
  <2>2. QED BY <1>0, <2>1 DEF Indexed
<1>7. QED BY <1>1, <1>2, <1>3, <1>4, <1>5, <1>6 DEF Next

LEMMA RecallInit == Init => RecallInv
BY DEF Init, RecallInv, Answered, CopyInv, LexSound, LexComplete, NoRestore

LEMMA RecallNext ==
  ASSUME Concurrent = FALSE, IInv, RecallInv, [Next]_vars
  PROVE  RecallInv'
BY AnsweredNext, CopyNext, LexSoundNext, LexCompleteNext DEF RecallInv

\* When no call is in flight the lexical index and notes.md agree (write.ts,
\* archive.ts, local-strategy.ts), up to what failed store calls explain.
THEOREM RecallAgrees ==
  ASSUME Concurrent = FALSE PROVE Spec => []RecallMatchesNotes
<1>1. IInv /\ RecallInv /\ [Next]_vars => RecallInv'
  BY RecallNext
<1>2. IInv /\ RecallInv => RecallMatchesNotes
  BY DEF RecallInv, LexSound, LexComplete, Leaving, Indexed, RecallMatchesNotes, Quiet
<1>3. QED BY <1>1, <1>2, RecallInit, Invariant, PTL DEF Spec

-----------------------------------------------------------------------------
(* Blocks, events and nodes.                                               *)

LEMMA BlocksType == ASSUME TypeOK PROVE Blocks \subseteq Write
BY DEF TypeOK, Blocks, Archived

\* Only a write brings a block to disk.
LEMMA BlocksMove ==
  ASSUME Concurrent = FALSE, IInv, CopyInv, [Next]_vars
  PROVE  \A b \in Blocks' : b \in Blocks \/ (b \in Write /\ Puts(b))
<1> USE WriteAssumption DEF IInv, CallInv, TypeOK
<1>1. ASSUME NEW w \in Write, Check(w) \/ WriteStep(w)
      PROVE  \A b \in Blocks' : b \in Blocks \/ (b \in Write /\ Puts(b))
  <2>1. CASE WriteNotes(w)
    <3>1. /\ notes' \subseteq notes \cup {w} /\ UNCHANGED archive
          /\ pc[w] = "write"
      BY <2>1 DEF WriteNotes, PutNote, CopyInv
    <3>2. QED BY <2>1, <3>1 DEF Blocks, Archived, Puts
  <2>2. ASSUME NEW ok \in BOOLEAN, Index(w, ok) PROVE Blocks' = Blocks
    BY <2>2 DEF Index, Blocks, Archived
  <2>3. CASE ~WriteNotes(w) /\ ~(\E ok \in BOOLEAN : Index(w, ok))
    <3>1. /\ UNCHANGED archive
          /\ notes' \subseteq notes \/ (Puts(w) /\ notes' \subseteq notes \cup {w})
      BY <1>1, <2>3, WriteStill DEF Puts, CopyInv
    <3>2. QED BY <3>1 DEF Blocks, Archived
  <2>4. QED BY <1>1, <2>1, <2>2, <2>3
<1>2. CASE SweepRead \/ SweepStep
  <2>1. ASSUME NEW w \in Write, SweepFile(w) PROVE Blocks' \subseteq Blocks
    <3>1. /\ w \in notes /\ archive' = [archive EXCEPT ![idOf[w]] = w]
          /\ UNCHANGED notes
      BY <2>1 DEF SweepFile, Selected, SweepInv
    <3>2. QED BY <3>1 DEF Blocks, Archived
  <2>2. CASE SweepNotes
    <3>1. notes' \subseteq notes /\ UNCHANGED archive
      BY <2>2 DEF SweepNotes, SweepInv
    <3>2. QED BY <3>1 DEF Blocks, Archived
  <2>3. SweepRead \/ SweepNodes \/ SweepThrows
        \/ (\E ok \in BOOLEAN : SweepGraph(ok) \/ SweepPrune(ok))
        => UNCHANGED <<notes, archive>>
    BY DEF SweepRead, SweepNodes, SweepThrows, SweepGraph, SweepPrune, disk
  <2>4. QED BY <1>2, <2>1, <2>2, <2>3 DEF SweepStep, Blocks, Archived
<1>3. CASE (\E m \in Memory : RestoreStart(m)) \/ RestoreStep
  <2>1. CASE restore.at = "write" /\ PutBlock /\ UNCHANGED archive
    <3>1. /\ restore.block \in Write /\ restore.block = archive[restore.of]
          /\ notes' \subseteq notes \cup {restore.block}
      BY <2>1 DEF PutBlock, RestoreInv, CopyInv
    <3>2. restore.block \in Blocks
      BY <3>1 DEF Blocks, Archived
    <3>3. QED BY <2>1, <3>1, <3>2 DEF Blocks, Archived
  <2>2. ASSUME NEW ok \in BOOLEAN, RestoreDelete(ok) PROVE Blocks' \subseteq Blocks
    <3>1. /\ UNCHANGED notes
          /\ archive' = archive \/ archive' = [archive EXCEPT ![restore.of] = NoWrite]
      BY <2>2 DEF RestoreDelete
    <3>2. QED BY <3>1 DEF Blocks, Archived
  <2>3. RestoreWrite \/ RestoreThrows
        => \/ restore.at = "write" /\ PutBlock /\ UNCHANGED archive
           \/ UNCHANGED <<notes, archive>>
    BY DEF RestoreWrite, RestoreThrows
  <2>4. (\E m \in Memory : RestoreStart(m))
        \/ (\E ok \in BOOLEAN : RestoreRead(ok) \/ RestoreVector(ok) \/ RestoreGraph(ok))
        => UNCHANGED <<notes, archive>>
    BY DEF RestoreStart, RestoreRead, RestoreVector, RestoreGraph, disk
  <2>5. QED BY <1>3, <2>1, <2>2, <2>3, <2>4 DEF RestoreStep, Blocks, Archived
<1>4. CASE \/ \E okEvents, okNotes \in BOOLEAN : Hydrate(okEvents, okNotes)
           \/ \E m \in Memory : Deprecate(m) \/ Expire(m)
           \/ Crash \/ UNCHANGED vars
  <2>1. UNCHANGED <<notes, archive>>
    BY <1>4 DEF Hydrate, Deprecate, Expire, Crash, vars, disk
  <2>2. QED BY <2>1 DEF Blocks, Archived
<1>5. QED BY <1>1, <1>2, <1>3, <1>4 DEF Next

\* A write is before its note only when it was so already.
LEMMA BeforeNote ==
  ASSUME TypeOK, Concurrent = FALSE, OneCall, [Next]_vars, NEW w \in Write,
         pc'[w] \in {"idle", "read", "write"}
  PROVE  pc[w] \in {"idle", "read", "write"} /\ ~Puts(w)
<1> USE DEF TypeOK
<1>1. ~Puts(w) /\ ~WriteNotes(w)
  BY DEF Puts, WriteNotes, WriteThrows, Settle
<1>2. ASSUME NEW v \in Write, Check(v) \/ WriteStep(v)
      PROVE  pc[w] \in {"idle", "read", "write"}
  <2>1. CASE v # w
    BY <1>2, <2>1, WriteFrame
  <2>2. CASE v = w
    <3>1. CASE Check(w)
      BY <3>1 DEF Check
    <3>2. CASE WriteStep(w)
      <4>1. AppendEvent(w) \/ Finish(w) \/ WriteThrows(w) => pc'[w] \notin {"idle", "read", "write"}
        BY DEF AppendEvent, Finish, WriteThrows, Settle
      <4>2. ASSUME NEW ok \in BOOLEAN, ReadNotes(w, ok) PROVE pc[w] = "read"
        BY <4>2 DEF ReadNotes
      <4>3. ASSUME NEW ok \in BOOLEAN, Index(w, ok) \/ Extract(w, ok)
            PROVE  pc'[w] \notin {"idle", "read", "write"}
        BY <4>3 DEF Index, Extract
      <4>4. QED BY <1>1, <3>2, <4>1, <4>2, <4>3 DEF WriteStep
    <3>3. QED BY <1>2, <2>2, <3>1, <3>2
  <2>3. QED BY <2>1, <2>2
<1>3. CASE SweepRead \/ SweepStep \/ (\E m \in Memory : RestoreStart(m)) \/ RestoreStep
  BY <1>1, <1>3, SweepFrame, RestoreFrame DEF writing
<1>4. CASE Crash
  BY <1>1, <1>4 DEF Crash
<1>5. CASE (\E okEvents, okNotes \in BOOLEAN : Hydrate(okEvents, okNotes))
           \/ (\E m \in Memory : Deprecate(m) \/ Expire(m)) \/ UNCHANGED vars
  BY <1>1, <1>5 DEF Hydrate, Deprecate, Expire, vars, writing
<1>6. QED BY <1>1, <1>2, <1>3, <1>4, <1>5 DEF Next

\* What a write without an event may rely on
Unlogged(w) ==
  /\ status[idOf[w]] = "none"
  /\ idOf[w] \notin sweep.dep
  /\ archive[idOf[w]] = NoWrite

\* A write step gives no node to a generated id that another write has.
LEMMA UnloggedWrite ==
  ASSUME IInv, EventInv, NEW u \in Write, Check(u) \/ WriteStep(u),
         NEW w \in Write, Generated(w), w \notin events'
  PROVE  Unlogged(w)'
<1> USE WriteAssumption, IdAssumption DEF IInv, TypeOK
<1>1. w \notin events /\ UNCHANGED <<sweep, archive>>
  <2>1. events \subseteq events'
    <3> USE DEF disk, memory, writing, bounds, hidden
    <3>1. Check(u) \/ WriteNotes(u) \/ AppendEvent(u) \/ Finish(u) \/ WriteThrows(u)
          => events \subseteq events'
      BY DEF Check, WriteNotes, AppendEvent, Finish, WriteThrows
    <3>2. ASSUME NEW ok \in BOOLEAN, ReadNotes(u, ok) \/ Index(u, ok) \/ Extract(u, ok)
          PROVE  events \subseteq events'
      BY <3>2 DEF ReadNotes, Index, Extract
    <3>3. QED BY <3>1, <3>2 DEF WriteStep
  <2>2. QED BY <2>1, WriteFrame
<1>2. Unlogged(w)
  BY <1>1 DEF EventInv, Unlogged
<1>3. status'[idOf[w]] = status[idOf[w]]
  <2>1. ASSUME NEW ok \in BOOLEAN, Extract(u, ok)
        PROVE  status'[idOf[w]] = status[idOf[w]]
    <3>1. u \in events
      BY <2>1 DEF Extract, EventInv
    <3>2. idOf[u] # idOf[w]
      BY <1>1, <3>1 DEF Generated
    <3>3. QED BY <2>1, <3>2 DEF Extract
  <2>2. Check(u) \/ WriteNotes(u) \/ AppendEvent(u) \/ Finish(u) \/ WriteThrows(u)
        => UNCHANGED status
    BY DEF Check, WriteNotes, AppendEvent, Finish, WriteThrows, disk
  <2>3. ASSUME NEW ok \in BOOLEAN, ReadNotes(u, ok) \/ Index(u, ok) PROVE UNCHANGED status
    BY <2>3 DEF ReadNotes, Index, disk
  <2>4. QED BY <2>1, <2>2, <2>3 DEF WriteStep
<1>4. QED BY <1>1, <1>2, <1>3 DEF Unlogged

\* Nor does any other step.
LEMMA UnloggedElse ==
  ASSUME IInv, EventInv, [Next]_vars,
         ~(\E u \in Write : Check(u) \/ WriteStep(u)),
         NEW w \in Write, Generated(w), w \notin events'
  PROVE  w \notin events /\ Unlogged(w)'
<1> USE WriteAssumption DEF IInv, CallInv, TypeOK, disk
<1>1. w \notin events
  <2>1. CASE SweepRead \/ SweepStep
    BY <2>1, SweepStill
  <2>2. CASE (\E m \in Memory : RestoreStart(m)) \/ RestoreStep
    BY <2>2, RestoreStill DEF RestoreWrite
  <2>3. QED BY <2>1, <2>2 DEF Next, Hydrate, Deprecate, Expire, Crash, vars
<1>2. Unlogged(w)
  BY <1>1 DEF EventInv, Unlogged
<1>3. CASE SweepRead \/ SweepStep
  <2>1. CASE SweepRead
    BY <1>2, <2>1 DEF SweepRead, Unlogged
  <2>2. CASE SweepNodes
    BY <1>2, <2>2 DEF SweepNodes, Unlogged, NoSweep, Deprecated
  <2>3. ASSUME NEW u \in Write, SweepFile(u) PROVE Unlogged(w)'
    <3>1. idOf[u] # idOf[w]
      BY <1>2, <2>3 DEF SweepFile, Selected, Unlogged
    <3>2. QED BY <1>2, <2>3, <3>1 DEF SweepFile, Unlogged
  <2>4. CASE SweepNotes
    BY <1>2, <2>4 DEF SweepNotes, Unlogged
  <2>5. CASE SweepThrows
    BY <1>2, <2>5 DEF SweepThrows, NoSweep, Unlogged
  <2>6. ASSUME NEW ok \in BOOLEAN, SweepGraph(ok) PROVE Unlogged(w)'
    BY <1>2, <2>6 DEF SweepGraph, Unlogged
  <2>7. ASSUME NEW ok \in BOOLEAN, SweepPrune(ok) PROVE Unlogged(w)'
    BY <1>2, <2>7 DEF SweepPrune, NoSweep, Unlogged
  <2>8. QED BY <1>1, <1>3, <2>1, <2>2, <2>3, <2>4, <2>5, <2>6, <2>7 DEF SweepStep
<1>4. CASE (\E m \in Memory : RestoreStart(m)) \/ RestoreStep
  <2>1. UNCHANGED sweep
    BY <1>4, RestoreStill DEF RestoreWrite
  <2>2. status'[idOf[w]] = "none"
    <3>1. ASSUME NEW ok \in BOOLEAN, RestoreGraph(ok) PROVE status'[idOf[w]] = "none"
      BY <1>2, <3>1 DEF RestoreGraph, Unlogged
    <3>2. (\E m \in Memory : RestoreStart(m)) \/ RestoreThrows \/ RestoreWrite
          \/ (\E ok \in BOOLEAN : RestoreRead(ok) \/ RestoreVector(ok) \/ RestoreDelete(ok))
          => UNCHANGED status
      BY DEF RestoreStart, RestoreThrows, RestoreWrite, RestoreRead, RestoreVector, RestoreDelete
    <3>3. QED BY <1>2, <1>4, <3>1, <3>2 DEF RestoreStep, Unlogged
  <2>3. archive'[idOf[w]] = NoWrite
    <3>1. ASSUME NEW ok \in BOOLEAN, RestoreDelete(ok) PROVE archive'[idOf[w]] = NoWrite
      BY <1>2, <3>1 DEF RestoreDelete, Unlogged
    <3>2. (\E m \in Memory : RestoreStart(m)) \/ RestoreThrows \/ RestoreWrite
          \/ (\E ok \in BOOLEAN : RestoreRead(ok) \/ RestoreVector(ok) \/ RestoreGraph(ok))
          => UNCHANGED archive
      BY DEF RestoreStart, RestoreThrows, RestoreWrite, RestoreRead, RestoreVector, RestoreGraph
    <3>3. QED BY <1>2, <1>4, <3>1, <3>2 DEF RestoreStep, Unlogged
  <2>4. QED BY <1>1, <1>2, <2>1, <2>2, <2>3 DEF Unlogged
<1>5. ASSUME NEW m \in Memory, Deprecate(m) \/ Expire(m) PROVE Unlogged(w)'
  <2>1. CASE Deprecate(m)
    <3>1. m # idOf[w]
      BY <1>2, <2>1 DEF Deprecate, Unlogged
    <3>2. QED BY <1>2, <2>1, <3>1 DEF Deprecate, Unlogged
  <2>2. CASE Expire(m)
    BY <1>2, <2>2 DEF Expire, Unlogged
  <2>3. QED BY <1>5, <2>1, <2>2
<1>6. CASE Crash
  BY <1>2, <1>6 DEF Crash, NoSweep, Unlogged
<1>7. CASE (\E okEvents, okNotes \in BOOLEAN : Hydrate(okEvents, okNotes)) \/ UNCHANGED vars
  BY <1>2, <1>7 DEF Hydrate, vars, Unlogged
<1>8. QED BY <1>1, <1>3, <1>4, <1>5, <1>6, <1>7 DEF Next

LEMMA EventNext ==
  ASSUME Concurrent = FALSE, IInv, CopyInv, EventInv, [Next]_vars
  PROVE  EventInv'
<1> SUFFICES ASSUME NEW w \in Write
             PROVE  /\ pc'[w] \in {"idle", "read", "write"} => w \notin Blocks'
                    /\ pc'[w] \in {"index", "graph"} => w \in events'
                    /\ Generated(w) /\ w \notin events' => Unlogged(w)'
  BY DEF EventInv, Unlogged, Generated
<1>1. pc'[w] \in {"idle", "read", "write"} => w \notin Blocks'
  BY BeforeNote, BlocksMove DEF IInv, CallInv, EventInv
<1>2. pc'[w] \in {"index", "graph"} => w \in events'
  <2> USE DEF IInv, CallInv, TypeOK, EventInv
  <2>1. ASSUME NEW u \in Write, Check(u) \/ WriteStep(u)
        PROVE  pc'[w] \in {"index", "graph"} => w \in events'
    <3> USE DEF disk, memory, writing, bounds, hidden
    <3>1. CASE AppendEvent(u)
      BY <3>1 DEF AppendEvent
    <3>2. CASE Check(u) \/ Finish(u) \/ WriteThrows(u)
      BY <3>2 DEF Check, Finish, WriteThrows, Settle
    <3>3. CASE WriteNotes(u)
      BY <3>3 DEF WriteNotes
    <3>4. ASSUME NEW ok \in BOOLEAN, ReadNotes(u, ok) \/ Index(u, ok) \/ Extract(u, ok)
          PROVE  pc'[w] \in {"index", "graph"} => w \in events'
      BY <3>4 DEF ReadNotes, Index, Extract
    <3>5. QED BY <2>1, <3>1, <3>2, <3>3, <3>4 DEF WriteStep
  <2>2. CASE SweepRead \/ SweepStep
    BY <2>2, SweepStill
  <2>3. CASE (\E m \in Memory : RestoreStart(m)) \/ RestoreStep
    BY <2>3, RestoreStill DEF RestoreWrite, writing
  <2>4. CASE Crash
    BY <2>4 DEF Crash, disk
  <2>5. CASE (\E okEvents, okNotes \in BOOLEAN : Hydrate(okEvents, okNotes))
             \/ (\E m \in Memory : Deprecate(m) \/ Expire(m)) \/ UNCHANGED vars
    BY <2>5 DEF Hydrate, Deprecate, Expire, vars, disk, writing
  <2>6. QED BY <2>1, <2>2, <2>3, <2>4, <2>5 DEF Next
<1>3. Generated(w) /\ w \notin events' => Unlogged(w)'
  BY UnloggedWrite, UnloggedElse
<1>4. QED BY <1>1, <1>2, <1>3

-----------------------------------------------------------------------------
(* The guards of writeMemory.                                              *)

\* A block that is found stays so through the steps of a write.
LEMMA FoundWrite ==
  ASSUME Concurrent = FALSE, IInv, CopyInv, EventInv, FoundInv,
         NEW u \in Write, Check(u) \/ WriteStep(u), [Next]_vars
  PROVE  FoundInv'
<1> USE DEF IInv, CallInv, TypeOK
<1> SUFFICES ASSUME ready', NEW w \in Blocks', keyOf[w] # NoKey, Generated(w),
                    ~Busy(w)', ~Excused(w)'
             PROVE  Found(w)'
  BY DEF FoundInv, Generated
<1>0. w \in Write
  BY BlocksMove, BlocksType
<1>1. CASE u = w
  <2>1. CASE pc[w] \in {"idle", "read", "write"}
    <3>1. Puts(w)
      BY <1>0, <2>1, BlocksMove DEF EventInv
    <3>2. WriteNotes(w) => Busy(w)'
      BY <1>0 DEF WriteNotes, Busy
    <3>3. WriteThrows(w) => Excused(w)'
      BY <1>0 DEF WriteThrows, Settle, Excused
    <3>4. QED BY <3>1, <3>2, <3>3 DEF Puts
  <2>2. CASE pc[w] \notin {"idle", "read", "write"}
    <3> USE DEF disk, memory, writing, bounds, hidden
    <3>1. CASE Finish(w)
      BY <3>1 DEF Finish, Found
    <3>2. CASE WriteThrows(w)
      BY <1>0, <2>2, <3>2 DEF WriteThrows, Settle, Excused
    <3>3. CASE AppendEvent(w)
      BY <1>0, <3>3 DEF AppendEvent, Busy
    <3>4. ASSUME NEW ok \in BOOLEAN, Index(w, ok) \/ Extract(w, ok) PROVE Busy(w)'
      BY <1>0, <3>4 DEF Index, Extract, Busy
    <3>5. ~Check(w) /\ ~WriteNotes(w) /\ ~(\E ok \in BOOLEAN : ReadNotes(w, ok))
      BY <2>2 DEF Check, WriteNotes, ReadNotes
    <3>6. QED BY <1>1, <3>1, <3>2, <3>3, <3>4, <3>5 DEF WriteStep
  <2>3. QED BY <2>1, <2>2
<1>2. CASE u # w
  <2>1. w \in Blocks /\ ~Busy(w)
    <3>1. ~Puts(w)
      BY <1>0, <1>2, WriteAlone DEF Puts, Busy
    <3>2. QED BY <1>0, <1>2, <3>1, BlocksMove, WriteFrame DEF Busy
  <2>2. /\ UNCHANGED <<ready, unread>> /\ idem \subseteq idem'
        /\ lex \subseteq lex' /\ bodies \subseteq bodies'
        /\ events' \subseteq events \cup {u}
    <3> USE DEF disk, memory, writing, bounds, hidden
    <3>1. CASE Check(u) \/ WriteThrows(u)
      BY <3>1 DEF Check, WriteThrows
    <3>2. CASE WriteNotes(u) \/ AppendEvent(u) \/ Finish(u)
      BY <3>2 DEF WriteNotes, AppendEvent, Finish
    <3>3. ASSUME NEW ok \in BOOLEAN, ReadNotes(u, ok) \/ Index(u, ok) \/ Extract(u, ok)
          PROVE  /\ UNCHANGED <<ready, unread, idem, events>>
                 /\ lex \subseteq lex' /\ bodies \subseteq bodies'
      BY <3>3 DEF ReadNotes, Index, Extract
    <3>4. QED BY <3>1, <3>2, <3>3 DEF WriteStep
  <2>3. ~Excused(w)
    BY <1>0, <1>2, <2>2, WriteFrame DEF Excused
  <2>4. Found(w)
    BY <2>1, <2>2, <2>3 DEF FoundInv
  <2>5. QED BY <1>2, <2>2, <2>4 DEF Found
<1>3. QED BY <1>1, <1>2

LEMMA FoundNext ==
  ASSUME Concurrent = FALSE, IInv, CopyInv, EventInv, FoundInv, [Next]_vars
  PROVE  FoundInv'
<1> USE WriteAssumption DEF IInv, CallInv, TypeOK
<1>1. ASSUME NEW u \in Write, Check(u) \/ WriteStep(u) PROVE FoundInv'
  BY <1>1, FoundWrite
<1>2. ASSUME UNCHANGED <<ready, events, idem, pc, result, unread>>,
             Blocks' \subseteq Blocks,
             \A w \in Blocks : Generated(w) /\ Found(w) => Found(w)'
      PROVE  FoundInv'
  BY <1>2 DEF FoundInv, Busy, Excused, Generated
<1>3. CASE SweepRead \/ SweepStep
  <2>1. ~(\E b \in Write : Puts(b))
    BY <1>3, SweepFrame DEF Puts, Busy
  <2>2. Blocks' \subseteq Blocks
    BY <2>1, BlocksMove
  <2>3. ASSUME NEW w \in Blocks, Generated(w), Found(w) PROVE Found(w)'
    <3>1. CASE UNCHANGED <<lex, bodies>>
      BY <1>3, <2>3, <3>1, SweepStill DEF Found
    <3>2. ASSUME NEW ok \in BOOLEAN, SweepPrune(ok) PROVE Found(w)'
      <4>1. UNCHANGED <<idem, events>>
        BY <1>3, SweepStill
      <4>2. CASE keyOf[w] \in idem
        BY <4>1, <4>2 DEF Found
      <4>3. CASE w \notin events /\ idOf[w] \in lex \cap bodies
        <5>1. w \in Write
          BY BlocksType
        <5>2. idOf[w] \notin Ids(Selected)
          BY <2>3, <4>3, <5>1 DEF EventInv, Selected, Ids
        <5>3. QED BY <3>2, <4>1, <4>3, <5>2 DEF SweepPrune, Found
      <4>4. QED BY <2>3, <4>2, <4>3 DEF Found
    <3>3. QED BY <1>3, <3>1, <3>2, SweepStill
  <2>4. QED BY <1>2, <1>3, <2>2, <2>3, SweepStill
<1>4. CASE (\E m \in Memory : RestoreStart(m)) \/ RestoreStep
  <2>1. ~(\E b \in Write : Puts(b))
    BY <1>4, RestoreFrame DEF Puts, Busy
  <2>2. Blocks' \subseteq Blocks
    BY <2>1, BlocksMove
  <2>3. /\ UNCHANGED <<ready, events, idem, pc, result, unread, bodies>>
        /\ lex \subseteq lex'
    BY <1>4, RestoreStill DEF RestoreWrite, disk, memory, writing, hidden
  <2>4. QED BY <1>2, <2>2, <2>3 DEF Found
<1>5. ASSUME NEW okEvents \in BOOLEAN, NEW okNotes \in BOOLEAN, Hydrate(okEvents, okNotes)
      PROVE  FoundInv'
  <2> SUFFICES ASSUME NEW w \in Blocks, w \in Write, keyOf[w] # NoKey, Generated(w),
                      w \notin unread'
               PROVE  Found(w)'
    <3>1. UNCHANGED <<notes, archive>>
      BY <1>5 DEF Hydrate, disk
    <3>2. Blocks' = Blocks /\ Blocks \subseteq Write
      BY <3>1 DEF Blocks, Archived
    <3>3. QED BY <3>2 DEF FoundInv, Excused, Generated
  <2>1. UNCHANGED events
    BY <1>5 DEF Hydrate, disk
  <2>2. CASE w \in events
    <3>1. okEvents
      BY <1>5, <2>2 DEF Hydrate
    <3>2. keyOf[w] \in idem'
      BY <1>5, <2>2, <3>1 DEF Hydrate
    <3>3. QED BY <3>2 DEF Found
  <2>3. CASE w \notin events
    <3>1. archive[idOf[w]] = NoWrite
      BY <2>3 DEF EventInv
    <3>2. w \in notes
      BY <3>1 DEF Blocks, Archived, ArchiveInv
    <3>3. okNotes
      BY <1>5, <3>2 DEF Hydrate
    <3>4. idOf[w] \in lex' \cap bodies'
      BY <1>5, <3>2, <3>3 DEF Hydrate, Ids, Generated
    <3>5. QED BY <2>1, <2>3, <3>4 DEF Found
  <2>4. QED BY <2>2, <2>3
<1>6. CASE Crash
  BY <1>6 DEF Crash, FoundInv
<1>7. CASE (\E m \in Memory : Deprecate(m) \/ Expire(m)) \/ UNCHANGED vars
  <2>1. /\ UNCHANGED <<notes, archive, ready, events, idem, pc, result, unread, lex, bodies>>
    BY <1>7 DEF Deprecate, Expire, vars, disk, memory, writing, hidden
  <2>2. Blocks' = Blocks
    BY <2>1 DEF Blocks, Archived
  <2>3. QED BY <1>2, <2>1, <2>2 DEF Found
<1>8. QED BY <1>1, <1>3, <1>4, <1>5, <1>6, <1>7 DEF Next

-----------------------------------------------------------------------------
(* One block for a key.                                                    *)

\* What excuses a second block stays.
LEMMA ExcusedStays ==
  ASSUME IInv, Answered, [Next]_vars, NEW w \in Write, Excused(w)
  PROVE  Excused(w)'
<1> USE DEF IInv, CallInv, TypeOK
<1>1. unread \subseteq unread'
  <2>1. ASSUME NEW u \in Write, Check(u) \/ WriteStep(u) PROVE UNCHANGED unread
    <3>1. CASE WriteNotes(u)
      BY <3>1 DEF WriteNotes, hidden
    <3>2. ASSUME NEW ok \in BOOLEAN, Index(u, ok) PROVE UNCHANGED unread
      BY <3>2 DEF Index, hidden
    <3>3. QED BY <2>1, <3>1, <3>2, WriteStill
  <2>2. CASE SweepRead \/ SweepStep
    BY <2>2, SweepStill
  <2>3. CASE (\E m \in Memory : RestoreStart(m)) \/ RestoreStep
    BY <2>3, RestoreStill DEF RestoreWrite, hidden
  <2>4. QED BY <2>1, <2>2, <2>3 DEF Next, Hydrate, Deprecate, Expire, Crash, hidden, vars
<1>2. result[w] \in {"unlogged", "failed"} => result'[w] = result[w]
  <2> SUFFICES ASSUME pc[w] = "done" PROVE result'[w] = result[w]
    BY DEF Answered
  <2>1. ASSUME NEW u \in Write, Check(u) \/ WriteStep(u)
        PROVE  result'[w] = result[w]
    <3>1. u # w
      BY <2>1 DEF WriteStep, Check, ReadNotes, WriteNotes, AppendEvent, WriteThrows, Index,
                  Extract, Finish
    <3>2. QED BY <2>1, <3>1, WriteFrame
  <2>2. CASE SweepRead \/ SweepStep
    BY <2>2, SweepStill
  <2>3. CASE (\E m \in Memory : RestoreStart(m)) \/ RestoreStep
    BY <2>3, RestoreStill DEF RestoreWrite, writing
  <2>4. CASE Crash
    BY <2>4 DEF Crash
  <2>5. CASE (\E okEvents, okNotes \in BOOLEAN : Hydrate(okEvents, okNotes))
             \/ (\E m \in Memory : Deprecate(m) \/ Expire(m)) \/ UNCHANGED vars
    BY <2>5 DEF Hydrate, Deprecate, Expire, vars, writing
  <2>6. QED BY <2>1, <2>2, <2>3, <2>4, <2>5 DEF Next
<1>3. QED BY <1>1, <1>2 DEF Excused

\* A call that is over is over for good, and appends nothing.
LEMMA CutStays ==
  ASSUME Concurrent = FALSE, IInv, [Next]_vars, NEW w \in Write, Cut(w)
  PROVE  Cut(w)'
<1> USE DEF IInv, CallInv, TypeOK, Cut
<1>1. ASSUME NEW u \in Write, Check(u) \/ WriteStep(u) PROVE Cut(w)'
  <2>1. u # w
    BY <1>1 DEF WriteStep, Check, ReadNotes, WriteNotes, AppendEvent, WriteThrows, Index,
                Extract, Finish
  <2>2. pc'[w] = pc[w]
    BY <1>1, <2>1, WriteFrame
  <2>3. w \notin events'
    <3> USE DEF disk, memory, writing, bounds, hidden
    <3>1. CASE AppendEvent(u)
      BY <2>1, <3>1 DEF AppendEvent
    <3>2. Check(u) \/ WriteNotes(u) \/ Finish(u) \/ WriteThrows(u)
          => events' \subseteq events \cup {u}
      BY DEF Check, WriteNotes, Finish, WriteThrows
    <3>3. ASSUME NEW ok \in BOOLEAN, ReadNotes(u, ok) \/ Index(u, ok) \/ Extract(u, ok)
          PROVE  UNCHANGED events
      BY <3>3 DEF ReadNotes, Index, Extract
    <3>4. QED BY <1>1, <2>1, <3>1, <3>2, <3>3 DEF WriteStep
  <2>4. QED BY <2>2, <2>3
<1>2. CASE SweepRead \/ SweepStep
  BY <1>2, SweepStill
<1>3. CASE (\E m \in Memory : RestoreStart(m)) \/ RestoreStep
  BY <1>3, RestoreStill DEF RestoreWrite, writing
<1>4. CASE Crash
  BY <1>4 DEF Crash, disk
<1>5. CASE (\E okEvents, okNotes \in BOOLEAN : Hydrate(okEvents, okNotes))
           \/ (\E m \in Memory : Deprecate(m) \/ Expire(m)) \/ UNCHANGED vars
  BY <1>5 DEF Hydrate, Deprecate, Expire, vars, disk, writing
<1>6. QED BY <1>1, <1>2, <1>3, <1>4, <1>5 DEF Next

LEMMA AllowedStays ==
  ASSUME Concurrent = FALSE, IInv, Answered, [Next]_vars,
         NEW v \in Write, NEW w \in Write, Allowed(v, w)
  PROVE  Allowed(v, w)'
BY ExcusedStays, CutStays DEF Allowed

\* A write passes the guards only when no block has its key, except one that
\* was cut off and says something else.
LEMMA CheckFinds ==
  ASSUME Concurrent = FALSE, IInv, EventInv, FoundInv, NEW w \in Write, Check(w),
         pc'[w] = "read", NEW v \in Blocks, Twins(v, w)
  PROVE  Allowed(v, w)
<1> USE DEF IInv, TypeOK
<1> SUFFICES ASSUME ~Excused(v) PROVE bodyOf[idOf[v]] # bodyOf[idOf[w]] /\ Cut(v)
  BY DEF Allowed
<1>1. ready /\ v \in Write /\ ~Busy(v)
  BY Alone, BlocksType DEF Check, MayStart
<1>2. Found(v)
  BY <1>1 DEF FoundInv, Twins
<1>3. ~KeySeen(w) /\ ~NearDuplicate(w)
  BY DEF Check, Settle
<1>4. v \notin events /\ idOf[v] \in lex \cap bodies
  BY <1>2, <1>3 DEF Found, Twins, KeySeen
<1>5. bodyOf[idOf[v]] # bodyOf[idOf[w]]
  BY <1>3, <1>4 DEF NearDuplicate, Twins, Generated
<1>6. pc[v] = "done"
  BY <1>1 DEF EventInv, Busy, WritePc
<1>7. QED BY <1>4, <1>5, <1>6 DEF Cut

LEMMA TwinNext ==
  ASSUME Concurrent = FALSE, IInv, Answered, CopyInv, EventInv, FoundInv, TwinInv,
         [Next]_vars
  PROVE  TwinInv'
<1> USE DEF IInv, CallInv, TypeOK
<1> SUFFICES ASSUME NEW v \in Blocks', NEW w \in Write, Passed(w)', Twins(v, w)
             PROVE  Allowed(v, w)'
  BY DEF TwinInv, Twins, Generated
<1>1. v \in Write
  BY BlocksMove, BlocksType
<1>2. CASE v \in Blocks /\ Passed(w)
  BY <1>1, <1>2, AllowedStays DEF TwinInv
<1>3. CASE ~Passed(w)
  <2>1. w \notin Blocks /\ pc[w] \notin {"read", "write"}
    BY <1>3 DEF Passed
  <2>2. pc'[w] \in {"read", "write"}
    BY <2>1, BlocksMove DEF Passed, Puts
  <2>3. pc[w] = "idle" /\ ~Puts(w)
    BY <2>1, <2>2, BeforeNote
  <2>4. Check(w) /\ pc'[w] = "read"
    <3>1. ASSUME NEW u \in Write, Check(u) \/ WriteStep(u) PROVE Check(w)
      <4>1. u = w
        BY <2>2, <2>3, <3>1, WriteFrame
      <4>2. ~WriteStep(w)
        BY <2>3 DEF WriteStep, ReadNotes, WriteNotes, AppendEvent, WriteThrows, Index,
                    Extract, Finish
      <4>3. QED BY <3>1, <4>1, <4>2
    <3>2. CASE SweepRead \/ SweepStep
      BY <2>2, <2>3, <3>2, SweepStill
    <3>3. CASE (\E m \in Memory : RestoreStart(m)) \/ RestoreStep
      BY <2>2, <2>3, <3>3, RestoreStill DEF RestoreWrite, writing
    <3>4. CASE Crash
      BY <2>2, <3>4 DEF Crash
    <3>5. CASE (\E okEvents, okNotes \in BOOLEAN : Hydrate(okEvents, okNotes))
               \/ (\E m \in Memory : Deprecate(m) \/ Expire(m)) \/ UNCHANGED vars
      BY <2>2, <2>3, <3>5 DEF Hydrate, Deprecate, Expire, vars, writing
    <3>6. Check(w)
      BY <3>1, <3>2, <3>3, <3>4, <3>5 DEF Next
    <3>7. QED BY <2>2, <3>6 DEF Check, Settle
  <2>5. v \in Blocks
    BY <1>1, <2>4, BlocksMove, Alone DEF Check, Puts, Busy
  <2>6. QED BY <1>1, <2>4, <2>5, CheckFinds, AllowedStays
<1>4. CASE v \notin Blocks /\ Passed(w)
  <2>1. pc[v] = "write"
    BY <1>4, BlocksMove DEF Puts
  <2>2. v # w /\ Twins(w, v)
    BY DEF Twins
  <2>3. w \in Blocks
    <3>1. ~Busy(w)
      BY <1>1, <2>1, <2>2 DEF OneCall, Busy
    <3>2. QED BY <1>4, <3>1 DEF Passed, Busy
  <2>4. Allowed(v, w)
    BY <1>1, <2>1, <2>2, <2>3 DEF TwinInv, Passed, Allowed
  <2>5. QED BY <1>1, <2>4, AllowedStays
<1>5. QED BY <1>2, <1>3, <1>4

LEMMA KeyInit == Init => KeyInv
<1> SUFFICES ASSUME Init PROVE KeyInv
  OBVIOUS
<1> USE WriteAssumption DEF Init
<1>1. Blocks = {}
  BY DEF Blocks, Archived
<1>2. EventInv
  BY <1>1 DEF EventInv, NoSweep
<1>3. QED BY <1>1, <1>2 DEF KeyInv, FoundInv, TwinInv

LEMMA KeyNext ==
  ASSUME Concurrent = FALSE, IInv, RecallInv, KeyInv, [Next]_vars
  PROVE  KeyInv'
BY EventNext, FoundNext, TwinNext DEF KeyInv, RecallInv

-----------------------------------------------------------------------------
(* Blocks that stand in notes.md twice.                                    *)

LEMMA DoubleWrite ==
  ASSUME Concurrent = FALSE, IInv, CopyInv, EventInv, DoubleInv,
         NEW w \in Write, Check(w) \/ WriteStep(w)
  PROVE  DoubleInv'
<1> USE DEF IInv, CallInv, TypeOK
<1>1. /\ UNCHANGED <<sweep, restore, archive, torn>>
      /\ \/ notes' \subseteq notes
         \/ pc[w] = "write" /\ notes' \subseteq notes \cup {w}
      /\ twice' \subseteq twice \cup again[w]
      /\ \A v \in Write : again'[v] \subseteq again[v] \cup twice
  <2> USE DEF disk, memory, writing, bounds, hidden
  <2>1. CASE Check(w) \/ AppendEvent(w) \/ Finish(w)
    BY <2>1 DEF Check, AppendEvent, Finish
  <2>2. CASE WriteNotes(w)
    BY <2>2 DEF WriteNotes, PutNote, DropCopy, CopyInv
  <2>3. CASE WriteThrows(w)
    BY <2>3 DEF WriteThrows, PutNote, DropCopy, CopyInv
  <2>4. ASSUME NEW ok \in BOOLEAN,
               ReadNotes(w, ok) \/ Index(w, ok) \/ Extract(w, ok)
        PROVE  /\ UNCHANGED <<sweep, restore, archive, torn, notes, twice>>
               /\ \A v \in Write : again'[v] \subseteq again[v] \cup twice
    BY <2>4 DEF ReadNotes, Index, Extract
  <2>5. QED BY <2>1, <2>2, <2>3, <2>4 DEF WriteStep, WriteThrows
<1>2. LeftOver' \subseteq LeftOver
  <2>1. pc[w] = "write" => \A m \in Memory : archive[m] # w
    BY WriteAssumption DEF EventInv, Blocks, Archived
  <2>2. QED BY <1>1, <2>1 DEF LeftOver
<1>3. LeftInv' /\ TwiceInv'
  BY <1>1, <1>2 DEF DoubleInv, LeftInv, TwiceInv
<1>4. QED BY <1>3 DEF DoubleInv

LEMMA DoubleSweep ==
  ASSUME Concurrent = FALSE, IInv, CopyInv, DoubleInv, SweepRead \/ SweepStep
  PROVE  DoubleInv'
<1> USE WriteAssumption DEF IInv, CallInv, TypeOK, disk, memory, writing,
                            bounds, hidden, DoubleInv
<1>0. restore.at = "idle" /\ UNCHANGED <<again, restore>>
  BY SweepFrame
<1>1. CASE SweepRead
  BY <1>1 DEF SweepRead, LeftInv, TwiceInv, LeftOver
<1>2. CASE SweepNodes
  <2>1. /\ UNCHANGED <<twice, torn, again, restore>> /\ LeftOver' = LeftOver
        /\ sweep.at = "nodes" /\ sweep'.twice \in {sweep.twice, {}}
    BY <1>2 DEF SweepNodes, LeftOver, NoSweep
  <2>2. QED BY <1>0, <2>1 DEF LeftInv, TwiceInv
<1>3. ASSUME NEW w \in Write, SweepFile(w) PROVE DoubleInv'
  <2>1. /\ LeftOver' \subseteq LeftOver \cup {w} /\ sweep.at = "files"
        /\ sweep' = [sweep EXCEPT !.filed = @ \cup {w}]
        /\ UNCHANGED <<twice, torn>>
    BY <1>3 DEF SweepFile, LeftOver
  <2>2. QED BY <1>0, <2>1 DEF LeftInv, TwiceInv
<1>4. CASE SweepNotes
  <2>1. /\ LeftOver' \subseteq LeftOver \ sweep.filed
        /\ sweep'.twice = sweep.twice /\ UNCHANGED torn
        /\ twice' \subseteq twice \cup sweep.twice
    BY <1>4 DEF SweepNotes, SweepInv, LeftOver
  <2>2. QED BY <1>0, <2>1 DEF LeftInv, TwiceInv
<1>5. CASE SweepThrows
  BY <1>0, <1>5 DEF SweepThrows, NoSweep, LeftInv, TwiceInv, LeftOver
<1>6. ASSUME NEW ok \in BOOLEAN, SweepGraph(ok) \/ SweepPrune(ok)
      PROVE  DoubleInv'
  <2>1. /\ LeftOver' = LeftOver /\ UNCHANGED <<twice, torn>>
        /\ sweep.at # "files" /\ sweep'.twice \in {sweep.twice, {}}
    BY <1>6 DEF SweepGraph, SweepPrune, NoSweep, LeftOver
  <2>2. QED BY <1>0, <2>1 DEF LeftInv, TwiceInv
<1>7. QED BY <1>1, <1>2, <1>3, <1>4, <1>5, <1>6 DEF SweepStep

\* Only a block that has an archive file is put back, and so only one that an
\* earlier sweep or restore left half way is put back twice.
LEMMA PutBlockTwice ==
  ASSUME Concurrent = FALSE, IInv, CopyInv, DoubleInv,
         restore.at = "write", sweep.at = "idle", PutBlock
  PROVE  /\ notes' \subseteq notes \cup {restore.block}
         /\ twice' \subseteq torn
<1> USE DEF IInv, CallInv, TypeOK
<1>1. restore.got \subseteq notes /\ restore.block = archive[restore.of]
  BY DEF CopyInv
<1>2. restore.got \cap {restore.block} \subseteq LeftOver
  BY <1>1 DEF LeftOver
<1>3. LeftOver \subseteq torn /\ restore.twice \subseteq torn
  BY DEF DoubleInv, LeftInv, TwiceInv
<1>4. QED BY <1>1, <1>2, <1>3 DEF PutBlock

LEMMA DoubleRestore ==
  ASSUME Concurrent = FALSE, IInv, CopyInv, DoubleInv,
         (\E m \in Memory : RestoreStart(m)) \/ RestoreStep
  PROVE  DoubleInv'
<1> USE WriteAssumption DEF IInv, CallInv, TypeOK, disk, memory, writing,
                            bounds, hidden
<1>0. sweep.at = "idle" /\ UNCHANGED <<again, sweep>>
  BY RestoreFrame
<1>1. ASSUME NEW m \in Memory, RestoreStart(m) PROVE DoubleInv'
  BY <1>1 DEF RestoreStart, DoubleInv, LeftInv, TwiceInv, LeftOver
<1>2. ASSUME NEW ok \in BOOLEAN, RestoreRead(ok) PROVE DoubleInv'
  BY <1>0, <1>2 DEF RestoreRead, DoubleInv, LeftInv, TwiceInv, LeftOver
<1>3. CASE RestoreWrite
  <2>1. /\ notes' \subseteq notes \cup {restore.block} /\ twice' \subseteq torn
        /\ UNCHANGED <<archive, torn>>
        /\ restore'.at \in {"vector", "graph"}
        /\ restore'.block = restore.block /\ restore'.twice = restore.twice
        /\ restore.at = "write"
    BY <1>0, <1>3, PutBlockTwice DEF RestoreWrite
  <2>2. LeftOver' \subseteq LeftOver \cup {restore.block}
    BY <2>1 DEF LeftOver
  <2>3. QED BY <1>0, <2>1, <2>2 DEF DoubleInv, LeftInv, TwiceInv
<1>4. CASE RestoreThrows
  <2>1. twice' \subseteq torn
    BY <1>0, <1>4, PutBlockTwice DEF RestoreThrows, DoubleInv, TwiceInv
  <2>2. torn' = torn \cup LeftOver' /\ restore'.twice = {}
    BY <1>4 DEF RestoreThrows, NoRestore
  <2>3. QED BY <1>0, <2>1, <2>2 DEF DoubleInv, LeftInv, TwiceInv
<1>5. ASSUME NEW ok \in BOOLEAN, RestoreVector(ok) \/ RestoreGraph(ok)
      PROVE  DoubleInv'
  <2>1. /\ LeftOver' = LeftOver /\ UNCHANGED <<twice, torn>>
        /\ restore.at \in {"vector", "graph"}
        /\ restore'.at \in {"graph", "delete"}
        /\ restore'.block = restore.block /\ restore'.twice = restore.twice
    BY <1>5 DEF RestoreVector, RestoreGraph, LeftOver
  <2>2. QED BY <1>0, <2>1 DEF DoubleInv, LeftInv, TwiceInv
<1>6. ASSUME NEW ok \in BOOLEAN, RestoreDelete(ok) PROVE DoubleInv'
  <2>1. /\ UNCHANGED <<twice, notes>> /\ restore'.twice = {}
        /\ restore.at = "delete" /\ torn \subseteq torn'
    BY <1>6 DEF RestoreDelete, NoRestore
  <2>2. CASE ok
    <3>1. archive' = [archive EXCEPT ![restore.of] = NoWrite]
      BY <1>6, <2>2 DEF RestoreDelete
    <3>2. restore.block = archive[restore.of]
      BY <2>1 DEF CopyInv
    <3>3. LeftOver' \subseteq LeftOver \ {restore.block}
      BY <2>1, <3>1, <3>2 DEF LeftOver, ArchiveInv, Archived
    <3>4. QED BY <1>0, <2>1, <3>3 DEF DoubleInv, LeftInv, TwiceInv
  <2>3. CASE ~ok
    <3>1. LeftOver' = LeftOver /\ torn' = torn \cup LeftOver
      BY <1>6, <2>3 DEF RestoreDelete, LeftOver
    <3>2. QED BY <1>0, <2>1, <3>1 DEF DoubleInv, LeftInv, TwiceInv
  <2>4. QED BY <2>2, <2>3
<1>7. QED BY <1>1, <1>2, <1>3, <1>4, <1>5, <1>6 DEF RestoreStep

LEMMA DoubleNext ==
  ASSUME Concurrent = FALSE, IInv, CopyInv, EventInv, DoubleInv, [Next]_vars
  PROVE  DoubleInv'
<1>1. ASSUME NEW w \in Write, Check(w) \/ WriteStep(w) PROVE DoubleInv'
  BY <1>1, DoubleWrite
<1>2. CASE SweepRead \/ SweepStep
  BY <1>2, DoubleSweep
<1>3. CASE (\E m \in Memory : RestoreStart(m)) \/ RestoreStep
  BY <1>3, DoubleRestore
<1>4. CASE Crash
  BY <1>4 DEF Crash, disk, NoSweep, NoRestore, LeftOver, DoubleInv, LeftInv,
              TwiceInv
<1>5. CASE \/ \E okEvents, okNotes \in BOOLEAN : Hydrate(okEvents, okNotes)
           \/ \E m \in Memory : Deprecate(m) \/ Expire(m)
           \/ UNCHANGED vars
  <2>1. UNCHANGED <<notes, archive, twice, torn, again, sweep, restore>>
    BY <1>5 DEF Hydrate, Deprecate, Expire, vars, disk, writing, hidden
  <2>2. QED BY <2>1 DEF DoubleInv, LeftInv, TwiceInv, LeftOver
<1>6. QED BY <1>1, <1>2, <1>3, <1>4, <1>5 DEF Next

LEMMA DoubleInit == Init => DoubleInv
BY DEF Init, DoubleInv, LeftInv, TwiceInv, LeftOver, NoSweep, NoRestore

\* An idempotency key makes one note (write.ts), for any retries, crashes,
\* failures, sweeps and restores, up to writes reported failed, blocks and
\* events a cold start could not read, and a retry that says something else
\* than the write that was cut off; and a note stands twice in notes.md only
\* when a sweep or restore left it beside its archive file (archive.ts).
THEOREM OneNote ==
  ASSUME Concurrent = FALSE PROVE Spec => []OneNotePerKey
<1>1. IInv /\ RecallInv /\ [Next]_vars => RecallInv'
  BY RecallNext
<1>2. IInv /\ RecallInv /\ KeyInv /\ [Next]_vars => KeyInv'
  BY KeyNext
<1>3. IInv /\ RecallInv /\ KeyInv /\ DoubleInv /\ [Next]_vars => DoubleInv'
  BY DoubleNext DEF RecallInv, KeyInv
<1>4. IInv /\ KeyInv /\ DoubleInv => OneNotePerKey
  <2> SUFFICES ASSUME IInv, KeyInv, DoubleInv PROVE OneNotePerKey
    OBVIOUS
  <2>1. twice \subseteq torn
    BY DEF DoubleInv, TwiceInv
  <2>2. QED
    BY <2>1 DEF IInv, TypeOK, KeyInv, TwinInv, Twins, Passed, Blocks, Generated,
                Excused, Allowed, Cut, OneNotePerKey
<1>5. QED
  BY <1>1, <1>2, <1>3, <1>4, RecallInit, KeyInit, DoubleInit, Invariant, PTL
     DEF Spec
=============================================================================
