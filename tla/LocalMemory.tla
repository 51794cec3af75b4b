----------------------------- MODULE LocalMemory -----------------------------
(***************************************************************************)
(* The life of a memory in the local strategy of the runtime: writeMemory  *)
(* (packages/core/src/memofs/local-strategy/write.ts), the archive sweep   *)
(* and restore (local-strategy/archive.ts), and the cold start that        *)
(* rebuilds the in-memory indices (memofs/local-strategy.ts).              *)
(*                                                                         *)
(* Disk: notes.md, the event log, the archive files, the graph store and   *)
(* the vector store.  Each store call is one atomic step here; module      *)
(* FsStore shows the steps inside.  Between the calls of one process the   *)
(* hash check of FsStore lets a whole-file write replace the file, since   *)
(* every read and write records the hash of what is on disk; a conflict it *)
(* reports all the same is a store call that throws.                       *)
(* Memory: the maps of LocalStrategyContext, lost when the process dies.   *)
(*                                                                         *)
(* A note block is named by the write call that produced it, and a file is *)
(* the set of its blocks with the set of those it holds more than once.    *)
(***************************************************************************)
EXTENDS Naturals, FiniteSets

CONSTANTS
  Write,       \* calls of writeMemory
  Memory,      \* memory ids
  idOf,        \* write -> the id its note carries
  Chosen,      \* ids supplied by the caller; the others are mem_... ids
  keyOf,       \* write -> its idempotency key
  NoKey,
  bodyOf,      \* memory -> its content, equal when near-duplicates
  Durable,     \* memories that classify durable
  NoWrite,     \* no block
  Concurrent,  \* calls may overlap: no concurrency layer serialises them
  QueryLimit,  \* nodes a query without a limit returns, 100 in the code
  MaxTrouble,  \* bound: process crashes and failed store calls
  MaxDeprecate \* bound: nodes that go stale

ASSUME WriteAssumption ==
  /\ idOf \in [Write -> Memory]
  /\ bodyOf \in [Memory -> STRING]
  /\ Chosen \subseteq Memory /\ Durable \subseteq Memory
  /\ Memory # {} /\ NoWrite \notin Write
ASSUME IdAssumption ==      \* a generated id is fresh
  \A v, w \in Write : v # w /\ idOf[v] = idOf[w] => idOf[v] \in Chosen
ASSUME BoundAssumption ==
  /\ Concurrent \in BOOLEAN
  /\ QueryLimit \in Nat /\ MaxTrouble \in Nat /\ MaxDeprecate \in Nat

Key == {keyOf[w] : w \in Write} \ {NoKey}

VARIABLES
  notes,       \* blocks of notes.md
  twice,       \* blocks that stand in notes.md more than once
  events,      \* writes with a memory.created event
  archive,     \* memory -> the block in .memofs/archive/<id>.json
  status,      \* memory -> status of the graph node bound to it
  expired,     \* memories whose node is past its validUntil or expiresAt
  vec,         \* memories with chunks in the vector store
  ready,       \* bootstrapped
  known,       \* knownMemoryIds
  idem,        \* keys of idempotencyKeys
  lex,         \* memories in the lexical index
  bodies,      \* keys of memoryContentById
  pc,          \* write -> where the call is
  result,      \* write -> what its caller was told
  got,         \* write -> the notes it read
  again,       \* write -> those of them it read more than once
  sweep,       \* the archive sweep: [at, got, twice, dep, filed]
  restore,     \* the restore call: [at, of, block, got, twice]
  troubles,    \* crashes and failed store calls so far
  hurt,        \* history: a store call failed since the process started
  unread,      \* history: writes a failed read hid from a cold start
  overwritten, \* history: notes a failed read hid from a call that rewrites
               \* notes.md
  torn,        \* history: blocks that were in notes.md and in an archive file
               \* when a sweep or a restore ended before its end
  stale        \* nodes deprecated or expired so far

disk == <<notes, twice, events, archive, status, expired, vec>>
memory == <<ready, known, idem, lex, bodies>>
writing == <<pc, result, got, again>>
hidden == <<unread, overwritten, torn>>
bounds == <<troubles, hurt, stale>>
vars == <<disk, memory, writing, sweep, restore, bounds, hidden>>

-----------------------------------------------------------------------------
WritePc ==
  {"idle", "read", "write", "event", "index", "graph", "finish", "done"}
Result == {"none", "created", "duplicate", "failed", "unlogged", "crashed"}
SweepPc == {"idle", "nodes", "files", "graph", "prune"}
RestorePc == {"idle", "read", "write", "vector", "graph", "delete"}

NoSweep ==
  [at |-> "idle", got |-> {}, twice |-> {}, dep |-> {}, filed |-> {}]
\* Between calls `of` is any memory.
NoRestore == [at |-> "idle", of |-> CHOOSE m \in Memory : TRUE,
              block |-> NoWrite, got |-> {}, twice |-> {}]

TypeOK ==
  /\ notes \in SUBSET Write /\ twice \in SUBSET Write
  /\ events \in SUBSET Write
  /\ archive \in [Memory -> Write \cup {NoWrite}]
  /\ status \in [Memory -> {"none", "active", "deprecated", "archived"}]
  /\ expired \in SUBSET Memory
  /\ vec \in SUBSET Memory
  /\ ready \in BOOLEAN
  /\ known \in SUBSET Memory
  /\ idem \in SUBSET Key
  /\ lex \in SUBSET Memory
  /\ bodies \in SUBSET Memory
  /\ pc \in [Write -> WritePc]
  /\ result \in [Write -> Result]
  /\ got \in [Write -> SUBSET Write] /\ again \in [Write -> SUBSET Write]
  /\ sweep \in [at : SweepPc, got : SUBSET Write, twice : SUBSET Write,
                dep : SUBSET Memory, filed : SUBSET Write]
  /\ restore \in [at : RestorePc, of : Memory, block : Write \cup {NoWrite},
                  got : SUBSET Write, twice : SUBSET Write]
  /\ troubles \in 0..MaxTrouble
  /\ hurt \in BOOLEAN
  /\ unread \in SUBSET Write /\ overwritten \in SUBSET Write
  /\ torn \in SUBSET Write
  /\ stale \in 0..MaxDeprecate

Init ==
  /\ notes = {} /\ twice = {} /\ events = {} /\ expired = {} /\ vec = {}
  /\ archive = [m \in Memory |-> NoWrite]
  /\ status = [m \in Memory |-> "none"]
  /\ ready = FALSE /\ known = {} /\ idem = {} /\ lex = {} /\ bodies = {}
  /\ pc = [w \in Write |-> "idle"]
  /\ result = [w \in Write |-> "none"]
  /\ got = [w \in Write |-> {}] /\ again = [w \in Write |-> {}]
  /\ sweep = NoSweep
  /\ restore = NoRestore
  /\ troubles = 0 /\ hurt = FALSE /\ stale = 0
  /\ unread = {} /\ overwritten = {} /\ torn = {}

Ids(blocks) == {idOf[w] : w \in blocks}

\* Of the store calls of the step, n fail.  One that is reported failed may
\* have taken effect all the same; that is a step of its own where the caller
\* does not go on as after a success.
Failures(n) ==
  /\ troubles + n <= MaxTrouble
  /\ troubles' = troubles + n
  /\ hurt' = (hurt \/ n > 0)
  /\ UNCHANGED stale

Outcome(ok) == Failures(IF ok THEN 0 ELSE 1)

\* No call of the runtime is in flight.
Quiet ==
  /\ \A w \in Write : pc[w] \in {"idle", "done"}
  /\ sweep.at = "idle" /\ restore.at = "idle"

\* A call may begin: it has passed ensureReady, and the concurrency layer
\* when there is one.
MayStart == ready /\ (Concurrent \/ Quiet)

-----------------------------------------------------------------------------
(* ensureReady: the maps are rebuilt from the event log and from notes.md. *)

\* Each of the two reads is best effort.
Hydrate(okEvents, okNotes) ==
  LET logged == IF okEvents THEN events ELSE {}
      noted == IF okNotes THEN Ids(notes) \ Chosen ELSE {}
  IN
  /\ ~ready
  /\ ready' = TRUE
  /\ known' = Ids(logged) \cup noted
  /\ idem' = {keyOf[w] : w \in logged} \ {NoKey}
  /\ lex' = noted
  /\ bodies' = noted
  /\ unread' = unread \cup (IF okEvents THEN {} ELSE events)
                      \cup (IF okNotes THEN {} ELSE notes)
  /\ Failures((IF okEvents THEN 0 ELSE 1) + (IF okNotes THEN 0 ELSE 1))
  /\ UNCHANGED <<disk, writing, sweep, restore, overwritten, torn>>

-----------------------------------------------------------------------------
(* writeMemory                                                             *)

Settle(w, r) ==
  /\ pc' = [pc EXCEPT ![w] = "done"]
  /\ result' = [result EXCEPT ![w] = r]

\* Mutant: idempotency keys are not looked up.
KeySeenNever(w) == FALSE

KeySeen(w) == keyOf[w] \in idem

IdTaken(w) == idOf[w] \in Chosen /\ idOf[w] \in known

\* findDuplicateMemory, the caller's own id excluded.
NearDuplicate(w) ==
  \E m \in lex \cap bodies :
    /\ bodyOf[m] = bodyOf[idOf[w]]
    /\ idOf[w] \in Chosen => m # idOf[w]

\* The three guards, and on to the note when none of them holds.
Check(w) ==
  /\ MayStart
  /\ pc[w] = "idle"
  /\ IF KeySeen(w) \/ IdTaken(w) \/ NearDuplicate(w)
     THEN /\ Settle(w, "duplicate")
          /\ idem' = IF KeySeen(w) \/ IdTaken(w) THEN idem
                     ELSE idem \cup ({keyOf[w]} \ {NoKey})
     ELSE /\ pc' = [pc EXCEPT ![w] = "read"]
          /\ UNCHANGED <<idem, result>>
  /\ UNCHANGED <<disk, ready, known, lex, bodies, got, again, sweep, restore,
                 bounds, hidden>>

\* appendTimestampedNote reads the whole file; safeReadNotesMemory takes every
\* error for a file that does not exist yet...
ReadNotes(w, ok) ==
  /\ pc[w] = "read"
  /\ got' = [got EXCEPT ![w] = IF ok THEN notes ELSE {}]
  /\ again' = [again EXCEPT ![w] = IF ok THEN twice ELSE {}]
  /\ overwritten' = IF ok THEN overwritten ELSE overwritten \cup notes
  /\ pc' = [pc EXCEPT ![w] = "write"]
  /\ Outcome(ok)
  /\ UNCHANGED <<disk, memory, result, sweep, restore, unread, torn>>

PutNote(w) == notes' = got[w] \cup {w} /\ twice' = again[w]
DropCopy(w) ==
  got' = [got EXCEPT ![w] = {}] /\ again' = [again EXCEPT ![w] = {}]

\* ...and writes it whole, with the new block at the end.
WriteNotes(w) ==
  /\ pc[w] = "write"
  /\ PutNote(w)
  /\ DropCopy(w)
  /\ known' = known \cup {idOf[w]}
  /\ pc' = [pc EXCEPT ![w] = "event"]
  /\ UNCHANGED <<events, archive, status, expired, vec, ready, idem, lex,
                 bodies, result, sweep, restore, bounds, hidden>>

\* appendMemoryEvent; a transient note is not indexed.
AppendEvent(w) ==
  /\ pc[w] = "event"
  /\ events' = events \cup {w}
  /\ pc' = [pc EXCEPT ![w] = IF idOf[w] \in Durable THEN "index" ELSE "finish"]
  /\ UNCHANGED <<notes, twice, archive, status, expired, vec, memory, result,
                 got, again, sweep, restore, bounds, hidden>>

\* The store call throws, whether it took effect or not, and so does
\* writeMemory: neither the id nor the key of the note is remembered, and there
\* is no event of a note in notes.md when it was the append that failed.
WriteThrows(w) ==
  /\ \/ /\ pc[w] = "write"
        /\ Settle(w, "failed")
        /\ PutNote(w) \/ UNCHANGED <<notes, twice>>
        /\ UNCHANGED events
     \/ /\ pc[w] = "event"
        /\ Settle(w, "unlogged")
        /\ events' \in {events, events \cup {w}}
        /\ UNCHANGED <<notes, twice>>
  /\ DropCopy(w)
  /\ Outcome(FALSE)
  /\ UNCHANGED <<archive, status, expired, vec, memory, sweep, restore,
                 hidden>>

\* indexDocument, best effort; then the lexical index and the content map.
Index(w, ok) ==
  /\ pc[w] = "index"
  /\ vec' = IF ok THEN vec \cup {idOf[w]} ELSE vec
  /\ lex' = lex \cup {idOf[w]}
  /\ bodies' = bodies \cup {idOf[w]}
  /\ pc' = [pc EXCEPT ![w] = "graph"]
  /\ Outcome(ok)
  /\ UNCHANGED <<notes, twice, events, archive, status, expired, ready, known,
                 idem, result, got, again, sweep, restore, hidden>>

\* autoExtractGraph, best effort
Extract(w, ok) ==
  /\ pc[w] = "graph"
  /\ status' = IF ok THEN [status EXCEPT ![idOf[w]] = "active"] ELSE status
  /\ pc' = [pc EXCEPT ![w] = "finish"]
  /\ Outcome(ok)
  /\ UNCHANGED <<notes, twice, events, archive, expired, vec, memory, result,
                 got, again, sweep, restore, hidden>>

\* Mutant: a missing idempotency key is recorded too.
FinishAnyKey(w) ==
  /\ pc[w] = "finish"
  /\ idem' = idem \cup {keyOf[w]}
  /\ Settle(w, "created")
  /\ UNCHANGED <<disk, ready, known, lex, bodies, got, again, sweep, restore,
                 bounds, hidden>>

Finish(w) ==
  /\ pc[w] = "finish"
  /\ idem' = idem \cup ({keyOf[w]} \ {NoKey})
  /\ Settle(w, "created")
  /\ UNCHANGED <<disk, ready, known, lex, bodies, got, again, sweep, restore,
                 bounds, hidden>>

-----------------------------------------------------------------------------
(* What sweep and restore see of the graph.                                *)

Nodes == {m \in Memory : status[m] # "none"}
Deprecated == {m \in Memory : status[m] = "deprecated"}

\* The graph fits into the answer to one query.  Nodes that belong to no memory
\* of Write are left out: they only make the graph larger.
Fits == Cardinality(Nodes) <= QueryLimit

\* queryNodes with includeInactive and no limit: the first 100 nodes, whatever
\* their status, that are not expired.
Pages == IF Fits THEN {Nodes \ expired}
         ELSE {page \in SUBSET (Nodes \ expired) :
                 Cardinality(page) <= QueryLimit}

\* The blocks that stand in notes.md and have an archive file.
LeftOver == notes \cap {archive[m] : m \in Memory}

-----------------------------------------------------------------------------
(* archiveDeprecated                                                       *)

\* Without a single block the sweep returns, whatever the graph holds.
SweepRead ==
  /\ MayStart
  /\ sweep.at = "idle"
  /\ notes # {}
  /\ sweep' = [sweep EXCEPT !.at = "nodes", !.got = notes, !.twice = twice]
  /\ UNCHANGED <<disk, memory, writing, restore, bounds, hidden>>

SweepNodes ==
  /\ sweep.at = "nodes"
  /\ \E page \in Pages :
       sweep' = IF Deprecated \cap page = {} THEN NoSweep
                ELSE [sweep EXCEPT !.at = "files",
                                   !.dep = Deprecated \cap page]
  /\ UNCHANGED <<disk, memory, writing, restore, bounds, hidden>>

\* The blocks that leave notes.md.
Selected == {w \in sweep.got : idOf[w] \in sweep.dep}

\* One archive file per selected block; a later block of the id overwrites.
SweepFile(w) ==
  /\ sweep.at = "files"
  /\ w \in Selected \ sweep.filed
  /\ archive' = [archive EXCEPT ![idOf[w]] = w]
  /\ sweep' = [sweep EXCEPT !.filed = @ \cup {w}]
  /\ UNCHANGED <<notes, twice, events, status, expired, vec, memory, writing,
                 restore, bounds, hidden>>

\* Mutant: the archived blocks stay in notes.md.
SweepNotesCopies ==
  /\ sweep.at = "files"
  /\ sweep.filed = Selected
  /\ sweep' = [sweep EXCEPT !.at = "graph"]
  /\ UNCHANGED <<disk, memory, writing, restore, bounds, hidden>>

\* Then notes.md is rewritten without them.
SweepNotes ==
  /\ sweep.at = "files"
  /\ sweep.filed = Selected
  /\ IF Selected = {} THEN UNCHANGED <<notes, twice>>
     ELSE /\ notes' = sweep.got \ Selected
          /\ twice' = sweep.twice \ Selected
  /\ sweep' = [sweep EXCEPT !.at = "graph"]
  /\ UNCHANGED <<events, archive, status, expired, vec, memory, writing,
                 restore, bounds, hidden>>

\* The nodes that are still deprecated, best effort.
SweepGraph(ok) ==
  /\ sweep.at = "graph"
  /\ status' = [m \in Memory |->
                  IF ok /\ m \in sweep.dep /\ status[m] = "deprecated"
                  THEN "archived" ELSE status[m]]
  /\ sweep' = [sweep EXCEPT !.at = "prune"]
  /\ Outcome(ok)
  /\ UNCHANGED <<notes, twice, events, archive, expired, vec, memory, writing,
                 restore, hidden>>

\* Mutant: archived memories stay in the lexical index.
SweepPruneVectorOnly(ok) ==
  /\ sweep.at = "prune"
  /\ vec' = IF ok THEN vec \ Ids(Selected) ELSE vec
  /\ sweep' = NoSweep
  /\ Outcome(ok)
  /\ UNCHANGED <<notes, twice, events, archive, status, expired, memory,
                 writing, restore, hidden>>

\* pruneLexical, which drops the content too; the vector chunks, best effort.
SweepPrune(ok) ==
  /\ sweep.at = "prune"
  /\ lex' = lex \ Ids(Selected)
  /\ bodies' = bodies \ Ids(Selected)
  /\ vec' = IF ok THEN vec \ Ids(Selected) ELSE vec
  /\ sweep' = NoSweep
  /\ Outcome(ok)
  /\ UNCHANGED <<notes, twice, events, archive, status, expired, ready, known,
                 idem, writing, restore, hidden>>

\* A store write, or a graph read, throws and ends the sweep there.
SweepThrows ==
  /\ sweep.at \in {"nodes", "files", "graph"}
  /\ sweep' = NoSweep
  /\ torn' = torn \cup LeftOver
  /\ Outcome(FALSE)
  /\ UNCHANGED <<disk, memory, writing, restore, unread, overwritten>>

-----------------------------------------------------------------------------
(* restoreMemory                                                           *)

\* Mutant: the archive file goes first.
RestoreStartDeletes(m) ==
  /\ MayStart
  /\ restore.at = "idle"
  /\ archive[m] # NoWrite
  /\ archive' = [archive EXCEPT ![m] = NoWrite]
  /\ restore' = [at |-> "read", of |-> m, block |-> archive[m], got |-> {},
                 twice |-> {}]
  /\ UNCHANGED <<notes, twice, events, status, expired, vec, memory, writing,
                 sweep, bounds, hidden>>

RestoreStart(m) ==
  /\ MayStart
  /\ restore.at = "idle"
  /\ archive[m] # NoWrite
  /\ restore' = [at |-> "read", of |-> m, block |-> archive[m], got |-> {},
                 twice |-> {}]
  /\ UNCHANGED <<disk, memory, writing, sweep, bounds, hidden>>

\* Here too an error stands for an empty file.
RestoreRead(ok) ==
  /\ restore.at = "read"
  /\ restore' = [restore EXCEPT !.at = "write",
                               !.got = IF ok THEN notes ELSE {},
                               !.twice = IF ok THEN twice ELSE {}]
  /\ overwritten' = IF ok THEN overwritten ELSE overwritten \cup notes
  /\ Outcome(ok)
  /\ UNCHANGED <<disk, memory, writing, sweep, unread, torn>>

\* The block is added at the end, also when it is in the file already.
PutBlock ==
  /\ notes' = restore.got \cup {restore.block}
  /\ twice' = restore.twice \cup (restore.got \cap {restore.block})

\* The block goes back, and into the lexical index; the content map is left.
RestoreWrite ==
  /\ restore.at = "write"
  /\ PutBlock
  /\ lex' = lex \cup {restore.of}
  /\ restore' = [restore EXCEPT !.at = IF restore.of \in Durable THEN "vector"
                                       ELSE "graph"]
  /\ UNCHANGED <<events, archive, status, expired, vec, ready, known, idem,
                 bodies, writing, sweep, bounds, hidden>>

\* indexDocument, best effort
RestoreVector(ok) ==
  /\ restore.at = "vector"
  /\ vec' = IF ok THEN vec \cup {restore.of} ELSE vec
  /\ restore' = [restore EXCEPT !.at = "graph"]
  /\ Outcome(ok)
  /\ UNCHANGED <<notes, twice, events, archive, status, expired, memory,
                 writing, sweep, hidden>>

\* Mutant: the graph node is left as it is.
RestoreGraphSkipped(ok) ==
  /\ restore.at = "graph"
  /\ restore' = [restore EXCEPT !.at = "delete"]
  /\ Outcome(ok)
  /\ UNCHANGED <<disk, memory, writing, sweep, hidden>>

\* Only archived nodes become active again, best effort, and only those the
\* query returns.  Their validUntil stays: upsertNodes takes undefined for the
\* value the node has.
RestoreGraph(ok) ==
  /\ restore.at = "graph"
  /\ \E page \in Pages :
       status' = [status EXCEPT ![restore.of] =
                    IF ok /\ restore.of \in page /\ @ = "archived"
                    THEN "active" ELSE @]
  /\ restore' = [restore EXCEPT !.at = "delete"]
  /\ Outcome(ok)
  /\ UNCHANGED <<notes, twice, events, archive, expired, vec, memory, writing,
                 sweep, hidden>>

\* The archive file goes last, best effort.
RestoreDelete(ok) ==
  /\ restore.at = "delete"
  /\ archive' = IF ok THEN [archive EXCEPT ![restore.of] = NoWrite]
                ELSE archive
  /\ torn' = IF ok THEN torn ELSE torn \cup LeftOver
  /\ restore' = NoRestore
  /\ Outcome(ok)
  /\ UNCHANGED <<notes, twice, events, status, expired, vec, memory, writing,
                 sweep, unread, overwritten>>

\* The write of notes.md, whether it took effect or not, or the graph query
\* throws and ends the restore.
RestoreThrows ==
  /\ \/ restore.at = "write" /\ PutBlock
     \/ restore.at \in {"write", "graph"} /\ UNCHANGED <<notes, twice>>
  /\ restore' = NoRestore
  /\ Outcome(FALSE)
  /\ UNCHANGED <<events, archive, status, expired, vec, memory, writing, sweep,
                 unread, overwritten>>
  /\ torn' = torn \cup LeftOver'

-----------------------------------------------------------------------------
(* The environment.                                                        *)

\* A client of the graph API retires a node, or consolidation does, which sets
\* validUntil to the time of its pass: the node is expired from then on.
Deprecate(m) ==
  /\ MayStart
  /\ stale < MaxDeprecate
  /\ status[m] = "active"
  /\ status' = [status EXCEPT ![m] = "deprecated"]
  /\ expired' \in {expired, expired \cup {m}}
  /\ stale' = stale + 1
  /\ UNCHANGED <<notes, twice, events, archive, vec, memory, writing, sweep,
                 restore, troubles, hurt, hidden>>

\* The clock passes the validUntil or expiresAt of a node.
Expire(m) ==
  /\ stale < MaxDeprecate
  /\ m \in Nodes \ expired
  /\ expired' = expired \cup {m}
  /\ stale' = stale + 1
  /\ UNCHANGED <<notes, twice, events, archive, status, vec, memory, writing,
                 sweep, restore, troubles, hurt, hidden>>

\* The process dies: calls in flight are over and the maps are gone.
Crash ==
  /\ troubles < MaxTrouble
  /\ troubles' = troubles + 1
  /\ hurt' = FALSE
  /\ ready' = FALSE
  /\ known' = {} /\ idem' = {} /\ lex' = {} /\ bodies' = {}
  /\ pc' = [w \in Write |-> IF pc[w] = "idle" THEN "idle" ELSE "done"]
  /\ result' = [w \in Write |-> IF pc[w] \in {"idle", "done"} THEN result[w]
                                ELSE "crashed"]
  /\ got' = [w \in Write |-> {}] /\ again' = [w \in Write |-> {}]
  /\ sweep' = NoSweep
  /\ restore' = NoRestore
  /\ torn' = torn \cup LeftOver
  /\ UNCHANGED <<disk, stale, unread, overwritten>>

WriteStep(w) ==
  \/ WriteNotes(w) \/ AppendEvent(w) \/ Finish(w) \/ WriteThrows(w)
  \/ \E ok \in BOOLEAN : ReadNotes(w, ok) \/ Index(w, ok) \/ Extract(w, ok)

SweepStep ==
  \/ SweepNodes \/ SweepNotes \/ SweepThrows
  \/ \E w \in Write : SweepFile(w)
  \/ \E ok \in BOOLEAN : SweepGraph(ok) \/ SweepPrune(ok)

RestoreStep ==
  \/ RestoreWrite \/ RestoreThrows
  \/ \E ok \in BOOLEAN : \/ RestoreRead(ok) \/ RestoreVector(ok)
                         \/ RestoreGraph(ok) \/ RestoreDelete(ok)

Next ==
  \/ \E okEvents, okNotes \in BOOLEAN : Hydrate(okEvents, okNotes)
  \/ \E w \in Write : Check(w) \/ WriteStep(w)
  \/ SweepRead \/ SweepStep
  \/ \E m \in Memory : RestoreStart(m) \/ Deprecate(m) \/ Expire(m)
  \/ RestoreStep
  \/ Crash

Spec == Init /\ [][Next]_vars

-----------------------------------------------------------------------------
(* Properties.                                                             *)

Archived == {m \in Memory : archive[m] # NoWrite}

\* A write that was reported created is in notes.md or in an archive file,
\* through sweeps, restores, failed store calls and crashes between any two of
\* their steps, unless a failed read of notes.md hid a note of its id from a
\* call that wrote the file anew.
CreatedIsKept ==
  \A w \in Write :
      /\ result[w] = "created"
      /\ idOf[w] \notin Ids(overwritten)
    => idOf[w] \in Ids(notes) \cup Archived

\* "`notes.md` is the append-only audit trail"
\* (packages/cli/src/protocol/constants.ts:77): a write only adds to it.
NotesAppendOnly ==
  [][\A w \in Write : WriteNotes(w) => notes \subseteq notes']_vars

\* When no call is in flight, recall finds every durable memory of notes.md
\* that was written to the end under a generated id, and nothing archived,
\* unless a store call failed since the process started.  After a failed call
\* it still finds the former, but for a note or event a cold start failed to
\* read, and a note in notes.md that has an archive file too: a restore may
\* have ended with an error at a write that took effect.
RecallMatchesNotes ==
  ready /\ Quiet =>
    /\ ~hurt => lex \subseteq Ids(notes)
    /\ \A w \in notes \ unread :
            /\ result[w] = "created" /\ idOf[w] \in Durable \ Chosen
            /\ ~hurt \/ w \notin LeftOver
         => idOf[w] \in lex

\* After the last cleanup, or early when the query returns nothing deprecated.
SweepEnds ==
  \/ SweepNodes /\ sweep'.at = "idle"
  \/ \E ok \in BOOLEAN : SweepPrune(ok)

\* A sweep that ends without an error leaves no note of a memory it retired and,
\* in a graph that fits into the answer to one query, none of a memory whose
\* node is deprecated and not expired, and has an archive file for every note
\* it took, even when the node update fails.
SweepCompletes ==
  [][SweepEnds =>
       /\ \A w \in notes :
            /\ idOf[w] \notin sweep.dep
            /\ Fits => idOf[w] \notin Deprecated \ expired
       /\ Ids(Selected) \subseteq Archived]_vars

\* A restore that runs to its end has put the block back and, unless a store
\* call failed since the process started, left no node of the memory archived,
\* whatever an earlier process left half done, when the graph fits into the
\* answer to one query and the node is not expired.
RestoreCompletes ==
  [][(\E ok \in BOOLEAN : RestoreDelete(ok)) =>
       /\ restore.of \in Ids(notes)
       /\ ~hurt /\ Fits /\ restore.of \notin expired
            => status[restore.of] # "archived"]_vars

\* Without overlapping calls an idempotency key names at most one note with a
\* generated id, also when the write is retried after a crash or a failure.
\* The exceptions are a write that was reported failed although its note is in
\* notes.md, since until the next start neither its key nor its text is known;
\* a write whose event or note a cold start could not read; and the retry, with
\* another content, of a write that ended between its note and its event: only
\* the near-duplicate guard can stop that one.  And a note with a key stands
\* twice in notes.md only when a sweep or a restore ended before its end, so
\* that its archive file was left beside it to be restored again.
OneNotePerKey ==
  /\ \A v, w \in notes :
          /\ v # w
          /\ keyOf[v] = keyOf[w] /\ keyOf[v] # NoKey
          /\ {idOf[v], idOf[w]} \cap Chosen = {}
       => \/ {"unlogged", "failed"} \cap {result[v], result[w]} # {}
          \/ {v, w} \cap unread # {}
          \/ /\ bodyOf[idOf[v]] # bodyOf[idOf[w]]
             /\ \E u \in {v, w} : pc[u] = "done" /\ u \notin events
  /\ \A w \in twice : keyOf[w] # NoKey => w \in torn

\* "duplicate calls to writeMemory with the same idempotency key will return
\* the existing record result [...] instead of appending duplicate notes"
\* (packages/core/src/memofs/types.ts:309-311).
KeyIsIdempotent ==
  \A v, w \in notes :
    keyOf[v] = keyOf[w] /\ keyOf[v] # NoKey => v = w
=============================================================================
