------------------------------- MODULE FileSync -------------------------------
(***************************************************************************)
(* File replication of one device with MemoFS Cloud                        *)
(* (packages/core/src/memofs/sync/file-replication.ts): pull() and         *)
(* pushFull(), the retries of the cloud client under them                  *)
(* (cloud-client/transport.ts, retry.ts), the snapshot and the bootstrap   *)
(* they begin and end with, and what the same process does to the files    *)
(* meanwhile.  Every await is a step, but for the reads of one snapshot,   *)
(* those of one hydration of the graph and the files a write of the        *)
(* runtime touches beside its own, which are one step each.                *)
(*                                                                         *)
(* Three paths stand for CANONICAL_MEMOFS_FILES, in its order: Notes for   *)
(* the documents a snapshot holds (core, notes, events), Nodes and Edges   *)
(* for the pair of graph files.  A file is the set of facts in it, and its *)
(* hash is that set; a table maps the paths that exist to their files.     *)
(* Files under snapshots/ are left out of the tables: `kept' is what they  *)
(* hold.  The cloud is external: a table, the cursor of its last commit    *)
(* and the paths removed from it.  Other devices appear as Elsewhere.      *)
(***************************************************************************)
EXTENDS Naturals, FiniteSets

CONSTANTS
  Call,          \* operations of this device that replicate
  Fact,
  Written,       \* facts the user writes to the documents
  Notes, Nodes, Edges,
  Remote,        \* tables other devices may commit
  Stored,        \* tables this device may start from
  Attempts,      \* requests per call of the cloud client
  MaxCalls,      \* bound: pulls, completed sessions, notes of the user
  MaxEvents      \* bound: graph writes of the user, commits of other devices,
                 \* failed file operations and transfers, restarts

Path == {Notes, Nodes, Edges}

Table(f) == DOMAIN f \subseteq Path /\ f \in [DOMAIN f -> SUBSET Fact]
Get(f, p) == IF p \in DOMAIN f THEN f[p] ELSE {}
Over(f, g) == [p \in DOMAIN f \cup DOMAIN g |-> IF p \in DOMAIN g THEN g[p] ELSE f[p]]
Put(f, p, s) == [q \in DOMAIN f \cup {p} |-> IF q = p THEN s ELSE f[q]]
Drop(f, S) == [p \in DOMAIN f \ S |-> f[p]]
NoFiles == [p \in {} |-> {}]
(* Mutant: the bootstrap ensures a file that is not canonical. *)
ExtraTemplate == Path \cup {0}

Templates == Path

(* The graph hydrates: every edge has its nodes *)
Loads(f) == Get(f, Edges) \subseteq Get(f, Nodes)
Pair(f) == [p \in {Nodes, Edges} |-> Get(f, p)]

ASSUME PathAssumption ==
  Notes \in Nat /\ Nodes \in Nat /\ Edges \in Nat /\ Notes < Nodes /\ Nodes < Edges
ASSUME TableAssumption ==
  /\ \A f \in Remote \cup Stored : Table(f)
  /\ \A f \in Stored : DOMAIN f = Path   \* bootstrapped
ASSUME WrittenAssumption == Written \subseteq Fact
ASSUME AttemptsAssumption == Attempts \in Nat \ {0}
ASSUME BoundAssumption == MaxCalls \in Nat /\ MaxEvents \in Nat

VARIABLES
  disk,      \* the files of the device
  kept,      \* facts in the snapshot files of its pulls and pushes
  hydrated, cache,  \* its runtime is ready; the graph maps of it
  linking,   \* graph write in flight: the pair it persists
  draft,     \* fact being written to the documents -> what its writer read there
  cloud, cursor, removed,
  pc, op,    \* call -> step; pull or push
  man,       \* call -> manifest
  todo,      \* call -> paths left in this phase
  plan,      \* call -> upload or download targets
  drop,      \* call -> result.removed
  at,        \* call -> result.cursor
  tries,     \* call -> requests that failed
  sent,      \* history: facts Notes ever had in the cloud
  late,      \* history: facts written while a pull was past the reads of its
             \* snapshot, or a template about to be written over them
  quiet,     \* history: pulls during which nothing else wrote a file
  mixed,     \* history: a writer of the graph files overlapped with a call that
             \* reads or writes them, or stopped half way, or a push found one
             \* missing, or another device committed a pair that does not load
  calls, events

runtime == <<hydrated, cache, linking, draft>>
device == <<disk, kept, runtime>>
replica == <<cloud, cursor, removed>>
locals == <<op, man, todo, plan, drop, at, tries>>
history == <<sent, late, quiet, mixed>>
bounds == <<calls, events>>
syncVars == <<device, replica, pc, locals, history, bounds>>

Steps == {"idle", "ready", "create", "snapshot", "save", "scan", "ask", "fetch", "remove",
          "reindex", "recreate", "upload", "commit", "done", "failed"}
Rest == {"idle", "done", "failed"}
Running(c) == pc[c] \notin Rest

(* A loop over files treats them in the canonical order *)
First(c) == CHOOSE p \in todo[c] : \A q \in todo[c] : p <= q

(* A call found a file missing and is about to write its template *)
Making(c) == pc[c] \in {"create", "recreate"}

SyncTypeOK ==
  /\ Table(disk) /\ Table(cache) /\ Table(linking) /\ Table(cloud)
  /\ DOMAIN draft \subseteq Written /\ draft \in [DOMAIN draft -> SUBSET Fact]
  /\ hydrated \in BOOLEAN /\ mixed \in BOOLEAN
  /\ kept \subseteq Fact /\ sent \subseteq Fact /\ late \subseteq Fact
  /\ cursor \in Nat /\ removed \subseteq Path /\ calls \in Nat /\ events \in Nat
  /\ pc \in [Call -> Steps] /\ op \in [Call -> {"pull", "push"}]
  /\ DOMAIN man = Call /\ DOMAIN plan = Call
  /\ \A c \in Call : Table(man[c]) /\ Table(plan[c])
  /\ todo \in [Call -> SUBSET Path] /\ drop \in [Call -> SUBSET Path]
  /\ at \in [Call -> Nat] /\ tries \in [Call -> Nat]
  /\ quiet \subseteq Call

SyncInit ==
  /\ disk \in Stored /\ cloud \in Stored
  /\ kept = {} /\ hydrated = FALSE /\ cache = NoFiles /\ linking = NoFiles /\ draft = NoFiles
  /\ cursor = 0 /\ removed = {}
  /\ calls = 0 /\ events = 0
  /\ pc = [c \in Call |-> "idle"] /\ op = [c \in Call |-> "pull"]
  /\ man = [c \in Call |-> NoFiles] /\ plan = [c \in Call |-> NoFiles]
  /\ todo = [c \in Call |-> {}] /\ drop = [c \in Call |-> {}]
  /\ at = [c \in Call |-> 0] /\ tries = [c \in Call |-> 0]
  /\ sent = Get(cloud, Notes) /\ late = {} /\ quiet = {}
  /\ mixed = ~(Loads(disk) /\ Loads(cloud))

-----------------------------------------------------------------------------
(* The process writes its own files *)

(* A pull that read what its snapshot keeps may still overwrite what is     *)
(* written now, and so may a template whose file was missing a step ago.    *)
Exposed(C) ==
  \E c \in C : \/ op[c] = "pull" /\ pc[c] \in {"save", "scan", "ask", "fetch", "remove"}
               \/ Making(c) /\ First(c) = Notes

(* Another call reads the graph files for its manifest, replaces them, or   *)
(* is about to make one of them                                             *)
Moving(c) ==
  \/ pc[c] = "scan" \/ Making(c)
  \/ op[c] = "pull" /\ pc[c] \in {"ask", "fetch", "remove"}

(* What becomes of the facts a write adds to the documents *)
Documents(S) ==
  /\ disk' = Put(disk, Notes, S)
  /\ late' = IF Exposed(Call) THEN late \cup (S \ Get(disk, Notes)) ELSE late
  /\ quiet' = {}

(* MemoryStore.append: the note of a session, the event of its failure *)
AppendNotes(S) == Documents(Get(disk, Notes) \cup S)

Asked == calls < MaxCalls /\ calls' = calls + 1
Event == events < MaxEvents /\ events' = events + 1 /\ UNCHANGED calls

(* A write of the user makes the runtime ready first.  The bootstrap of one *)
(* that finds files missing is left to the snapshot of a call.              *)
Usable == hydrated \/ DOMAIN disk = Path

(* appendTimestampedNote reads the notes, a failed read being an empty      *)
(* file ...                                                                 *)
ReadNotes(f) ==
  /\ Asked /\ UNCHANGED events /\ Usable /\ f \notin DOMAIN draft
  /\ \E read \in {Get(disk, Notes), {}} : draft' = Put(draft, f, read)
  /\ UNCHANGED <<disk, kept, hydrated, cache, linking, replica, pc, locals, history>>

(* ... and writes them back with its own, or fails to *)
WriteNotes(f) ==
  /\ f \in DOMAIN draft /\ draft' = Drop(draft, {f})
  /\ Documents(draft[f] \cup {f}) \/ UNCHANGED <<disk, late, quiet>>
  /\ UNCHANGED <<kept, hydrated, cache, linking, replica, pc, locals, sent, mixed, bounds>>

(* One graph mutation: it changes the maps, then persists nodes.jsonl ...   *)
LinkNodes(f) ==
  LET maps == IF hydrated THEN cache ELSE Pair(disk)
  IN  /\ Event /\ Usable /\ linking = NoFiles /\ Loads(maps)
      /\ cache' = [p \in {Nodes, Edges} |-> Get(maps, p) \cup {f}] /\ hydrated' = TRUE
      /\ linking' = cache'
      /\ disk' = Put(disk, Nodes, cache'[Nodes])
      /\ quiet' = {}
      /\ mixed' = (mixed \/ \E c \in Call : Moving(c))
      /\ UNCHANGED <<kept, draft, replica, pc, locals, sent, late>>

(* ... and edges.jsonl *)
LinkEdges ==
  /\ linking # NoFiles /\ linking' = NoFiles
  /\ disk' = Put(disk, Edges, linking[Edges])
  /\ quiet' = {}
  /\ mixed' = (mixed \/ \E c \in Call : Moving(c))
  /\ UNCHANGED <<kept, hydrated, cache, draft, replica, pc, locals, sent, late, bounds>>

(* Another device commits a state of its own *)
Elsewhere(f) ==
  /\ Event
  /\ cloud' = f /\ cursor' = cursor + 1
  /\ removed' = (removed \cup DOMAIN cloud) \ DOMAIN f
  /\ sent' = (sent \cup Get(f, Notes))
  /\ mixed' = (mixed \/ ~Loads(f))
  /\ UNCHANGED <<device, pc, locals, late, quiet>>

-----------------------------------------------------------------------------
(* Steps of a call *)

Goto(c, step) == pc' = [pc EXCEPT ![c] = step]
Clear(c) ==
  /\ man' = [man EXCEPT ![c] = NoFiles] /\ plan' = [plan EXCEPT ![c] = NoFiles]
  /\ todo' = [todo EXCEPT ![c] = {}] /\ drop' = [drop EXCEPT ![c] = {}]
  /\ at' = [at EXCEPT ![c] = 0] /\ tries' = [tries EXCEPT ![c] = 0]
Finish(c, step) == Goto(c, step) /\ Clear(c) /\ op' = [op EXCEPT ![c] = "pull"]
Throw(c) == Finish(c, "failed") /\ quiet' = quiet \ {c}

(* Another call moves files, or a graph write is half done *)
Crossed(c) == linking # NoFiles \/ \E d \in Call \ {c} : Moving(d)

(* A runtime that is not ready bootstraps and hydrates first *)
Start(c, kind) ==
  /\ ~Running(c)
  /\ Goto(c, IF hydrated THEN "snapshot" ELSE "ready") /\ op' = [op EXCEPT ![c] = kind]
  /\ todo' = [todo EXCEPT ![c] = IF hydrated THEN {} ELSE Templates]
  /\ quiet' = quiet \ {c}
  /\ UNCHANGED <<disk, runtime, replica, man, plan, drop, at, tries, sent, late, mixed, events>>

(* bootstrapMemoryStore, a file at a time: store.exists ... *)
Find(c, look, make) ==
  /\ pc[c] = look /\ todo[c] # {}
  /\ IF First(c) \in DOMAIN disk
     THEN todo' = [todo EXCEPT ![c] = @ \ {First(c)}] /\ UNCHANGED pc
     ELSE Goto(c, make) /\ UNCHANGED todo
  /\ UNCHANGED <<disk, quiet>>

(* ... and store.write, over whatever is there by now *)
Make(c, look, make) ==
  /\ pc[c] = make /\ Goto(c, look)
  /\ disk' = Put(disk, First(c), {})
  /\ todo' = [todo EXCEPT ![c] = @ \ {First(c)}]
  /\ quiet' = quiet \cap {c}

EnsureFile(c, look, make) ==
  /\ Find(c, look, make) \/ Make(c, look, make)
  /\ UNCHANGED <<op, man, plan, drop, at, tries, bounds>>

(* ensureReady: the bootstrap, then the graph is hydrated, which throws     *)
(* unless it loads                                                          *)
Ready(c) ==
  /\ \/ EnsureFile(c, "ready", "create") /\ UNCHANGED <<hydrated, cache>>
     \/ /\ pc[c] = "ready" /\ todo[c] = {} /\ (hydrated \/ Loads(disk))
        /\ hydrated' = TRUE /\ cache' = IF hydrated THEN cache ELSE Pair(disk)
        /\ Goto(c, "snapshot")
        /\ UNCHANGED <<disk, locals, quiet, bounds>>
     \/ /\ pc[c] = "ready" /\ todo[c] = {} /\ ~hydrated /\ ~Loads(disk)
        /\ Throw(c) /\ UNCHANGED <<disk, hydrated, cache, bounds>>
     \/ /\ pc[c] \in {"ready", "create"} /\ Event
        /\ Throw(c) /\ UNCHANGED <<disk, hydrated, cache>>
  /\ UNCHANGED <<kept, linking, draft, replica, sent, late, mixed>>

(* createPreSyncSnapshot reads core, notes and events; one that is missing  *)
(* may make it throw ...                                                    *)
Snapshot(c) ==
  /\ pc[c] = "snapshot"
  /\ \/ /\ man' = [man EXCEPT ![c] = Put(@, Notes, Get(disk, Notes))]
        /\ Goto(c, "save")
        /\ UNCHANGED <<op, todo, plan, drop, at, tries, quiet, bounds>>
     \/ Notes \notin DOMAIN disk /\ Throw(c) /\ UNCHANGED bounds
     \/ Event /\ Throw(c)
  /\ UNCHANGED <<device, replica, sent, late, mixed>>

BeginScan(c) ==
  /\ Goto(c, "scan")
  /\ man' = [man EXCEPT ![c] = NoFiles] /\ todo' = [todo EXCEPT ![c] = Path]
  /\ quiet' = IF op[c] = "pull" /\ linking = NoFiles THEN quiet \cup {c} ELSE quiet
  /\ UNCHANGED <<op, plan, drop, at, tries>>

(* Mutant: a snapshot that fails does not stop the sync. *)
SaveFailsOpen(c) ==
  /\ pc[c] = "save" /\ BeginScan(c) /\ UNCHANGED bounds
  /\ kept' \in {kept, kept \cup man[c][Notes]}
  /\ UNCHANGED <<disk, runtime, replica, sent, late, mixed>>

(* ... and writes them to its file, or the sync aborts *)
Save(c) ==
  /\ pc[c] = "save"
  /\ \/ kept' = kept \cup man[c][Notes] /\ BeginScan(c) /\ UNCHANGED bounds
     \/ Event /\ Throw(c) /\ UNCHANGED kept
  /\ UNCHANGED <<disk, runtime, replica, sent, late, mixed>>

(* computeLocalManifest, a file at a time in the canonical order *)
Scan(c) ==
  /\ pc[c] = "scan"
  /\ LET p == First(c)
     IN  /\ man' = [man EXCEPT ![c] = IF p \in DOMAIN disk THEN Put(@, p, disk[p]) ELSE @]
         /\ todo' = [todo EXCEPT ![c] = @ \ {p}]
         /\ IF todo[c] = {p} THEN Goto(c, "ask") ELSE UNCHANGED pc
  /\ mixed' = (mixed \/ linking # NoFiles
                     \/ (\E d \in Call \ {c} : pc[d] \in {"fetch", "remove"})
                     \/ (op[c] = "push" /\ ~({Nodes, Edges} \subseteq DOMAIN disk)))
  /\ UNCHANGED <<device, replica, op, plan, drop, at, tries, sent, late, quiet, bounds>>

(* Mutant: the attempts are not counted. *)
RetryForever(c) == UNCHANGED <<pc, locals, quiet>>

(* requestOnce failed with an error shouldRetry accepts *)
Retry(c) ==
  IF tries[c] + 1 < Attempts
  THEN /\ tries' = [tries EXCEPT ![c] = @ + 1]
       /\ UNCHANGED <<pc, op, man, todo, plan, drop, at, quiet>>
  ELSE Throw(c)

(* What the cloud answers: the files of f that differ from those of g *)
Differing(f, g) == {p \in DOMAIN f : p \notin DOMAIN g \/ f[p] # g[p]}
Choose(f, S) == [p \in S |-> f[p]]

(* sync.push, sync.pull: neither changes the cloud, so a lost answer and a  *)
(* lost request are one                                                     *)
Ask(c) ==
  /\ pc[c] = "ask"
  /\ \/ LET wanted == IF op[c] = "push" THEN Choose(man[c], Differing(man[c], cloud))
                                        ELSE Choose(cloud, Differing(cloud, man[c]))
            next == IF op[c] = "push" THEN "upload" ELSE "fetch"
            after == IF op[c] = "push" THEN "commit" ELSE "remove"
        IN  /\ plan' = [plan EXCEPT ![c] = wanted]
            /\ drop' = [drop EXCEPT ![c] = IF op[c] = "pull"
                                           THEN removed \cap DOMAIN man[c] ELSE {}]
            /\ todo' = [todo EXCEPT ![c] = IF wanted = NoFiles THEN drop'[c] ELSE DOMAIN wanted]
            /\ at' = [at EXCEPT ![c] = cursor]
            /\ tries' = [tries EXCEPT ![c] = 0]
            /\ Goto(c, IF DOMAIN wanted = {} THEN after ELSE next)
            /\ UNCHANGED <<op, man, quiet>>
     \/ Retry(c)
  /\ UNCHANGED <<device, replica, sent, late, mixed, bounds>>

(* What a presigned URL may answer instead of the bytes it names *)
Garbled == {}

(* Mutant: the downloaded bytes are written unchecked. *)
AcceptAny(bytes, wanted) == TRUE

Accepted(bytes, wanted) == bytes = wanted

(* fetchText, the check of the hash, store.write: a file at a time, in the  *)
(* order the cloud lists them; any of the three may throw                   *)
Fetch(c) ==
  /\ pc[c] = "fetch"
  /\ \/ \E p \in todo[c] : \E bytes \in {plan[c][p], Garbled} :
          /\ Accepted(bytes, plan[c][p])
          /\ disk' = Put(disk, p, bytes)
          /\ todo' = [todo EXCEPT ![c] = IF @ = {p} THEN drop[c] ELSE @ \ {p}]
          /\ IF todo[c] = {p} THEN Goto(c, "remove") ELSE UNCHANGED pc
          /\ quiet' = quiet \cap {c}
          /\ late' = IF p = Notes /\ Exposed(Call \ {c}) THEN late \cup bytes ELSE late
          /\ mixed' = (mixed \/ Crossed(c))
          /\ UNCHANGED <<op, man, plan, drop, at, tries, bounds>>
     \/ /\ Event /\ Throw(c)
        /\ mixed' = (mixed \/ todo[c] # DOMAIN plan[c])
        /\ UNCHANGED <<disk, late>>
  /\ UNCHANGED <<kept, runtime, replica, sent>>

(* store.delete of the paths removed in the cloud *)
Remove(c) ==
  /\ pc[c] = "remove"
  /\ \/ /\ todo[c] = {} /\ Goto(c, "reindex") /\ todo' = [todo EXCEPT ![c] = Templates]
        /\ UNCHANGED <<disk, op, man, plan, drop, at, tries, quiet, mixed, bounds>>
     \/ /\ \E p \in todo[c] :
             disk' = Drop(disk, {p}) /\ todo' = [todo EXCEPT ![c] = @ \ {p}]
        /\ quiet' = quiet \cap {c}
        /\ mixed' = (mixed \/ Crossed(c))
        /\ UNCHANGED <<pc, op, man, drop, plan, at, tries, bounds>>
     \/ /\ todo[c] # {} /\ Event /\ Throw(c)
        /\ mixed' = TRUE /\ UNCHANGED disk
  /\ UNCHANGED <<kept, runtime, replica, sent, late>>

(* reindex is the bootstrap once more, and its failure is ignored *)
Reindex(c) ==
  /\ \/ EnsureFile(c, "reindex", "recreate")
     \/ /\ \/ pc[c] = "reindex" /\ todo[c] = {} /\ UNCHANGED bounds
           \/ pc[c] \in {"reindex", "recreate"} /\ Event
        /\ Finish(c, "done") /\ quiet' = quiet \ {c} /\ UNCHANGED disk
  /\ UNCHANGED <<kept, runtime, replica, sent, late, mixed>>

(* Mutant: the bytes are put whatever their hash. *)
UploadUnhashed(c) ==
  /\ pc[c] = "upload"
  /\ \E p \in todo[c] \cap DOMAIN disk :
       /\ plan' = [plan EXCEPT ![c] = Put(@, p, disk[p])]
       /\ todo' = [todo EXCEPT ![c] = @ \ {p}]
       /\ IF todo[c] = {p} THEN Goto(c, "commit") ELSE UNCHANGED pc
  /\ UNCHANGED <<op, man, drop, at, tries, quiet, bounds>>
  /\ UNCHANGED <<device, replica, sent, late, mixed>>

(* upload: the file is read again, its hash compared, its bytes put *)
Upload(c) ==
  /\ pc[c] = "upload"
  /\ \E p \in todo[c] :
       \/ /\ p \in DOMAIN disk /\ disk[p] = plan[c][p]
          /\ plan' = [plan EXCEPT ![c] = Put(@, p, disk[p])]
          /\ todo' = [todo EXCEPT ![c] = @ \ {p}]
          /\ IF todo[c] = {p} THEN Goto(c, "commit") ELSE UNCHANGED pc
          /\ UNCHANGED <<op, man, drop, at, tries, quiet, bounds>>
       \/ /\ IF p \in DOMAIN disk /\ disk[p] = plan[c][p] THEN Event ELSE UNCHANGED bounds
          /\ Throw(c)
  /\ UNCHANGED <<device, replica, sent, late, mixed>>

(* The cloud commits what was uploaded unless its cursor moved on *)
Committed(c) ==
  /\ cloud' = Over(cloud, plan[c])
  /\ cursor' = IF plan[c] = NoFiles THEN cursor ELSE cursor + 1
  /\ removed' = removed \ DOMAIN plan[c]
  /\ sent' = (sent \cup Get(plan[c], Notes))

(* sync.complete: refused with 409, or committed with its answer received  *)
(* or lost, or lost on its way                                             *)
Complete(c) ==
  /\ pc[c] = "commit"
  /\ IF at[c] = cursor
     THEN \/ Committed(c) /\ Finish(c, "done") /\ UNCHANGED quiet
          \/ Committed(c) /\ Retry(c)
          \/ Retry(c) /\ UNCHANGED <<replica, sent>>
     ELSE Retry(c) /\ UNCHANGED <<replica, sent>>
  /\ UNCHANGED <<device, late, mixed, bounds>>

SyncStep(c) ==
  \/ Ready(c) \/ Snapshot(c) \/ Save(c) \/ Scan(c) \/ Ask(c)
  \/ Fetch(c) \/ Remove(c) \/ Reindex(c) \/ Upload(c) \/ Complete(c)

(* The process dies and starts again *)
Restart ==
  /\ Event
  /\ hydrated' = FALSE /\ cache' = NoFiles /\ linking' = NoFiles /\ draft' = NoFiles
  /\ pc' = [c \in Call |-> "idle"] /\ op' = [c \in Call |-> "pull"]
  /\ man' = [c \in Call |-> NoFiles] /\ plan' = [c \in Call |-> NoFiles]
  /\ todo' = [c \in Call |-> {}] /\ drop' = [c \in Call |-> {}]
  /\ at' = [c \in Call |-> 0] /\ tries' = [c \in Call |-> 0]
  /\ quiet' = {}
  /\ mixed' = (mixed \/ linking # NoFiles \/ \E c \in Call : pc[c] \in {"fetch", "remove"})
  /\ UNCHANGED <<disk, kept, replica, sent, late>>

-----------------------------------------------------------------------------
(* Properties *)

(* A pull may replace documents of the device, and facts the user wrote     *)
(* here may not be in the cloud's version.  Whatever leaves the documents   *)
(* is in a snapshot of the device (createPreSyncSnapshot fails closed),     *)
(* unless it was written after the reads of the snapshot of a pull then in  *)
(* flight, or over a file a bootstrap had found missing.  A writer that     *)
(* writes back what it read answers for itself (draft changes).             *)
NothingDroppedUnsaved ==
  [][draft' = draft => Get(disk, Notes) \ Get(disk', Notes) \subseteq kept \cup late]_syncVars

(* The pair of graph files in the cloud loads, whatever interleaving of     *)
(* pushes, graph writes, commits of other devices, 409s and lost answers    *)
(* led to it, and so does the pair on disk between pulls, as long as no     *)
(* graph write overlapped with a manifest, a pull or a bootstrap that found *)
(* a file missing (`mixed' lists what ends the promise).  A graph write     *)
(* while a push uploads and commits is no such overlap: its hash check      *)
(* stops the push.                                                          *)
MirrorLoads ==
  ~mixed => /\ Loads(cloud)
            /\ \/ \E c \in Call : pc[c] \in {"fetch", "remove"}
               \/ linking # NoFiles
               \/ Loads(disk)

Pulled(c) == pc[c] \in {"reindex", "recreate"} /\ pc'[c] = "done" /\ c \in quiet

(* What a pull leaves behind when nothing else wrote meanwhile: the         *)
(* manifest it sent, with the files the cloud listed replaced and those it  *)
(* removed gone or empty, garbled downloads never among them.               *)
PullMirrors ==
  [][\A c \in Call : Pulled(c) =>
       LET expected == Over(man[c], plan[c])
       IN  \A p \in Path : Get(disk', p) = IF p \in drop[c] THEN {}
                                           ELSE Get(expected, p)]_syncVars

(* A pull that answered serves what it downloaded: "Re-derive local indexes *)
(* (graph + lexical) from source files (section 10)".                       *)
PulledIsServed ==
  [][\A c \in Call : Pulled(c) /\ hydrated => cache' = Pair(disk')]_syncVars
=============================================================================
