# A TLA+ model of MemoFS

MemoFS keeps the long-term memory of agents in files: Markdown notes, JSONL
event logs, a graph, a vector index, in a directory of the project or in blobs
behind a manifest. This directory specifies its core in TLA+, checks the
specifications with TLC on small instances, and proves the most important of
their properties with TLAPS for all instances.

Paths below are relative to `src/packages/core/src/` unless they start with
`src/`.

## 1. Inventory

### Stores

| component | state | operations | what makes it correct |
|---|---|---|---|
| Advisory lock, `fs/utils/advisory-lock.ts` | the lock file; per instance `held`, the exit registration, the one acquire in flight | acquire, reclaim of a stale lock, release, release at exit | a running holder is never judged dead; a holder's file is its own; two holders only if a file was removed under one; a dead holder does not block for ever |
| Filesystem store, `fs/node-fs-memory-store.ts`, `src/tooling/utils/src/paths.ts` | the files; `readHashes` (at most 100); `PathLock.queues` | read, write, append, delete, exists, dispose | one mutation of a path at a time; every queued call gets its turn; a checked write drops nothing it did not see |
| Remote store, `core/stores/remote-blob-memory-store.ts` with `src/packages/adapter-turso`, `src/packages/adapter-r2` | manifest rows; blobs by content; `pendingTx` of each worker | read, write, append, delete, exists | each call takes effect at one instant or not at all; no row without its blob; no queued call waits for ever |
| In-memory store, `core/stores/in-memory-store.ts` | a map | the same | the same, trivially: nothing is awaited |
| AgentFS store, `agentfs/stores/agentfs-memory-store.ts` | files of an AgentFS client | the same | per-path order of its read-modify-write append |

### The runtime

| component | state | operations | what makes it correct |
|---|---|---|---|
| Local strategy, `memofs/local-strategy/*.ts`, `memofs/local-strategy.ts` | on disk: `notes.md`, events, archive files, graph, vectors; in memory: known ids, idempotency keys, lexical index, contents for the duplicate guard | writeMemory, archiveDeprecated, restoreMemory, the cold start, recall, snapshots, migration | a memory that was reported created is never lost; recall agrees with the notes; a key makes one note; a sweep and a restore that end have done all of their work |
| Graph store, `graph/stores/fs-graph-store.ts`, `graph/stores/in-memory-graph-store.ts` | node and edge maps; `nodes.jsonl`, `edges.jsonl`; whether it hydrated | upsert, delete, merge, decay, clear, import, query, all through hydrate and persist | no edge without its nodes; the two files can be loaded again; a failed mutator leaves the old pair |
| Consolidation, `graph/consolidation/consolidate.ts`, `memofs/local-strategy/graph.ts` | the plan of one pass | read a page of nodes and of edges, merge duplicates, retire superseded facts | a merge loses no fact; repeated passes come to rest |
| File replication, `memofs/sync/file-replication.ts`, and the cloud client, `cloud-client/` | the files of the device and of the cloud, the cursor; per call its manifest, targets and attempts | pull, pushFull, pre-sync snapshot, request with retries | nothing local is lost by a pull without a snapshot of it; a pull leaves what the cloud listed; a refused or lost commit mixes nothing |
| Recall, rerank, search | vectors, indices | query, ranking | ranking only: no state |
| Trials, security | append-only ledger, warrants; patterns | append, verify; scan | no entry changes once written |

### Sessions and hosts

| component | state | operations | what makes it correct |
|---|---|---|---|
| AgentFS leases, `agentfs/leases/` | one record per store | acquire, extend, release, getLease, withMemoryLease | two owners never work inside their granted time together |
| AgentFS sessions and hooks, `agentfs/session/`, `memofs/local-strategy/client.ts` | working files of the session, its outcome, a checkpoint | prepare (pull, workspace files), complete (durable note, checkpoint, push, clean-up, failure event) | the working files go only when the note of the session is in the cloud; every prepare and complete is answered |
| Server, MCP server, CLI, connectors, adapters | none, or one runtime | dispatch of calls | writes of one runtime are serialised |

### How they interact, and where it is hard

The hosts call a runtime; the runtime calls a store, a graph store and a vector
store, one after another, without a transaction over them. Every operation is an
asynchronous function, so the calls of one process interleave at each `await`,
several processes share a directory through the advisory lock only, several
workers share a remote project through the database only, several devices share
a cloud project through its cursor only, and people edit the Markdown files
meanwhile. The hard behaviours are therefore:

- the windows between a check and the act it allows (stale lock, owner check,
  hash check, idempotency key, lease expiry);
- operations over several stores or files that stop half way (writeMemory, the
  sweep, the restore, the two writes of a graph persist, a pull, a session that
  completes) because a call fails or the process dies, and are run again;
- decisions taken from a page, a manifest or a cursor that was read several awaits
  before they are applied (a consolidation plan, an upload target, a commit);
- errors that are swallowed ("best effort") and so look like an empty file or a
  success;
- promise queues that must go on when a member of them fails.

`PROJECT.json` lists these as hazards, each at its line, with the property that
covers it or the reason why none does.

## 2. Modules

| module | models | main abstractions |
|---|---|---|
| `AdvisoryLock` | the lock over any processes, instances and calls | a process is a pid slot and a generation, which is what the start signature tells apart; the contents of a lock file are owner, generation and signature |
| `FsStore` | one path of the filesystem store | a file is the set of its entries and its own hash; the bound of 100 hashes is `Evict`, possible when `Crowded` |
| `LocalMemory` | writeMemory, sweep, restore, cold start, crash | a note block is named by the write that made it, and may stand in the file more than once; one graph node per memory; each store call is one step, which may fail with or without effect; a graph query returns one page |
| `MemoryFiles` | what a `MemoryStore` promises: linearizable files, errors that may have taken effect | abstract specification |
| `RemoteBlob` | the remote store of several workers | a blob is its content; one step per remote call |
| `Lease` | leases on one store and the calls of withMemoryLease | the clock is a number that ticks |
| `GraphStore` | every mutator of the graph store, hydration, persistence of the pair of files, crash | a record is its id, its ends and its status; an edge is its own id, with the id it had before its first merge |
| `Consolidation` | a consolidation pass, composed with `GraphStore` and its other callers | labels are given by a function of the node; aliases are a relation that a pass finds; any record may have expired |
| `FileSync` | pull and pushFull of one device over the cloud client and the cloud, with the graph writes of the same process | three paths stand for the canonical files; a file is the set of facts in it, and its own hash |
| `AgentSession` | sessions, composed with `FileSync`: a session is two calls of it | a session is the fact that its durable note adds |

Every module has the shape *constants and their assumptions, variables, type
invariant, Init, one action per step of the code, Next, properties*. One action
is the code between two awaits. `MC...` modules give the constants small values;
`..._Proofs` modules hold the theorems. Operators whose comment starts with
"Mutant:" are not part of any specification: each is a plausible bug of the
operator that follows it, which the property it belongs to is known to catch.

### AdvisoryLock

`Mutate` is `acquire()`; the calls of one instance join the acquire in flight.
`TryCreate`, `ReadLock`, `ProbeAlive`, `ProbeStart`, `Reclaim`, `Recreate` and
`Acquired` are the steps of `doAcquire`, in the order of the code, each with the
instance's own copy of what it read (`seen`). `Release`, `ReleaseCheck`,
`ReleaseUnlink`, `ReleaseDone` are `release()`, `held` falling last. `Exit` is
the exit handler, `Crash` a SIGKILL, `Start` a new process in the same pid.
`lost` is a history variable: the instances whose lock file somebody removed.

### FsStore

A task is a call: `read`, `update` (a read, a computation and a whole-file write,
as the archive, the restore, the migrations and the sessions do), `append`,
`delete`. `ReadNothing` is a read that finds no file or fails; an update may catch
that and go on from an empty document, as archive.ts does with every error, while
the hash recorded before stays. `Enqueue`, `MyTurn` and `Leave` are
`PathLock.runExclusive`: `prev` is the promise a task awaits, `tail` the entry of
the map, which is dropped when the queue looks empty. `Compare` is the hash check,
`CompareBlind` the check whose own read failed and was ignored, `Fails` an
exception of the file system. `unguarded` is a history variable: the updates whose
own read found no file or failed, or since whose read another call moved the
recorded hash. `ticket` is another: the place of a task in the order of arrival,
which the code keeps nowhere.

### LocalMemory

`Check` is the part of writeMemory up to its first await, with the three guards
(key, caller's id, near-duplicate). Then one action per store call: `ReadNotes`,
`WriteNotes`, `AppendEvent`, `Index`, `Extract`, `Finish`; `WriteThrows` where an
exception leaves the function, the store call having taken effect or not.
`Sweep...` and `Restore...` are the steps of archiveDeprecated and restoreMemory.
Both ask the graph for nodes without a limit and get a page of `QueryLimit` of
them, whatever their status but none that is past its validUntil or expiresAt
(`Pages`, `expired`; `Fits` says that the graph is no larger than the page). A
restore appends its block whether or not it is in the file already: `twice` holds
the blocks that stand there more than once. `Hydrate` is the part of ensureReady
that rebuilds the maps from the event log and from the notes. `Crash` ends every
call and forgets the maps. A parameter `ok` says whether the call of the step
worked; where the code swallows the failure the step goes on with it.

With `Concurrent = FALSE` a call starts only when no other is in flight, as behind
the dispatch gate of the server and in the loop of the stdio server; with `TRUE`
calls overlap at every await, as they may for a caller of the package.

Four more history variables: `hurt` (some store call failed since the process
started), `unread`, `overwritten` (what a failed read hid) and `torn` (blocks in
notes.md and in an archive file when a sweep or a restore ended before its end).
They appear only in the conditions of properties.

### RemoteBlob and MemoryFiles

`Enqueue`, `MyTurn` and `Begin` are `withTransaction`; `writer` is the write lock
of the database, the only thing that serialises two workers. `Fail` is any
rejected remote call: before `Commit` the transaction rolls back, after it only
the answer is lost. `Crash` ends a worker. The refinement mapping of
`LinearFiles` takes the committed rows for the files; a mutating call takes
effect at `Commit`, a read at `GetRow` - not at `GetBlob`, which is the point of
content-addressed blobs.

### Lease

The manager's methods contain no await, so each is one step. `Release` is the
`finally` block of withMemoryLease. `until` is what a call was granted; `cut` is
a history variable: the running calls whose lease a call of the same owner
deleted or shortened.

### GraphStore and Consolidation

`Change` is the part of every mutator without an await: hydrate on first use,
then the maps. `ExportSnapshot`, `ReadOldNodes`, `WriteNodes`, `WriteEdges` and
`Rollback` are `persist()`, with the snapshot and the old contents it carries in
`snap` and `old`. A merge that moves edges yields once between the upsert of the
moved edges and the deletion of the absorbed node; `gap` is that node and
`DropSource` the rest of the call. A merge that finds two of its edges under one
new id, or an end missing, throws with the edges of the absorbed node already out
of the maps (`Unlinked`), and the model does so too.

`Consolidation` EXTENDS it with one more caller, `Worker`. `QueryNodes` and
`QueryEdges` read one page each, without the expired records, and decide.
`AliasMerges` are the merges that the first loop of findDuplicateMerges plans: one
for every alias of a node that names another, unless that other was absorbed by
then; that the node with the alias was absorbed itself is not looked at, so a pair
may be planned from both its sides and a node absorbed by several. `LabelMerges`
of the rest are those of its second loop. `Merge` takes the planned pairs one at a
time, each through the whole store call; `FetchEdges`, `DeprecateEdges`,
`FetchNodes` and `DeprecateNodes` apply the retirements to the ids that still
exist. A store call that fails ends, and the pass goes on, as in
applyConsolidation. The ids of the plan are those read before the merges, which is
why even such a pass may leave work for the next.

History variables: `durable` (the pair the last complete persist wrote, or that
the restart found), `overlapped` (two calls of one store in flight together),
`torn` (a persist that dropped a node stopped between its two writes, which is
finding 4 below), `quiet` and `settled` (passes that saw every active record, alone,
and in which no store call failed, since the last pass that merged by an alias).

### FileSync and AgentSession

A call of replication first makes the runtime ready, when it is not (`Ready`):
bootstrapMemoryStore, which looks for each canonical file in one step (`Find`) and
writes the template of a missing one in another, over whatever is there by then
(`Make`); then the hydration of the graph, which throws when the pair does not
load. Then come `Snapshot` and `Save` (the pre-sync snapshot: its reads, and its
file; the call aborts when either fails), `Scan` (the manifest, a file at a time in
the canonical order), `Ask` (sync.pull or sync.push), then for a pull `Fetch` (each
file downloaded, its hash compared, the file written), `Remove` and `Reindex` (the
bootstrap once more, its failure ignored), for a push `Upload` (the file read
again, its hash compared) and `Complete` (the commit under the cursor that was
answered: refused with 409 when it moved, committed with its answer received or
lost, or lost on its way). `Retry` counts the requests of one call, `Attempts`
bounds them. `ReadNotes` and `WriteNotes` are a note of the user, which is read,
changed and written back in two steps (appendTimestampedNote); `draft` holds what
its writer read. `LinkNodes` and `LinkEdges` are the two writes of a graph mutation
of the same process, `Elsewhere` the commit of another device, `Restart` a crash.
The files under `snapshots/` are one set, `kept`.

`AgentSession` EXTENDS it: `Prepare` and `Prepared` around a pull, with the working
files after it, which may fail; `CompleteSession` (the durable note of a success,
nothing for an aborted one), `Checkpoint`, then a push, and `Pushed` or
`PushFailed`. `Sync`, `WriteRead`, `WriteBack` and `Link` are what the rest of the
process does. `Sync` is a pull: the push that a client of the facade gets is the
first phase alone, a manifest and a request, which change nothing. `Crash` takes a
session that was completing back to working, where it can be completed again.

History variables: `sent` (facts the documents of the cloud ever had), `late`
(facts written while a pull was past the reads of its snapshot, or a bootstrap
about to write its template over them), `quiet` (pulls during which nothing else
wrote a file), `mixed` (a graph write met a manifest, a pull or a template under
way, one of them stopped half way, a push found a graph file missing, or another
device committed a pair that does not load), `noted` (sessions that appended a
durable note), `raced` (sessions whose note went out of notes.md while they
completed: by a pull, by a template, or by a writer that had read the notes
before). `late`, `mixed` and `raced` name what the code does not protect against;
section 5 says what then happens. A graph write while a push uploads is not among
them: the second hash of upload has to stop that push, and `MirrorLoads` says it
does.

## 3. Runs

| run | instance | shows |
|---|---|---|
| `lock` | 2 pids, 2 processes each in turn, 2 instances, 3 calls | types; `NoLiveHolderJudgedStale`; `HolderOwnsFile`; `ExclusiveUnlessLost`; `ExitFreesLock`; `StaleLockReclaimed` |
| `lock_shared` | the same | a disagreement: two holders after two reclaims of one stale lock |
| `fs` | 2 updates, an append, a delete, 1 human edit, reads may fail, hashes may be evicted | types; `PathExclusive`; `FirstGoes`; `GuardedUpdate`; `QueueDrains` |
| `fs_clobber` | the same, no eviction | a disagreement: an external edit is discarded although the check compared hashes |
| `mem` | 5 writes (a durable one, its transient retry and a durable retry with another content under one key, two transient ones under a caller-chosen id), one call at a time, queries of 1 node, 2 crashes or failures, 1 node that is deprecated or expires | types; `CreatedIsKept`; `RecallMatchesNotes`; `OneNotePerKey`; `SweepCompletes`; `RestoreCompletes` |
| `mem_lost` | one call at a time, 1 failure | a disagreement: one failed read of `notes.md` empties it |
| `remote` | 2 workers, 5 calls, 2 paths, 2 bodies, failures and crashes unbounded | types; `RowsHaveBlobs`; `FirstGoes`; `QueueSettles`; `LinearFiles` |
| `lease` | 2 owners with 2 calls each, ttls 1 to 3, 6 ticks | types; `ExclusiveUnlessCut`; `FreshIsLeased`; `LeaseEndsByOwner` |
| `graph` | 3 entities, 2 under one label, 2 linkable facts, empty or populated files, three relations of aliases; 1 client call, 2 passes, 1 failure or crash, pages of 3 | types; `EndsExist`; `FilesLoad`; `OldOrNew`; `MergeKeepsFacts`; `CleanAfterTwoPasses`; `CallsSettle`; `PassEnds` |
| `graph_torn` | 1 pass, no client, 1 failure or crash | a disagreement: a crash inside a persist leaves a pair that cannot be hydrated |
| `sync` | 1 session, 1 plain caller, 2 calls or notes of the user, 2 events, 2 attempts, another device with a state of its own | types; `MirrorLoads`; `SessionReplicated`; `NothingDroppedUnsaved`; `PullMirrors`; `SessionsAnswer` |
| `sync_stale` | the same | a disagreement: the runtime serves the graph it had before a pull |

Why the bounds are enough for what the runs ask:

- *lock*: every race of the lock is between one process that acts on what it read
  and one that changes the file, so two processes; a reused pid needs two
  generations of one slot; sharing an acquire and disposing during it need two
  calls on one instance.
- *fs*: the state is kept per path, so one path. The queue is dropped and
  recreated with two tasks, and a third that joins meanwhile; there are four. An
  edit and a second writer suffice to make a recorded hash stale. `Unreadable`
adds the reads that fail to those that find no file.
- *mem*: a retry, a retry that says something else, a duplicate, an id used twice
  by its caller and a transient note are all the kinds of write the guards tell
  apart. Two troubles cover a failure followed by a crash in its repair, and a
  restore that is cut off and run again beside a block it has put back already.
  One node that is deprecated, expires or both at once is what a sweep can find
  and what a restore can miss; a second memory with a node makes a graph that does
  not fit into a query of one node.
- *remote*: two workers with two queued calls on one of them, a content that two
  paths share, an append on both sides, a delete and a read.
- *lease*: six ticks let every lease expire, be renewed and expire again.
- *graph*: two nodes of one label and a third that both relate to is the smallest
  graph in which a merge moves one edge and collapses another, and an edge that
  retires one of the two makes the plan of a pass name edges its own merges
  rename. A second pass is what `CleanAfterTwoPasses` needs; the client's call
  may fall into any gap of either pass; one failure meets one persist, and the
  failure of a rollback after that of a write is covered by the proofs, which
  have no bound. Pages of 3 hold the stored graph, and no longer when the client's
  call adds a fourth fact, so truncated pages occur too.
- *sync*: two calls are the prepare and the complete of a session, or one of
  them beside a plain pull or a note of the user, each in every interleaving; two
  events are a graph write and a foreign commit, a commit and a restart, or both
  halves of a race for the graph files; the other device's state lacks the
  documents, so a pull has files to replace and one to remove, whose template the
  bootstrap then writes. Requests to the cloud are lost without a bound other than
  the attempts.

The largest instances have 1.1 million (`mem`), 430,000 (`sync`), 170,000
(`graph`) and 120,000 (`fs`) distinct states.

Deadlock is not checked in any run: in all of them the system stops when its
finite sets of calls are used up (`CHECK_DEADLOCK FALSE`); that calls do not
wait for ever is stated by the liveness properties instead.

### Fairness

- *lock*: weak fairness of the acquire in flight, of the steps of a release, and
  of the client's next write - an event loop runs what is pending, and
  `StaleLockReclaimed` is about a client that keeps writing. Nothing is assumed
  of processes: they need not exit, die or start.
- *fs*: weak fairness of each call's steps, since the event loop resumes a
  pending continuation. Nothing is assumed of the human.
- *remote*: weak fairness of "the call makes its step or fails", that is, every
  remote call is answered or rejected in the end, by the timeout of its client.
  Nothing says that it succeeds.
- *graph*: weak fairness of a pass and of each call in flight: the event loop
  resumes a continuation, a file operation succeeds or fails. Nobody has to call
  or to start a pass.
- *sync*: for each session, weak fairness of the next step of its call or of its
  own: a request ends by its answer or by its timeout (`DEFAULT_TIMEOUT_MS`,
  `SYNC_TIMEOUT_MS`), a file operation answers. Nothing is assumed of the calls of
  other clients, and nothing says that a request succeeds, that a session is
  completed, or that a failed call is tried again.
- *mem* and *lease* need none: they check safety and action properties only.

## 4. Proofs

All theorems hold for any values of the constants that satisfy the named
assumptions of the module (`ASSUME`), which TLC evaluates on each run.

**AdvisoryLock_Proofs.** `HolderOwnsFile` says nothing while an acquire or a
release is between two awaits; the conjuncts of `IInv` do: an instance past its
link owns the file (`LinkedOwnsFile`), a dead process holds and acquires nothing
and a holder does not acquire (`PhaseOK`), what an acquire probes are contents it
has parsed (`SeenOK`), and every generation written down is one that was started
(`GenOK`). The lemma that carries the proof is `DeadStaysDead`: slots only move
on, so a verdict that was right at its probe is still right at the unlink,
whatever processes did between. `IInv` contains `NoLiveHolderJudgedStale` and
`HolderOwnsFile`, and implies `ExclusiveUnlessLost` because the contents of two
instances differ. `ExitUnlinks` needs in addition that a holder stays in the set of
the exit handler until its release starts (`Watched`), also when a slow release of
one call ends after a new acquire of another.

The last section is the part of `StaleLockReclaimed` that is no liveness.
`Ahead` counts down from seven along an acquire and nothing raises it, whatever
other instances do (`AcquiresAreShort`). `NobodyStuck`: calls of one process share
an acquire, and one that joined it is never left behind by it. And an acquire that
ends in a LockHeldError had a reason (`RefusedByTheLiving`, where the start time of
a process can be read, `HasProbe`): no lock file lacks its start time (`Signed`),
so the second probe tells a process from a later one with its pid, and what is
refused for is a process that runs or that ended after the first probe.

**FsStore_Proofs.** The queue of a path exists nowhere: a task knows the promise
it awaits, the map the last one that joined. The invariant (`QueueInv`) says that
the two agree with the order of arrival: who cannot go waits for a task in line
with a smaller ticket and with nobody between them; the entry of the map, when
there is one that is not over, has the greatest ticket of the line; without one
the line is empty. Joining hands out the next ticket, leaving takes the smallest
one out, and dropping the entry is safe because it happens only when the leaver
had the greatest, too. Then exactly the first in line may go (`FirstGoes`, theorem
`InOrder`), which gives `PathExclusive`; the calls never all wait for each other
(`NoDeadlock`: a line that is not empty has a smallest ticket); and no step puts
one call before another (`Fifo`). And no call keeps the path for long: it makes at
most seven steps, whatever fails, and no other call takes it further from its end
(`CallsAreShort`). What `QueueDrains` adds to these is fairness alone.
`GuardedUpdate` follows from an invariant that ties the recorded hash to what a
guarded update has read.

**LocalMemory_Proofs.** The types hold whether calls overlap or not
(`TypeCorrect`). The other theorems take `Concurrent = FALSE`, the mode of the
hosts that run one call at a time: the server's dispatch gate and the loop of the
stdio MCP server. `CreatedIsKept` looks only at the disk, while between two awaits
a call holds a copy of it that it is about to write back. The invariant therefore
says that at most one call is in flight (`OneCall`) and what its copy is worth: it
has every note but those a failed read hid (`WriteInv`, `RestoreInv`); what a
sweep selected is filed before the notes are rewritten (`SweepInv`); an archive
file holds a block of its own memory (`ArchiveInv`), so the block that a restore
puts back is the one it was asked for. There is a lemma per actor for its frame,
its own conjunct and the ids it moves between notes and archive. `SweepsComplete`
and `RestoresComplete` hold for any limit of a query: what the call took is
complete in any case, and that it took all there was needs a graph that fits and a
node that is not expired, as the properties say. `AppendsUnlessHidden` is the
positive half of `NotesAppendOnly`, which the run `mem_lost` refutes: a write
drops no note but those a failed read hid from a call.

**LocalMemory_IndexProofs.** The two properties of `LocalMemory` that follow the
indices and a key through many calls, again for `Concurrent = FALSE`.
`RecallAgrees` needs what a call is about to write back (`CopyInv`: notes.md, or
part of it after a failed store call) and both directions of the agreement: the
index has no memory that is not in the notes (`LexSound`), save those a running
sweep took out of the notes and not yet out of the index (`Leaving`), and it has
every note whose write came as far as indexing it (`LexComplete`). `OneNote`
follows a block wherever it is, in the notes or in an archive file. Without its
event a write has no node and so no sweep takes its block (`EventInv`); the guards
of writeMemory find every block by its key or, when its process died before the
event, by its content (`FoundInv`); so no second write of the key passes them
(`TwinInv`). The
theorem assumes nothing of the callers: the calls under one key may carry any
contents. What that costs is a disjunct of `OneNotePerKey` itself: a retry with
another content of a write whose process died between its note and its event
matches neither the key nor the content, and appends a second note. `Cut` names
the writes in that state and `Allowed` the pairs that the exceptions excuse; the
proof shows that no later step makes an allowed pair a forbidden one. That a note
stands once needs the way of its block (`DoubleInv`): a block that is in notes.md
and has an archive file is being swept or restored, or is in `torn`, and only such a
block can be appended beside itself.

**RemoteBlob_Proofs.** `IInv` joins the types with: a mutating call in its
transaction has the write lock (`WriterInTx`), what an append read is still the
committed row (`BaseIsRow`), and its bytes are in the bucket before its row is
written (`PutFirst`). With them `RowsHaveBlobs` is inductive, and each step of the
store is a step of `MemoryFiles` or none: the commit is the abstract `Apply`. The
queue of a worker has the same invariant as that of a path, among the calls
`Together` on one worker, and is reset by a crash; `InOrder` and `Fifo` are its
theorems. A call that has its turn may still wait for the write lock, whose owner
may be a call of any worker. `NoDeadlock` shows that the two never close a circle:
the owner of the lock is in its transaction (`TxInv`), so it has its turn, and its
next step needs no lock, no other call, and no blob that is not in the bucket.
`CallsAreShort` bounds a call at eight steps: withTransaction tries nothing again.

**Lease_Proofs.** The invariant is `FreshIsLeased` itself with the types; mutual
exclusion and `LeaseEndsByOwner` follow from it, since the map holds one lease.

**GraphStore_Proofs.** Three invariants. `PlanInv`: the types, with every planned
id an id of the model, for any interleaving. `StoreInv`, as long as calls have not
overlapped: at most one call is in flight (`Alone`) and it is in one of the
situations of `Turn` - between mutators the maps load; while a merge yields only
its absorbed node is without edges; a persist's snapshot is the maps, its old
nodes are the file's, and the file it has not written yet still belongs to the
`durable` pair. Every mutator is shown to be a `Mutation`: a step that leaves the
maps loadable and touches no file; the steps of a persist are then treated once
for all of them. `MovedFacts` is the lemma about the algorithm: the edges moved by
a merge keep the ids they had before the first one, and none takes the place of
another. `TwoPassesSettle` adds `CleanInv`: while a pass is undisturbed it is the
only caller (`OnlyPass`); unless it merges by an alias, its plan is exactly the
pairs of one label that are still to merge, less the node it is about to delete
(`DupInv`), so the second pass leaves no such pair; and once a pass has ended, so
that the next has nothing to merge and renames no edge, the plan is exactly the
facts and nodes that are still to retire (`RetireInv`). Later passes and failures
only retire more, which cannot undo either. Where a pass misses an active record,
merges by an alias (which may take a node away from the pairs of its label) or a
merge of it throws, the theorem claims nothing: the code does not promise to come
to rest there.

The last section is the part of `CallsSettle` and `PassEnds` that is no liveness. A
call of the store makes at most six steps (`CallsAreShort`). A pass makes at most
seven and one for each ordered pair of nodes of its page (`PassesAreFinite`),
whatever its calls answer and whatever others do to the graph in between: the
graph is finite (`FiniteInv`, from `StoredAssumption`, which asks it of the graphs a
process may find on disk) and a page has no more than `QueryLimit` nodes
(`PageFits`), so its pairs are a finite set of known size; aliases may have one node absorbed by several, so nothing less holds;
and each merge takes one pair out of the plan, whether it succeeds or throws.
`NobodyStuck`: a pass never waits for a call that nobody makes, nor for a page
that does not exist.

**AgentSession_Proofs.** The theorems are about any number of sessions, callers,
attempts, facts and states of other devices. `Core` joins the types with what a
call in each step knows (`PhaseInv`: what is left to do belongs to its targets,
which are apart from what it removes; a call at rest holds nothing), with the
cloud (`CloudInv`: a path is in it or removed from it, and its documents are
remembered) and with the graph write in flight (`LinkInv`). On it rest four
arguments: `SavedInv` (a pull past the reads of its snapshot finds every document
fact in what it read, in the snapshots or among the late ones, and so does a
template about to be written), `Carried` (a note whose session completes is on
disk, in the manifest, in the plan or in the cloud until its push is through,
unless it went out of the file and is `raced`), `Copies` and `Made` (a pull that
nobody disturbed has brought the files it has ticked off to what the cloud listed;
over all pulls, `MirrorInv`), and `TurnInv` (until `mixed`: the pair on disk loads
or is the work of one writer, whose remaining files make it load; a call that has
read one file of the pair for its manifest finds it unchanged for the other; a
pull aims at a pair that loads; what a push has uploaded is what its manifest
named, because every file passed the hash; and a push whose cursor is still the
cloud's turns the cloud into a pair that loads). Foreign tables are any: one that
does not load sets `mixed`.

The last section of the module is the part of `SessionsAnswer` that is no
liveness. `Fuel` is a number that every step of a call lowers and nothing else
raises, whatever other calls, the user and other devices do (`CallsSpend`), and
that starts at 26 + 2 * `Attempts` at most (`WithinBudget`; two bootstraps of
three files in two steps each are 12 of them): so a pull or push makes at most
that many steps. `NobodyStuck` says that none of them finds nothing to do: a step
over a set of files has one left, a session that pushes has a call that was begun,
and one that waits has a call that is under way or has an outcome.

Only model-checked: every liveness property (`StaleLockReclaimed`, `QueueDrains`,
`QueueSettles`, `CallsSettle`, `PassEnds`, `SessionsAnswer`), which needs fairness
and ENABLED and so is out of this prover's reach. For each of them the rest of the
argument is proved, as said above: every step brings a call nearer to an end of
bounded distance, and none waits for something that nobody does. Every invariant
and every action property of the passing runs is proved.

## 5. Where the code and its documents disagree

Five runs end in a counterexample, each of a sentence of the repository; the
entries are in `PROJECT.json` under `findings`:

1. two processes that reclaim one stale lock can both hold it (`lock_shared`);
2. an external edit can be discarded in spite of the hash check, when another
   read of the same store records the edited file's hash (`fs_clobber`);
3. a single failed read of `notes.md` makes the next write replace it
   (`mem_lost`);
4. a crash between the two writes of a persist that dropped a node leaves edges
   without that node, and every later hydrate throws (`graph_torn`);
5. after a pull the runtime goes on serving the graph it had, and its next
   mutation writes that graph over what was pulled (`sync_stale`).

Other weak spots the models or the reading show, without a run of their own,
because no document promises otherwise or because they need a setting the hosts
of the repository exclude:

- an error of a read that is not "no such file" is taken for an empty document by
  archive.ts (534-545) and safeReadNotesMemory, and the write that follows passes
  the hash check, because the recorded hash still is that of the disk (`unguarded`
  in `FsStore`, `overwritten` in `LocalMemory`).
- the sweep and the restore ask the graph for its nodes without a limit and so see
  the first 100: notes of deprecated nodes beyond them stay in notes.md, nodes of
  restored memories beyond them stay archived (`Fits`).
- the sweep "physically moves each memory whose graph-node `status` is deprecated"
  (`archive.ts:280-281`), but consolidation retires a node with
  `validUntil: plan.now` (`consolidate.ts:252`) and the query of the sweep
  (`archive.ts:325`) leaves out what is past its validUntil
  (`in-memory-graph-store.ts:156`): what consolidation retires is never archived.
  The tests of the sweep write their deprecated nodes without a validUntil. A
  restore passes `validUntil: undefined` (`archive.ts:589`), which the upsert takes
  for the value the node has.
- a restore appends its block without looking for it (`archive.ts:541`), so one that
  is cut off before it deletes the archive file, or fails to (`archive.ts:616`), and
  is run again leaves the note twice; a sweep cut off before it rewrites notes.md
  prepares the same. `torn` names these cases in `OneNotePerKey`.
- calls of one runtime that overlap (a caller of the package without the dispatch
  gate): two writes drop each other's notes, and two with one idempotency key both
  append. A note that is being written while a session completes drops the
  session's note in the same way, and the session then drops its working files
  (`raced`). `LocalMemory` with `Concurrent = TRUE` shows both, with
  `NotesAppendOnly` and `KeyIsIdempotent`.
- a write that is retried under its idempotency key with another content, after
  its process died between its note and its event, appends a second note: the third
  exception of `OneNotePerKey`.
- callers that share an owner id share the lease (`ExclusiveWhileFresh` of
  `Lease`).
- a pre-sync snapshot covers core, notes and events; the other files a pull
  replaces, the graph among them, are in no snapshot. The pull of hybrid mode also
  replaces the list of snapshots itself with the cloud's.
- a push and a pull of one device that run together may upload one graph file of
  each state (`mixed`).
- ensureFile looks for a file and writes its template in two steps
  (`bootstrap-memory-store.ts:145`, `158`): what was written to the file between
  them is gone, in no snapshot (`late`).
- a device whose pair of graph files does not load, after a partial pull, a crash or
  a foreign commit, cannot be repaired by a pull: every sync begins with a snapshot,
  which awaits ensureReady, which throws.
- consolidateMemory asks for nodes and edges without a limit and so gets 100 of
  each, the first in insertion order, retired ones included: in a larger graph the
  duplicates and facts beyond that page are never merged or retired, however many
  passes run.
- a pass may plan one pair by its aliases from both sides, and one node as absorbed
  by several; of these merges the first takes the node away and the others throw,
  which the pass ignores.
- an edge id is a 32-bit hash, and two edges that collide are one edge; the model
  takes an edge for its own id.
- a canonical file removed in the cloud is removed and then created again from
  its template by the bootstrap; the next push sends the template.
- a session that fails in its push and is completed again appends its durable note
  a second time; the failure event is appended after the push, and so reaches the
  cloud with the next one only.
- the command line computes its manifest before its snapshot on a pull, and a push
  that only removes files never commits.
- a restored memory is put back into the lexical index but not into the contents
  of the duplicate guard (`archive.ts:551`), and its id stays known after it is
  archived (`write.ts:86`).

## 6. Not modelled

- I/O errors on the lock file itself; the darwin probe that fails now and then
  (it only makes the lock more cautious).
- The branch of the remote store without `withTransaction`, which the code keeps
  for single writers, and the operational collection of blobs, which is not in
  this repository.
- Of the graph: metadata, weights and their decay as numbers (`DeleteEdges` is
  what decay removes), edge ids as hashes, the reads (paths, expansion, current
  facts, drift), and a merge that is told to keep its source (`deleteSource`).
- Of replication: the single phases of a push that a client may call by itself
  (`pushFull` is modelled, which is what the hooks and the command line use for a
  commit); what the cloud checks of the bytes it is sent, which the comment at
  `file-replication.ts:186` mentions and the model does not rely on;
  `autoBootstrap` switched off, and the bootstrap that a write of the user may
  begin with (`Usable` leaves it to the calls of replication); backoff times, the
  parsing of answers, and the archive and warrant files, which the manifest does
  not list.
- Of sessions: what a checkpoint keeps (it is not counted in `kept`); a successful
  completion without a note or with one that the blocklist stops, and sessions
  whose runtime has no sync hooks, which therefore skip the pull and the push.
- Of the local strategy: updateCoreMemory, document ingestion, the recall
  pipeline, restoring of snapshots, the migration of anchors.
- Text: parsing and formatting of documents, chunking, scoring, embeddings,
  prompts. The properties do not tell contents apart further than equality and
  near-duplication do.
- Adapters, the command line, the MCP server, connectors, the benchmark kit:
  stateless code around single calls. The trials ledger and the in-memory store
  repeat what the modelled stores do. `PROJECT.json` lists each with its reason.

## 7. What remains

In this order:

1. *`LocalMemory` continued*: updateCoreMemory and the restore of snapshots, as
   further whole-file updates of the documents.
2. *The cross-process store*: `AdvisoryLock` and `FsStore` composed, so that the
   writes of two processes meet on one file when the lock is lost.
3. *Graph and memory composed*: `LocalMemory` has the node of a memory as one
   status; over `GraphStore` the sweep would see merged and half-written nodes.
