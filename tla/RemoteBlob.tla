----------------------------- MODULE RemoteBlob -----------------------------
(***************************************************************************)
(* The remote store: RemoteBlobMemoryStore                                 *)
(* (packages/core/src/core/stores/remote-blob-memory-store.ts) over the    *)
(* Turso manifest (packages/adapter-turso/src/turso-metadata-store.ts) and *)
(* the R2 blobs (packages/adapter-r2/src/r2-blob-client.ts).               *)
(*                                                                         *)
(* Several workers serve one project: each has a store of its own, whose   *)
(* withTransaction queues the mutating calls of that worker; among workers *)
(* only the write lock of the database ("BEGIN IMMEDIATE") serialises.     *)
(* Any remote call may fail, its effect kept or not, and a worker may die. *)
(*                                                                         *)
(* A blob is stored under the sha256 of its bytes: here, under its content.*)
(* One action is one remote call, seen where it takes effect.              *)
(***************************************************************************)
EXTENDS Naturals, Sequences

CONSTANTS
  Worker,      \* processes, each with one RemoteBlobMemoryStore
  Task,        \* calls on the stores
  Path,        \* memory paths
  Body,        \* strings a call writes
  workerOf,    \* call -> the worker it runs in
  kindOf,      \* call -> what it is
  pathOf,      \* call -> its path
  bodyOf,      \* call -> what it writes
  Absent,      \* no row for the path
  NoTask       \* no call

ASSUME CallAssumption ==
  /\ workerOf \in [Task -> Worker]
  /\ kindOf \in [Task -> {"read", "write", "append", "delete"}]
  /\ pathOf \in [Task -> Path]
  /\ bodyOf \in [Task -> Body]
ASSUME NoTaskAssumption == NoTask \notin Task

VARIABLES
  rows,        \* path -> the blob key of its committed manifest row
  blobs,       \* keys of the bucket
  writer,      \* the call whose write transaction is open
  tail,        \* worker -> the call whose promise is pendingTx
  prev,        \* call -> the pendingTx it awaits, the local variable current
  ticket,      \* history: call -> its place in the order in which the calls of
               \* its worker came to withTransaction, 0 when it is not in one
  joined,      \* history: worker -> how many calls came to withTransaction
               \* since it started
  pc,          \* call -> where it is
  base         \* call -> the manifest entry it read

queue == <<tail, prev, ticket, joined>>
vars == <<rows, blobs, writer, queue, pc, base>>

-----------------------------------------------------------------------------
Entry == {Absent} \cup Seq(Body)

InTx == {"row", "blob", "put", "upsert", "commit"}
Over == {"done", "failed"}
Pc == {"start", "queued", "answer"} \cup InTx \cup Over

TypeOK ==
  /\ rows \in [Path -> Entry]
  /\ blobs \in SUBSET Seq(Body)
  /\ writer \in Task \cup {NoTask}
  /\ tail \in [Worker -> Task \cup {NoTask}]
  /\ prev \in [Task -> Task \cup {NoTask}]
  /\ ticket \in [Task -> Nat]
  /\ joined \in [Worker -> Nat]
  /\ pc \in [Task -> Pc]
  /\ base \in [Task -> Entry]

Init ==
  /\ rows = [p \in Path |-> Absent]
  /\ blobs = {}
  /\ writer = NoTask
  /\ tail = [k \in Worker |-> NoTask]
  /\ prev = [t \in Task |-> NoTask]
  /\ ticket = [t \in Task |-> 0]
  /\ joined = [k \in Worker |-> 0]
  /\ pc = [t \in Task |-> "start"]
  /\ base = [t \in Task |-> Absent]

Mutating(t) == kindOf[t] # "read"

\* The bytes a write or an append puts: safeReadVia reads a missing row as "".
Merged(t) ==
  IF kindOf[t] = "write" THEN <<bodyOf[t]>>
  ELSE Append(IF base[t] = Absent THEN << >> ELSE base[t], bodyOf[t])

-----------------------------------------------------------------------------
(* withTransaction                                                         *)

Enqueue(t) ==
  /\ pc[t] = "start"
  /\ Mutating(t)
  /\ prev' = [prev EXCEPT ![t] = tail[workerOf[t]]]
  /\ tail' = [tail EXCEPT ![workerOf[t]] = t]
  /\ joined' = [joined EXCEPT ![workerOf[t]] = @ + 1]
  /\ ticket' = [ticket EXCEPT ![t] = joined[workerOf[t]] + 1]
  /\ pc' = [pc EXCEPT ![t] = "queued"]
  /\ UNCHANGED <<rows, blobs, writer, base>>

\* Mutant: a transaction that failed does not let the next one go.
MyTurnAfterSuccess(t) == prev[t] # NoTask => pc[prev[t]] = "done"

\* resolveTx runs in a finally block, whatever became of the transaction.
MyTurn(t) == prev[t] # NoTask => pc[prev[t]] \in Over

\* Mutant: the transaction starts deferred and locks nothing.
BeginDeferred(t) ==
  /\ pc[t] = "queued"
  /\ MyTurn(t)
  /\ pc' = [pc EXCEPT ![t] = CASE kindOf[t] = "append" -> "row"
                               [] kindOf[t] = "write"  -> "put"
                               [] OTHER                -> "upsert"]
  /\ UNCHANGED <<rows, blobs, writer, queue, base>>

\* client.transaction("write")
Begin(t) ==
  /\ pc[t] = "queued"
  /\ MyTurn(t)
  /\ writer = NoTask
  /\ writer' = t
  /\ pc' = [pc EXCEPT ![t] = CASE kindOf[t] = "append" -> "row"
                               [] kindOf[t] = "write"  -> "put"
                               [] OTHER                -> "upsert"]
  /\ UNCHANGED <<rows, blobs, queue, base>>

-----------------------------------------------------------------------------
(* read, and the read of an append inside its transaction.                 *)

\* What a call does once it has the content.
Resume(t) == IF Mutating(t) THEN "put" ELSE "answer"

\* getEntry
GetRow(t) ==
  /\ pc[t] = IF Mutating(t) THEN "row" ELSE "start"
  /\ base' = [base EXCEPT ![t] = rows[pathOf[t]]]
  /\ pc' = [pc EXCEPT ![t] = IF rows[pathOf[t]] = Absent THEN Resume(t)
                                                         ELSE "blob"]
  /\ UNCHANGED <<rows, blobs, writer, queue>>

\* readEntry; a missing blob throws, see Fail.
GetBlob(t) ==
  /\ pc[t] = "blob"
  /\ base[t] \in blobs
  /\ pc' = [pc EXCEPT ![t] = Resume(t)]
  /\ UNCHANGED <<rows, blobs, writer, queue, base>>

-----------------------------------------------------------------------------
(* write, append and delete, inside the transaction.                       *)

\* Mutant: the bytes are not put; the row alone is written.
PutNothing(t) ==
  /\ pc[t] = "put"
  /\ pc' = [pc EXCEPT ![t] = "upsert"]
  /\ UNCHANGED <<rows, blobs, writer, queue, base>>

\* blobClient.put
Put(t) ==
  /\ pc[t] = "put"
  /\ blobs' = blobs \cup {Merged(t)}
  /\ pc' = [pc EXCEPT ![t] = "upsert"]
  /\ UNCHANGED <<rows, writer, queue, base>>

\* upsertEntry or removeEntry, private to the transaction until it commits.
Upsert(t) ==
  /\ pc[t] = "upsert"
  /\ pc' = [pc EXCEPT ![t] = "commit"]
  /\ UNCHANGED <<rows, blobs, writer, queue, base>>

Written(t) == IF kindOf[t] = "delete" THEN Absent ELSE Merged(t)

\* tx.commit() takes effect; its answer is under way.
Commit(t) ==
  /\ pc[t] = "commit"
  /\ rows' = [rows EXCEPT ![pathOf[t]] = Written(t)]
  /\ writer' = NoTask
  /\ pc' = [pc EXCEPT ![t] = "answer"]
  /\ UNCHANGED <<blobs, queue, base>>

\* Calls end; the local variables of the mutating ones are gone.
Settle(T, how) ==
  /\ pc' = [t \in Task |-> IF t \in T THEN how ELSE pc[t]]
  /\ prev' = [t \in Task |-> IF t \in T THEN NoTask ELSE prev[t]]
  /\ ticket' = [t \in Task |-> IF t \in T THEN 0 ELSE ticket[t]]
  /\ base' = [t \in Task |-> IF t \in T /\ Mutating(t) THEN Absent ELSE base[t]]

Answer(t) ==
  /\ pc[t] = "answer"
  /\ Settle({t}, "done")
  /\ UNCHANGED <<rows, blobs, writer, tail, joined>>

-----------------------------------------------------------------------------
(* Failures.                                                               *)

\* The calls that wait for a remote answer, or throw.
AtRemote(t) ==
  \/ pc[t] \in InTx \cup {"answer"}
  \/ pc[t] = "queued" /\ MyTurn(t)
  \/ pc[t] = "start" /\ ~Mutating(t)

\* Mutant: a call that failed leaves its type.
FailUndone(t) ==
  /\ AtRemote(t)
  /\ Settle({t}, "rollback")
  /\ writer' = IF writer = t THEN NoTask ELSE writer
  /\ UNCHANGED <<rows, blobs, tail, joined>>

\* The remote call is rejected: a busy database, a network error, an answer
\* that is lost, a blob that is missing.  The transaction rolls back.
Fail(t) ==
  /\ AtRemote(t)
  /\ Settle({t}, "failed")
  /\ writer' = IF writer = t THEN NoTask ELSE writer
  /\ UNCHANGED <<rows, blobs, tail, joined>>

InFlight(k) == {t \in Task : workerOf[t] = k /\ pc[t] \notin Over \cup {"start"}}

\* A worker dies, and the database drops its transaction.
Crash(k) ==
  /\ InFlight(k) # {}
  /\ Settle(InFlight(k), "failed")
  /\ writer' = IF writer \in InFlight(k) THEN NoTask ELSE writer
  /\ tail' = [tail EXCEPT ![k] = NoTask]
  /\ joined' = [joined EXCEPT ![k] = 0]
  /\ UNCHANGED <<rows, blobs>>

-----------------------------------------------------------------------------
Step(t) ==
  \/ Enqueue(t) \/ Begin(t) \/ GetRow(t) \/ GetBlob(t)
  \/ Put(t) \/ Upsert(t) \/ Commit(t) \/ Answer(t)

Next ==
  \/ \E t \in Task : Step(t) \/ Fail(t)
  \/ \E k \in Worker : Crash(k)

Spec == Init /\ [][Next]_vars

\* Every remote call of a transaction is answered or rejected in the end.
LiveSpec ==
  Spec /\ \A t \in {t \in Task : Mutating(t)} : WF_vars(Step(t) \/ Fail(t))

-----------------------------------------------------------------------------
(* Properties.                                                             *)

\* "A broken reference" (readEntry) never arises: the blob of every committed
\* row is in the bucket, whatever failed between the put and the commit, and
\* whoever shares the content.
RowsHaveBlobs == \A p \in Path : rows[p] # Absent => rows[p] \in blobs

\* A mutating call, from its arrival in withTransaction to the end of it.
InLine(t) == Mutating(t) /\ pc[t] \in {"queued", "answer"} \cup InTx

\* Of the calls of a worker that came to withTransaction, the one that came
\* first may go, and no other: whatever failed before it, and whichever worker
\* died and started again, nobody is overtaken and nobody waits for a call
\* that is over, although pendingTx is the promise of one call only.
FirstGoes ==
  \A t \in Task : InLine(t) =>
    (MyTurn(t) <=> \A s \in Task : InLine(s) /\ workerOf[s] = workerOf[t]
                                     => ticket[t] <= ticket[s])

\* A call that waits in withTransaction settles, also when transactions
\* before it fail or the database is busy.
QueueSettles ==
  \A t \in {t \in Task : Mutating(t)} : pc[t] = "queued" ~> pc[t] \in Over

Status(t) ==
  CASE pc[t] = "done"                       -> "ok"
    [] pc[t] = "failed"                     -> "failed"
    [] pc[t] = "answer"                     -> "applied"
    [] pc[t] = "blob" /\ ~Mutating(t)       -> "applied"
    [] OTHER                                -> "pending"

\* A mutating call takes effect when its transaction commits, a read when it
\* reads the row.
Files == INSTANCE MemoryFiles WITH
           files <- rows,
           status <- [t \in Task |-> Status(t)],
           value <- [t \in Task |-> IF Mutating(t) THEN Absent ELSE base[t]]

\* The store implements MemoryFiles: every call takes effect at one instant,
\* so appends of different workers are never lost, and an error never hides
\* half of a write.
LinearFiles == Files!Spec
=============================================================================
