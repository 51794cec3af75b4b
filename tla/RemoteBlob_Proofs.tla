-------------------------- MODULE RemoteBlob_Proofs --------------------------
(***************************************************************************)
(* What holds of the remote store for any number of workers, calls, paths  *)
(* and bodies: no committed row lacks its blob, and the store implements   *)
(* MemoryFiles.  Both rest on the write lock of the database: what an      *)
(* append read is still the row when its transaction commits.              *)
(***************************************************************************)
EXTENDS RemoteBlob, TLAPS, WellFoundedInduction

-----------------------------------------------------------------------------
(* Typing.                                                                 *)

\* What a write or an append puts is a content.
LEMMA MergedType ==
  ASSUME TypeOK, NEW t \in Task
  PROVE  Merged(t) \in Seq(Body)
<1>1. bodyOf[t] \in Body
  BY CallAssumption
<1>2. base[t] \in {Absent} \cup Seq(Body)
  BY DEF TypeOK, Entry
<1>3. base[t] # Absent => base[t] \in Seq(Body)
  BY <1>2
<1>4. CASE kindOf[t] = "write"
  BY <1>1, <1>4 DEF Merged
<1>5. CASE kindOf[t] # "write" /\ base[t] = Absent
  BY <1>1, <1>5 DEF Merged
<1>6. CASE kindOf[t] # "write" /\ base[t] # Absent
  BY <1>1, <1>3, <1>6 DEF Merged
<1>7. QED BY <1>4, <1>5, <1>6

\* Ending calls keeps the types.
LEMMA SettleType ==
  ASSUME TypeOK, NEW T, NEW how \in Over, Settle(T, how)
  PROVE  /\ pc' \in [Task -> Pc]
         /\ prev' \in [Task -> Task \cup {NoTask}]
         /\ ticket' \in [Task -> Nat]
         /\ base' \in [Task -> Entry]
BY DEF TypeOK, Settle, Pc, Over, Entry

\* Every reachable state of the remote store is well typed.
THEOREM TypeCorrect == Spec => []TypeOK
<1> USE CallAssumption
<1>1. Init => TypeOK
  BY DEF Init, TypeOK, Entry, Pc
<1>2. ASSUME TypeOK, [Next]_vars PROVE TypeOK'
  <2> USE <1>2 DEF TypeOK, queue
  <2>1. ASSUME NEW t \in Task, Step(t) PROVE TypeOK'
    <3>1. CASE Enqueue(t)
      BY <3>1 DEF Enqueue, Pc
    <3>2. CASE Begin(t)
      BY <3>2 DEF Begin, Pc, InTx
    <3>3. CASE GetRow(t)
      BY <3>3 DEF GetRow, Resume, Pc, InTx
    <3>4. CASE GetBlob(t)
      BY <3>4 DEF GetBlob, Resume, Pc, InTx
    <3>5. CASE Put(t)
      BY <3>5, MergedType DEF Put, Pc, InTx
    <3>6. CASE Upsert(t)
      BY <3>6 DEF Upsert, Pc, InTx
    <3>7. CASE Commit(t)
      <4>1. Written(t) \in Entry
        BY MergedType DEF Written, Entry
      <4>2. QED BY <3>7, <4>1 DEF Commit, Pc
    <3>8. CASE Answer(t)
      <4>1. "done" \in Over
        BY DEF Over
      <4>2. QED BY <3>8, <4>1, SettleType DEF Answer
    <3>9. QED BY <2>1, <3>1, <3>2, <3>3, <3>4, <3>5, <3>6, <3>7, <3>8 DEF Step
  <2>2. "failed" \in Over
    BY DEF Over
  <2>3. ASSUME NEW t \in Task, Fail(t) PROVE TypeOK'
    BY <2>2, <2>3, SettleType DEF Fail
  <2>4. ASSUME NEW k \in Worker, Crash(k) PROVE TypeOK'
    BY <2>2, <2>4, SettleType DEF Crash
  <2>5. CASE UNCHANGED vars
    BY <2>5 DEF vars
  <2>6. QED BY <2>1, <2>3, <2>4, <2>5 DEF Next
<1>3. QED BY <1>1, <1>2, PTL DEF Spec

-----------------------------------------------------------------------------
(* The inductive invariant.                                                *)

\* A mutating call inside its transaction has the write lock, and a read is
\* never in one.
WriterInTx ==
  \A t \in Task :
    /\ Mutating(t) /\ pc[t] \in InTx => writer = t
    /\ ~Mutating(t) => pc[t] \in {"start", "blob", "answer"} \cup Over

\* What an append read is still there.
BaseIsRow ==
  \A t \in Task :
    kindOf[t] = "append" /\ pc[t] \in {"blob", "put", "upsert", "commit"}
      => base[t] = rows[pathOf[t]]

\* The bytes are in the bucket before the row is written.
PutFirst ==
  \A t \in Task :
    kindOf[t] # "delete" /\ Mutating(t) /\ pc[t] \in {"upsert", "commit"}
      => Merged(t) \in blobs

IInv == TypeOK /\ WriterInTx /\ BaseIsRow /\ PutFirst /\ RowsHaveBlobs

\* Calls that end keep the invariant, when the others keep the write lock.
LEMMA SettleInv ==
  ASSUME IInv, NEW T \in SUBSET Task, NEW how \in Over, Settle(T, how),
         \A s \in Task \ T : writer = s => writer' = s,
         UNCHANGED <<rows, blobs>>
  PROVE  WriterInTx' /\ BaseIsRow' /\ PutFirst' /\ RowsHaveBlobs'
<1> USE DEF IInv, TypeOK
<1>0. \A t \in Task : /\ t \in T => pc'[t] = how
                      /\ t \notin T => pc'[t] = pc[t] /\ base'[t] = base[t]
  BY DEF Settle
<1>1. how \notin InTx /\ how \in Over
  BY DEF InTx, Over
<1>2. WriterInTx'
  BY <1>0, <1>1 DEF WriterInTx, Mutating
<1>3. BaseIsRow'
  BY <1>0, <1>1 DEF BaseIsRow, InTx
<1>4. PutFirst'
  <2>1. \A t \in Task : t \notin T => Merged(t)' = Merged(t)
    BY <1>0 DEF Merged
  <2>2. QED BY <1>0, <1>1, <2>1 DEF PutFirst, InTx, Mutating
<1>5. RowsHaveBlobs'
  BY DEF RowsHaveBlobs
<1>6. QED BY <1>2, <1>3, <1>4, <1>5

\* The invariant is inductive.
LEMMA InductiveStep ==
  ASSUME IInv, TypeOK', [Next]_vars
  PROVE  IInv'
<1> USE CallAssumption, NoTaskAssumption DEF IInv, TypeOK
<1>1. ASSUME NEW t \in Task, Enqueue(t) PROVE IInv'
  BY <1>1 DEF Enqueue, WriterInTx, BaseIsRow, PutFirst, RowsHaveBlobs,
              Mutating, InTx, Over, Merged
<1>2. ASSUME NEW t \in Task, Begin(t) PROVE IInv'
  <2>1. Mutating(t)
    BY <1>2 DEF Begin, WriterInTx, Over
  <2>2. \A s \in Task : Mutating(s) => pc[s] \notin InTx
    BY <1>2 DEF Begin, WriterInTx
  <2>3. pc'[t] \in {"row", "put", "upsert"} /\ kindOf[t] # "delete" => pc'[t] # "upsert"
    BY <1>2, <2>1 DEF Begin, Mutating
  <2>4. kindOf[t] = "append" => pc'[t] = "row"
    BY <1>2 DEF Begin
  <2>5. \A s \in Task : s # t => pc'[s] = pc[s]
    BY <1>2 DEF Begin
  <2>6. WriterInTx'
    BY <1>2, <2>1, <2>2, <2>5 DEF Begin, WriterInTx, Mutating, InTx
  <2>7. BaseIsRow'
    BY <1>2, <2>2, <2>4, <2>5 DEF Begin, BaseIsRow, Mutating, InTx
  <2>8. PutFirst'
    BY <1>2, <2>2, <2>3, <2>5 DEF Begin, PutFirst, Mutating, InTx
  <2>9. QED BY <1>2, <2>6, <2>7, <2>8 DEF Begin, RowsHaveBlobs
<1>3. ASSUME NEW t \in Task, GetRow(t) PROVE IInv'
  <2>1. pc'[t] \in {"blob", "put", "answer"} /\ base'[t] = rows[pathOf[t]]
    BY <1>3 DEF GetRow, Resume
  <2>2. \A s \in Task : s # t => pc'[s] = pc[s] /\ base'[s] = base[s]
    BY <1>3 DEF GetRow
  <2>3. WriterInTx'
    BY <1>3, <2>1, <2>2 DEF GetRow, WriterInTx, Resume, Mutating, InTx
  <2>4. BaseIsRow'
    BY <1>3, <2>1, <2>2 DEF GetRow, BaseIsRow
  <2>5. PutFirst'
    BY <1>3, <2>1, <2>2 DEF GetRow, PutFirst, Merged, Mutating
  <2>6. QED BY <1>3, <2>3, <2>4, <2>5 DEF GetRow, RowsHaveBlobs
<1>4. ASSUME NEW t \in Task, GetBlob(t) PROVE IInv'
  <2>1. WriterInTx'
    BY <1>4 DEF GetBlob, WriterInTx, Resume, Mutating, InTx
  <2>2. BaseIsRow'
    BY <1>4 DEF GetBlob, BaseIsRow, Resume
  <2>3. PutFirst'
    BY <1>4 DEF GetBlob, PutFirst, Merged, Mutating, Resume
  <2>4. QED BY <1>4, <2>1, <2>2, <2>3 DEF GetBlob, RowsHaveBlobs
<1>5. ASSUME NEW t \in Task, Put(t) PROVE IInv'
  <2>1. WriterInTx'
    BY <1>5 DEF Put, WriterInTx, Mutating, InTx, Over
  <2>2. BaseIsRow'
    BY <1>5 DEF Put, BaseIsRow
  <2>3. PutFirst'
    BY <1>5 DEF Put, PutFirst, Merged, Mutating
  <2>4. RowsHaveBlobs'
    BY <1>5 DEF Put, RowsHaveBlobs
  <2>5. QED BY <2>1, <2>2, <2>3, <2>4
<1>6. ASSUME NEW t \in Task, Upsert(t) PROVE IInv'
  <2>1. WriterInTx'
    BY <1>6 DEF Upsert, WriterInTx, Mutating, InTx, Over
  <2>2. BaseIsRow'
    BY <1>6 DEF Upsert, BaseIsRow
  <2>3. PutFirst'
    BY <1>6 DEF Upsert, PutFirst, Merged, Mutating
  <2>4. QED BY <1>6, <2>1, <2>2, <2>3 DEF Upsert, RowsHaveBlobs
<1>7. ASSUME NEW t \in Task, Commit(t) PROVE IInv'
  <2>1. Mutating(t) /\ writer = t
    BY <1>7 DEF Commit, WriterInTx, InTx, Over
  <2>2. \A s \in Task : s # t => /\ Mutating(s) => pc[s] \notin InTx
                                 /\ pc'[s] = pc[s]
    BY <1>7, <2>1 DEF Commit, WriterInTx
  <2>3. pc'[t] = "answer" /\ base' = base
    BY <1>7 DEF Commit
  <2>4. WriterInTx'
    BY <2>1, <2>2, <2>3 DEF WriterInTx, Mutating, InTx
  <2>5. BaseIsRow'
    BY <2>2, <2>3 DEF BaseIsRow, Mutating, InTx
  <2>6. PutFirst'
    BY <2>2, <2>3 DEF PutFirst, Mutating, InTx
  <2>7. Written(t) # Absent => Written(t) \in blobs
    BY <1>7, <2>1 DEF Commit, PutFirst, Written
  <2>8. RowsHaveBlobs'
    BY <1>7, <2>7 DEF Commit, RowsHaveBlobs
  <2>9. QED BY <2>4, <2>5, <2>6, <2>8
<1>8. ASSUME NEW t \in Task, Answer(t) PROVE IInv'
  <2>1. \A s \in Task \ {t} : writer = s => writer' = s
    BY <1>8 DEF Answer
  <2>2. "done" \in Over
    BY DEF Over
  <2>3. QED BY <1>8, <2>1, <2>2, SettleInv DEF Answer
<1>9. ASSUME NEW t \in Task, Fail(t) PROVE IInv'
  <2>1. "failed" \in Over /\ \A s \in Task \ {t} : writer = s => writer' = s
    BY <1>9 DEF Over, Fail
  <2>2. QED BY <1>9, <2>1, SettleInv DEF Fail
<1>10. ASSUME NEW k \in Worker, Crash(k) PROVE IInv'
  <2>1. /\ "failed" \in Over
        /\ InFlight(k) \in SUBSET Task
        /\ \A s \in Task \ InFlight(k) : writer = s => writer' = s
    BY <1>10 DEF Over, InFlight, Crash
  <2>2. QED BY <1>10, <2>1, SettleInv DEF Crash
<1>11. CASE UNCHANGED vars
  BY <1>11 DEF vars, WriterInTx, BaseIsRow, PutFirst, RowsHaveBlobs, Merged,
               Mutating
<1>12. QED
  BY <1>1, <1>2, <1>3, <1>4, <1>5, <1>6, <1>7, <1>8, <1>9, <1>10, <1>11
  DEF Next, Step

\* The inductive invariant holds in every reachable state.
THEOREM Invariance == Spec => []IInv
<1>1. Init => IInv
  BY TypeCorrect DEF Init, IInv, TypeOK, Entry, Pc, WriterInTx, BaseIsRow,
                     PutFirst, RowsHaveBlobs, InTx, Over
<1>2. QED BY <1>1, TypeCorrect, InductiveStep, PTL DEF Spec

\* The blob of every committed row is in the bucket.
THEOREM NoBrokenReference == Spec => []RowsHaveBlobs
BY Invariance, PTL DEF IInv

-----------------------------------------------------------------------------
(* The queue of a worker.  The tickets say in which order its calls came to *)
(* withTransaction; what the code keeps, tail and prev, agrees with them.   *)

Together(s, t) == InLine(s) /\ InLine(t) /\ workerOf[s] = workerOf[t]

QueueInv ==
  /\ \A s, t \in Task : Together(s, t) /\ ticket[s] = ticket[t] => s = t
  /\ \A t \in Task : InLine(t) => ticket[t] <= joined[workerOf[t]]
  /\ \A k \in Worker : tail[k] # NoTask =>
       workerOf[tail[k]] = k /\ (InLine(tail[k]) \/ pc[tail[k]] \in Over)
  /\ \A s \in Task : InLine(s) =>
       /\ tail[workerOf[s]] # NoTask /\ InLine(tail[workerOf[s]])
       /\ ticket[s] <= ticket[tail[workerOf[s]]]
  /\ \A t \in Task : InLine(t) /\ ~MyTurn(t) =>
       Together(prev[t], t) /\ ticket[prev[t]] < ticket[t]
  /\ \A s, t \in Task : Together(s, t) /\ ticket[s] < ticket[t] =>
       /\ prev[t] \in Task /\ Together(prev[t], t)
       /\ ticket[s] <= ticket[prev[t]] /\ ticket[prev[t]] < ticket[t]
  /\ \A t \in Task : InLine(t) /\ pc[t] # "queued" => MyTurn(t)

\* A call that is in the line is neither to come nor over.
LEMMA InLineGoesOn == \A t : InLine(t) => pc[t] # "start" /\ pc[t] \notin Over
BY DEF InLine, InTx, Over

\* Who is first in the line of its worker is who may go.
LEMMA FirstInLine == ASSUME TypeOK, QueueInv PROVE FirstGoes
<1> USE CallAssumption DEF TypeOK
<1> SUFFICES ASSUME NEW t \in Task, InLine(t)
             PROVE  MyTurn(t) <=>
                      \A s \in Task : InLine(s) /\ workerOf[s] = workerOf[t]
                                        => ticket[t] <= ticket[s]
  BY DEF FirstGoes
<1>1. ASSUME MyTurn(t), NEW s \in Task, InLine(s), workerOf[s] = workerOf[t]
      PROVE  ticket[t] <= ticket[s]
  <2>1. SUFFICES ASSUME ticket[s] < ticket[t] PROVE FALSE
    OBVIOUS
  <2>2. prev[t] \in Task /\ InLine(prev[t])
    BY <1>1, <2>1 DEF QueueInv, Together
  <2>3. QED BY <1>1, <2>2, InLineGoesOn, NoTaskAssumption DEF MyTurn
<1>2. ASSUME ~MyTurn(t),
             \A s \in Task : InLine(s) /\ workerOf[s] = workerOf[t]
                               => ticket[t] <= ticket[s]
      PROVE  FALSE
  <2>1. Together(prev[t], t) /\ ticket[prev[t]] < ticket[t]
    BY <1>2 DEF QueueInv
  <2>2. prev[t] \in Task
    BY <1>2 DEF MyTurn
  <2>3. QED BY <1>2, <2>1, <2>2 DEF Together
<1>3. QED BY <1>1, <1>2

\* Steps that move no call in or out of the line keep its order.
LEMMA SameQueue ==
  ASSUME TypeOK, QueueInv, UNCHANGED queue,
         \A t \in Task : InLine(t)' <=> InLine(t),
         \A t \in Task : pc[t] \in Over => pc'[t] \in Over,
         \A t \in Task : InLine(t)' /\ pc'[t] # "queued" => MyTurn(t)
  PROVE  QueueInv'
<1> USE CallAssumption DEF TypeOK, queue
<1>1. \A t \in Task : MyTurn(t) => MyTurn(t)'
  BY DEF MyTurn
<1>2. \A s, t \in Task : Together(s, t)' <=> Together(s, t)
  BY DEF Together
<1>3. \A s, t \in Task : Together(s, t)' /\ ticket'[s] = ticket'[t] => s = t
  BY <1>2 DEF QueueInv
<1>4. \A t \in Task : InLine(t)' => ticket'[t] <= joined'[workerOf[t]]
  BY DEF QueueInv
<1>5. ASSUME NEW k \in Worker, tail'[k] # NoTask
      PROVE  workerOf[tail'[k]] = k /\ (InLine(tail[k])' \/ pc'[tail'[k]] \in Over)
  <2>1. tail[k] \in Task /\ tail'[k] = tail[k]
    BY <1>5
  <2>2. workerOf[tail[k]] = k /\ (InLine(tail[k]) \/ pc[tail[k]] \in Over)
    BY <2>1, <1>5 DEF QueueInv
  <2>3. QED BY <2>1, <2>2
<1>6. ASSUME NEW s \in Task, InLine(s)'
      PROVE  /\ tail'[workerOf[s]] # NoTask /\ InLine(tail[workerOf[s]])'
             /\ ticket'[s] <= ticket'[tail'[workerOf[s]]]
  <2>1. /\ tail[workerOf[s]] # NoTask /\ InLine(tail[workerOf[s]])
        /\ ticket[s] <= ticket[tail[workerOf[s]]]
    BY <1>6 DEF QueueInv
  <2>2. tail[workerOf[s]] \in Task
    BY <2>1
  <2>3. QED BY <2>1, <2>2
<1>7. ASSUME NEW t \in Task, InLine(t)', ~MyTurn(t)'
      PROVE  Together(prev[t], t)' /\ ticket'[prev'[t]] < ticket'[t]
  <2>1. Together(prev[t], t) /\ ticket[prev[t]] < ticket[t]
    BY <1>1, <1>7 DEF QueueInv
  <2>2. prev[t] \in Task
    BY <1>7 DEF MyTurn
  <2>3. QED BY <2>1, <2>2 DEF Together
<1>8. ASSUME NEW s \in Task, NEW t \in Task, Together(s, t)', ticket'[s] < ticket'[t]
      PROVE  /\ prev'[t] \in Task /\ Together(prev[t], t)'
             /\ ticket'[s] <= ticket'[prev'[t]] /\ ticket'[prev'[t]] < ticket'[t]
  <2>1. /\ prev[t] \in Task /\ Together(prev[t], t)
        /\ ticket[s] <= ticket[prev[t]] /\ ticket[prev[t]] < ticket[t]
    BY <1>2, <1>8 DEF QueueInv
  <2>2. QED BY <2>1 DEF Together
<1>9. QED BY <1>1, <1>3, <1>4, <1>5, <1>6, <1>7, <1>8 DEF QueueInv

\* Calls that end were the first of their line.
LEMMA LeaveQueue ==
  ASSUME TypeOK, QueueInv, NEW T \in SUBSET Task, NEW how \in Over, Settle(T, how),
         \A t \in T : \A s \in Task \ T : Together(s, t) => ticket[t] < ticket[s],
         \A k \in Worker :
           \/ tail'[k] = tail[k] /\ joined'[k] = joined[k]
           \/ tail'[k] = NoTask /\ \A s \in Task : workerOf[s] = k => ~InLine(s)'
  PROVE  QueueInv'
<1> USE CallAssumption, NoTaskAssumption DEF TypeOK
<1>1. \A s \in Task :
        /\ s \in T => pc'[s] = how
        /\ s \notin T => /\ pc'[s] = pc[s] /\ prev'[s] = prev[s]
                         /\ ticket'[s] = ticket[s]
  BY DEF Settle
<1>2. \A s \in Task : InLine(s)' <=> InLine(s) /\ s \notin T
  BY <1>1 DEF InLine, InTx, Over, Mutating
<1>3. \A s, u \in Task : Together(s, u)' <=> Together(s, u) /\ s \notin T /\ u \notin T
  BY <1>2 DEF Together
<1>4. \A s \in Task : InLine(s)' =>
        tail'[workerOf[s]] = tail[workerOf[s]] /\ joined'[workerOf[s]] = joined[workerOf[s]]
  OBVIOUS
<1>5. \A s, u \in Task : Together(s, u)' /\ ticket'[s] = ticket'[u] => s = u
  BY <1>1, <1>3 DEF QueueInv
<1>6. \A s \in Task : InLine(s)' => ticket'[s] <= joined'[workerOf[s]]
  BY <1>1, <1>2, <1>4 DEF QueueInv
<1>7. ASSUME NEW k \in Worker, tail'[k] # NoTask
      PROVE  workerOf[tail'[k]] = k /\ (InLine(tail[k])' \/ pc'[tail'[k]] \in Over)
  <2>1. tail'[k] = tail[k] /\ tail[k] \in Task
    BY <1>7
  <2>2. workerOf[tail[k]] = k /\ (InLine(tail[k]) \/ pc[tail[k]] \in Over)
    BY <1>7, <2>1 DEF QueueInv
  <2>3. QED BY <1>1, <1>2, <2>1, <2>2
<1>8. ASSUME NEW s \in Task, InLine(s)'
      PROVE  /\ tail'[workerOf[s]] # NoTask /\ InLine(tail[workerOf[s]])'
             /\ ticket'[s] <= ticket'[tail'[workerOf[s]]]
  <2> DEFINE u == tail[workerOf[s]]
  <2>1. s \notin T /\ InLine(s) /\ tail'[workerOf[s]] = u
    BY <1>2, <1>4, <1>8
  <2>2. u \in Task /\ InLine(u) /\ ticket[s] <= ticket[u] /\ workerOf[u] = workerOf[s]
    BY <2>1 DEF QueueInv
  <2>3. u \notin T
    BY <2>1, <2>2 DEF Together
  <2>4. QED BY <1>1, <1>2, <2>1, <2>2, <2>3
<1>9. ASSUME NEW u \in Task, InLine(u)', ~MyTurn(u)'
      PROVE  Together(prev[u], u)' /\ ticket'[prev'[u]] < ticket'[u]
  <2>1. u \notin T /\ InLine(u) /\ prev'[u] = prev[u]
    BY <1>1, <1>2, <1>9
  <2>2. prev[u] \in Task /\ prev[u] # NoTask /\ pc'[prev[u]] \notin Over
    BY <1>9, <2>1 DEF MyTurn
  <2>3. prev[u] \notin T /\ pc[prev[u]] \notin Over
    BY <1>1, <2>2
  <2>4. ~MyTurn(u)
    BY <2>2, <2>3 DEF MyTurn
  <2>5. Together(prev[u], u) /\ ticket[prev[u]] < ticket[u]
    BY <2>1, <2>4 DEF QueueInv
  <2>6. InLine(prev[u])' /\ workerOf[prev[u]] = workerOf[u]
    BY <1>2, <2>1, <2>2, <2>3, <2>5 DEF Together
  <2>7. ticket'[prev[u]] = ticket[prev[u]] /\ ticket'[u] = ticket[u]
    BY <1>1, <2>1, <2>2, <2>3
  <2>8. QED BY <1>9, <2>1, <2>5, <2>6, <2>7 DEF Together
<1>10. ASSUME NEW s \in Task, NEW u \in Task, Together(s, u)', ticket'[s] < ticket'[u]
       PROVE  /\ prev'[u] \in Task /\ Together(prev[u], u)'
              /\ ticket'[s] <= ticket'[prev'[u]] /\ ticket'[prev'[u]] < ticket'[u]
  <2>1. /\ s \notin T /\ u \notin T /\ Together(s, u) /\ prev'[u] = prev[u]
        /\ ticket'[s] = ticket[s] /\ ticket'[u] = ticket[u]
    BY <1>1, <1>3, <1>10
  <2>2. /\ prev[u] \in Task /\ Together(prev[u], u)
        /\ ticket[s] <= ticket[prev[u]] /\ ticket[prev[u]] < ticket[u]
    BY <1>10, <2>1 DEF QueueInv
  <2>3. prev[u] \notin T
    BY <2>1, <2>2 DEF Together
  <2>4. InLine(prev[u])' /\ ticket'[prev[u]] = ticket[prev[u]]
    BY <1>1, <1>2, <2>1, <2>2, <2>3 DEF Together
  <2>5. InLine(u)' /\ workerOf[prev[u]] = workerOf[u]
    BY <1>10, <2>2 DEF Together
  <2>6. QED BY <2>1, <2>2, <2>4, <2>5 DEF Together
<1>11. \A u \in Task : InLine(u)' /\ pc'[u] # "queued" => MyTurn(u)'
  <2>1. SUFFICES ASSUME NEW u \in Task, InLine(u)', pc'[u] # "queued" PROVE MyTurn(u)'
    OBVIOUS
  <2>2. MyTurn(u) /\ prev'[u] = prev[u]
    BY <1>1, <1>2, <2>1 DEF QueueInv
  <2>3. QED BY <1>1, <2>2 DEF MyTurn
<1>12. QED BY <1>5, <1>6, <1>7, <1>8, <1>9, <1>10, <1>11 DEF QueueInv

\* A call that joins is the last of its line.
LEMMA JoinQueue ==
  ASSUME TypeOK, QueueInv, NEW t \in Task, Enqueue(t)
  PROVE  QueueInv'
<1> USE CallAssumption, NoTaskAssumption DEF TypeOK
<1> DEFINE k == workerOf[t]
<1>1. /\ pc[t] = "start" /\ pc'[t] = "queued" /\ Mutating(t)
      /\ prev'[t] = tail[k] /\ tail'[k] = t
      /\ joined'[k] = joined[k] + 1 /\ ticket'[t] = joined[k] + 1
  BY DEF Enqueue
<1>2. /\ \A s \in Task : s # t => /\ pc'[s] = pc[s] /\ prev'[s] = prev[s]
                                  /\ ticket'[s] = ticket[s]
      /\ \A j \in Worker : j # k => tail'[j] = tail[j] /\ joined'[j] = joined[j]
  BY DEF Enqueue
<1>3. /\ ~InLine(t) /\ InLine(t)' /\ pc[t] \notin Over
      /\ \A s \in Task : s # t => (InLine(s)' <=> InLine(s))
  BY <1>1, <1>2 DEF InLine, InTx, Over, Mutating
<1>4. \A s, u \in Task : s # t /\ u # t => (Together(s, u)' <=> Together(s, u))
  BY <1>3 DEF Together
<1>5. tail[k] # NoTask => /\ tail[k] \in Task /\ workerOf[tail[k]] = k /\ tail[k] # t
                          /\ InLine(tail[k]) \/ pc[tail[k]] \in Over
  BY <1>3 DEF QueueInv
<1>6. \A s \in Task : s # t /\ InLine(s)' /\ workerOf[s] = k =>
        /\ InLine(s) /\ tail[k] \in Task /\ InLine(tail[k]) /\ tail[k] # t
        /\ workerOf[tail[k]] = k
        /\ ticket[s] <= ticket[tail[k]] /\ ticket[tail[k]] <= joined[k]
        /\ ticket'[s] < ticket'[t]
  <2>1. SUFFICES ASSUME NEW s \in Task, s # t, InLine(s)', workerOf[s] = k
                 PROVE  /\ InLine(s) /\ tail[k] \in Task /\ InLine(tail[k])
                        /\ tail[k] # t /\ workerOf[tail[k]] = k
                        /\ ticket[s] <= ticket[tail[k]]
                        /\ ticket[tail[k]] <= joined[k] /\ ticket'[s] < ticket'[t]
    OBVIOUS
  <2>2. InLine(s) /\ tail[k] # NoTask /\ InLine(tail[k]) /\ ticket[s] <= ticket[tail[k]]
    BY <1>3, <2>1 DEF QueueInv
  <2>3. tail[k] \in Task /\ workerOf[tail[k]] = k /\ tail[k] # t
    BY <1>5, <2>2
  <2>4. ticket[tail[k]] <= joined[k]
    BY <2>2, <2>3 DEF QueueInv
  <2>5. ticket'[s] = ticket[s] /\ ticket[s] \in Nat /\ ticket[tail[k]] \in Nat /\ joined[k] \in Nat
    BY <1>2, <2>1, <2>3
  <2>6. ticket'[s] < ticket'[t]
    BY <1>1, <2>2, <2>4, <2>5
  <2>7. QED BY <2>2, <2>3, <2>4, <2>6
<1>7. ASSUME NEW s \in Task, NEW u \in Task, Together(s, u)', ticket'[s] = ticket'[u]
      PROVE  s = u
  <2>1. CASE s = t \/ u = t
    <3>1. \A v \in Task : v # t => ticket'[v] \in Nat
      BY <1>2
    <3>2. ticket'[t] \in Nat
      BY <1>1
    <3>3. QED BY <1>6, <1>7, <2>1, <3>1, <3>2 DEF Together
  <2>2. CASE s # t /\ u # t
    BY <1>2, <1>4, <1>7, <2>2 DEF QueueInv
  <2>3. QED BY <2>1, <2>2
<1>8. ASSUME NEW s \in Task, InLine(s)' PROVE ticket'[s] <= joined'[workerOf[s]]
  <2>1. CASE s = t
    BY <1>1, <2>1
  <2>2. CASE s # t /\ workerOf[s] = k
    BY <1>1, <1>6, <1>8, <1>2, <2>2
  <2>3. CASE s # t /\ workerOf[s] # k
    BY <1>2, <1>3, <1>8, <2>3 DEF QueueInv
  <2>4. QED BY <2>1, <2>2, <2>3
<1>9. ASSUME NEW j \in Worker, tail'[j] # NoTask
      PROVE  workerOf[tail'[j]] = j /\ (InLine(tail[j])' \/ pc'[tail'[j]] \in Over)
  <2>1. CASE j = k
    BY <1>1, <1>3, <2>1
  <2>2. CASE j # k
    <3>1. tail'[j] = tail[j] /\ tail[j] \in Task
      BY <1>2, <1>9, <2>2
    <3>2. workerOf[tail[j]] = j /\ (InLine(tail[j]) \/ pc[tail[j]] \in Over)
      BY <1>9, <3>1 DEF QueueInv
    <3>3. tail[j] # t
      BY <2>2, <3>2
    <3>4. QED BY <1>2, <1>3, <3>1, <3>2, <3>3
  <2>3. QED BY <2>1, <2>2
<1>10. ASSUME NEW s \in Task, InLine(s)'
       PROVE  /\ tail'[workerOf[s]] # NoTask /\ InLine(tail[workerOf[s]])'
              /\ ticket'[s] <= ticket'[tail'[workerOf[s]]]
  <2>1. CASE workerOf[s] = k
    <3>1. tail'[workerOf[s]] = t /\ t # NoTask /\ InLine(t)'
      BY <1>1, <1>3, <2>1
    <3>2. ticket'[s] <= ticket'[t]
      <4>1. CASE s = t
        BY <1>1, <4>1
      <4>2. CASE s # t
        <5>1. ticket'[s] < ticket'[t]
          BY <1>6, <1>10, <2>1, <4>2
        <5>2. ticket'[s] \in Nat /\ ticket'[t] \in Nat
          BY <1>1, <1>2, <4>2
        <5>3. QED BY <5>1, <5>2
      <4>3. QED BY <4>1, <4>2
    <3>3. QED BY <3>1, <3>2
  <2>2. CASE workerOf[s] # k
    <3> DEFINE u == tail[workerOf[s]]
    <3>1. s # t /\ InLine(s) /\ tail'[workerOf[s]] = u
      BY <1>2, <1>3, <1>10, <2>2
    <3>2. u \in Task /\ InLine(u) /\ ticket[s] <= ticket[u] /\ workerOf[u] = workerOf[s]
      BY <3>1 DEF QueueInv
    <3>3. u # t
      BY <2>2, <3>2
    <3>4. QED BY <1>2, <1>3, <3>1, <3>2, <3>3
  <2>3. QED BY <2>1, <2>2
<1>11. ASSUME NEW u \in Task, InLine(u)', ~MyTurn(u)'
       PROVE  Together(prev[u], u)' /\ ticket'[prev'[u]] < ticket'[u]
  <2>1. CASE u = t
    <3>1. tail[k] # NoTask
      BY <1>1, <1>11, <2>1 DEF MyTurn
    <3>2. PICK v \in Task : v = tail[k] /\ v # t /\ workerOf[v] = k
      BY <1>5, <3>1
    <3>3. prev'[t] = v /\ v # NoTask /\ pc'[v] \notin Over
      BY <1>1, <1>11, <2>1, <3>2 DEF MyTurn
    <3>4. InLine(v)'
      BY <1>2, <1>3, <1>5, <3>1, <3>2, <3>3
    <3>5. ticket'[v] < ticket'[t]
      BY <1>6, <3>2, <3>4
    <3>6. Together(prev[u], u)'
      BY <1>11, <2>1, <3>2, <3>3, <3>4 DEF Together
    <3>7. QED BY <2>1, <3>3, <3>5, <3>6
  <2>2. CASE u # t
    <3>1. InLine(u) /\ prev'[u] = prev[u]
      BY <1>2, <1>3, <1>11, <2>2
    <3>2. prev[u] \in Task /\ prev[u] # NoTask /\ pc'[prev[u]] \notin Over
      BY <1>11, <3>1 DEF MyTurn
    <3>3. ~MyTurn(u)
      BY <1>2, <1>3, <3>2 DEF MyTurn
    <3>4. Together(prev[u], u) /\ ticket[prev[u]] < ticket[u]
      BY <3>1, <3>3 DEF QueueInv
    <3>5. prev[u] # t
      BY <1>3, <3>4 DEF Together
    <3>6. Together(prev[u], u)'
      BY <1>3, <1>11, <3>1, <3>2, <3>4, <3>5 DEF Together
    <3>7. QED BY <1>2, <2>2, <3>1, <3>2, <3>4, <3>5, <3>6
  <2>3. QED BY <2>1, <2>2
<1>12. ASSUME NEW s \in Task, NEW u \in Task, Together(s, u)', ticket'[s] < ticket'[u]
       PROVE  /\ prev'[u] \in Task /\ Together(prev[u], u)'
              /\ ticket'[s] <= ticket'[prev'[u]] /\ ticket'[prev'[u]] < ticket'[u]
  <2>0. InLine(s)' /\ InLine(u)' /\ workerOf[s] = workerOf[u]
    BY <1>12 DEF Together
  <2>1. s # t
    <3>1. CASE u = t
      BY <1>1, <1>12, <3>1
    <3>2. CASE u # t
      <4>1. SUFFICES ASSUME s = t PROVE FALSE
        OBVIOUS
      <4>2. ticket'[u] < ticket'[t]
        BY <1>6, <2>0, <3>2, <4>1
      <4>3. ticket'[u] \in Nat /\ ticket'[t] \in Nat
        BY <1>1, <1>2, <3>2
      <4>4. QED BY <1>12, <4>1, <4>2, <4>3
    <3>3. QED BY <3>1, <3>2
  <2>2. CASE u = t
    <3>1. PICK v \in Task : /\ v = tail[k] /\ InLine(v) /\ v # t /\ workerOf[v] = k
                            /\ ticket[s] <= ticket[v]
      BY <1>6, <2>0, <2>1, <2>2
    <3>2. InLine(v)' /\ ticket'[v] = ticket[v] /\ ticket'[s] = ticket[s]
      BY <1>2, <1>3, <2>1, <3>1
    <3>3. ticket'[v] < ticket'[t]
      BY <1>6, <3>1, <3>2
    <3>4. prev'[u] = v
      BY <1>1, <2>2, <3>1
    <3>5. Together(prev[u], u)'
      BY <2>0, <2>2, <3>1, <3>2, <3>4 DEF Together
    <3>6. QED BY <2>2, <3>1, <3>2, <3>3, <3>4, <3>5
  <2>3. CASE u # t
    <3>1. /\ Together(s, u) /\ prev'[u] = prev[u]
          /\ ticket'[s] = ticket[s] /\ ticket'[u] = ticket[u]
      BY <1>2, <1>4, <1>12, <2>1, <2>3
    <3>2. /\ prev[u] \in Task /\ Together(prev[u], u)
          /\ ticket[s] <= ticket[prev[u]] /\ ticket[prev[u]] < ticket[u]
      BY <1>12, <3>1 DEF QueueInv
    <3>3. prev[u] # t
      BY <1>3, <3>2 DEF Together
    <3>4. Together(prev[u], u)' /\ ticket'[prev[u]] = ticket[prev[u]]
      BY <1>2, <1>4, <2>3, <3>2, <3>3
    <3>5. QED BY <3>1, <3>2, <3>4
  <2>4. QED BY <2>2, <2>3
<1>13. ASSUME NEW u \in Task, InLine(u)', pc'[u] # "queued" PROVE MyTurn(u)'
  <2>1. u # t /\ InLine(u) /\ pc[u] # "queued" /\ prev'[u] = prev[u]
    BY <1>1, <1>2, <1>3, <1>13
  <2>2. MyTurn(u)
    BY <2>1 DEF QueueInv
  <2>3. QED BY <1>2, <1>3, <2>1, <2>2 DEF MyTurn
<1>14. QED BY <1>7, <1>8, <1>9, <1>10, <1>11, <1>12, <1>13 DEF QueueInv

\* Every step keeps the lines in order.
LEMMA QueueStep ==
  ASSUME IInv, QueueInv, [Next]_vars
  PROVE  QueueInv'
<1> USE CallAssumption DEF IInv, TypeOK
<1>a. \* A call goes on: from its turn, or inside its transaction.
      ASSUME NEW t \in Task, MyTurn(t) \/ ~InLine(t), UNCHANGED queue,
             NEW q \in InTx \cup {"answer"}, pc' = [pc EXCEPT ![t] = q],
             pc[t] \in {"queued"} \cup InTx \/ ~Mutating(t), pc[t] \notin Over
      PROVE  QueueInv'
  <2>1. \A s \in Task : InLine(s)' <=> InLine(s)
    BY <1>a DEF InLine, Mutating
  <2>2. \A s \in Task : pc[s] \in Over => pc'[s] \in Over
    BY <1>a
  <2>3. \A s \in Task : InLine(s)' /\ pc'[s] # "queued" => MyTurn(s)
    BY <1>a, <2>1 DEF QueueInv
  <2>4. QED BY <1>a, <2>1, <2>2, <2>3, SameQueue
<1>b. \A t \in Task : InLine(t) /\ pc[t] # "queued" => MyTurn(t)
  BY DEF QueueInv
<1>c. \* A call ends.
      ASSUME NEW t \in Task, NEW how \in Over, Settle({t}, how),
             InLine(t) => MyTurn(t), UNCHANGED <<tail, joined>>
      PROVE  QueueInv'
  <2>1. \A s \in Task \ {t} : Together(s, t) => ticket[t] < ticket[s]
    <3>1. SUFFICES ASSUME NEW s \in Task \ {t}, Together(s, t)
                   PROVE  ticket[t] < ticket[s]
      OBVIOUS
    <3>2. ticket[t] <= ticket[s]
      BY <1>c, <3>1, FirstInLine DEF FirstGoes, Together
    <3>3. ticket[t] # ticket[s]
      BY <3>1 DEF QueueInv
    <3>4. QED BY <3>2, <3>3
  <2>2. {t} \in SUBSET Task
    OBVIOUS
  <2>3. \A k \in Worker : tail'[k] = tail[k] /\ joined'[k] = joined[k]
    BY <1>c
  <2>4. \A u \in {t} : \A s \in Task \ {t} : Together(s, u) => ticket[u] < ticket[s]
    BY <2>1
  <2>5. QED BY <1>c, <2>2, <2>3, <2>4, LeaveQueue
<1>1. ASSUME NEW t \in Task, Enqueue(t) PROVE QueueInv'
  BY <1>1, JoinQueue
<1>2. ASSUME NEW t \in Task, Begin(t) PROVE QueueInv'
  <2>1. (CASE kindOf[t] = "append" -> "row"
           [] kindOf[t] = "write"  -> "put"
           [] OTHER                -> "upsert") \in InTx
    BY DEF InTx
  <2>2. QED BY <1>2, <2>1, <1>a DEF Begin, Over
<1>3. ASSUME NEW t \in Task, GetRow(t) PROVE QueueInv'
  <2>1. /\ (IF rows[pathOf[t]] = Absent THEN Resume(t) ELSE "blob") \in InTx \cup {"answer"}
        /\ pc[t] \in {"queued"} \cup InTx \/ ~Mutating(t)
        /\ pc[t] \notin Over
    BY <1>3 DEF GetRow, Resume, InTx, Over
  <2>2. MyTurn(t) \/ ~InLine(t)
    BY <1>3, <1>b DEF GetRow, InLine
  <2>3. QED BY <1>3, <2>1, <2>2, <1>a DEF GetRow
<1>4. ASSUME NEW t \in Task, GetBlob(t) PROVE QueueInv'
  <2>1. Resume(t) \in InTx \cup {"answer"} /\ pc[t] \in InTx /\ pc[t] \notin Over
    BY <1>4 DEF GetBlob, Resume, InTx, Over
  <2>2. QED BY <1>4, <2>1, <1>a, <1>b DEF GetBlob
<1>5. ASSUME NEW t \in Task, Put(t) PROVE QueueInv'
  <2>1. "upsert" \in InTx /\ pc[t] \in InTx /\ pc[t] \notin Over
    BY <1>5 DEF Put, InTx, Over
  <2>2. QED BY <1>5, <2>1, <1>a, <1>b DEF Put
<1>6. ASSUME NEW t \in Task, Upsert(t) PROVE QueueInv'
  <2>1. "commit" \in InTx /\ pc[t] \in InTx /\ pc[t] \notin Over
    BY <1>6 DEF Upsert, InTx, Over
  <2>2. QED BY <1>6, <2>1, <1>a, <1>b DEF Upsert
<1>7. ASSUME NEW t \in Task, Commit(t) PROVE QueueInv'
  <2>1. pc[t] \in InTx /\ pc[t] \notin Over
    BY <1>7 DEF Commit, InTx, Over
  <2>2. QED BY <1>7, <2>1, <1>a, <1>b DEF Commit
<1>8. ASSUME NEW t \in Task, Answer(t) PROVE QueueInv'
  <2>1. "done" \in Over /\ (InLine(t) => MyTurn(t))
    BY <1>8, <1>b DEF Answer, Over
  <2>2. QED BY <1>8, <2>1, <1>c DEF Answer
<1>9. ASSUME NEW t \in Task, Fail(t) PROVE QueueInv'
  <2>1. "failed" \in Over /\ (InLine(t) => MyTurn(t))
    BY <1>9, <1>b DEF Fail, AtRemote, InLine, InTx, Over
  <2>2. QED BY <1>9, <2>1, <1>c DEF Fail
<1>10. ASSUME NEW k \in Worker, Crash(k) PROVE QueueInv'
  <2> DEFINE T == InFlight(k)
  <2>1. T \in SUBSET Task /\ "failed" \in Over
    BY DEF InFlight, Over
  <2>2. Settle(T, "failed")
    BY <1>10 DEF Crash
  <2>3. \A s \in Task : InLine(s) /\ workerOf[s] = k => s \in T
    BY InLineGoesOn DEF InFlight
  <2>4. \A t \in T : \A s \in Task \ T : Together(s, t) => ticket[t] < ticket[s]
    BY <2>3 DEF Together, InFlight
  <2>5. \A s \in Task : workerOf[s] = k => ~InLine(s)'
    <3>1. \A s \in Task : pc'[s] = IF s \in T THEN "failed" ELSE pc[s]
      BY <2>2 DEF Settle
    <3>2. QED BY <2>3, <3>1 DEF InLine, InTx, Mutating
  <2>6. \A j \in Worker :
          \/ tail'[j] = tail[j] /\ joined'[j] = joined[j]
          \/ tail'[j] = NoTask /\ \A s \in Task : workerOf[s] = j => ~InLine(s)'
    BY <1>10, <2>5 DEF Crash
  <2> HIDE DEF T
  <2>7. QED BY <2>1, <2>2, <2>4, <2>6, LeaveQueue
<1>11. CASE UNCHANGED vars
  <2>1. UNCHANGED <<queue, pc>>
    BY <1>11 DEF vars
  <2>2. \A t \in Task : InLine(t)' <=> InLine(t)
    BY <2>1 DEF InLine, Mutating
  <2>3. QED BY <2>1, <2>2, <1>b, SameQueue
<1>12. QED
  BY <1>1, <1>2, <1>3, <1>4, <1>5, <1>6, <1>7, <1>8, <1>9, <1>10, <1>11
  DEF Next, Step

LEMMA QueueInit == Init => QueueInv
BY DEF Init, QueueInv, Together, InLine, InTx

\* The calls of a worker go in the order in which they came, whatever fails.
THEOREM InOrder == Spec => []FirstGoes
<1>1. Init => QueueInv
  BY QueueInit
<1>2. IInv /\ QueueInv => FirstGoes
  BY FirstInLine DEF IInv
<1>3. QED BY <1>1, <1>2, Invariance, QueueStep, PTL DEF Spec

\* A set of numbers has a least one.
LEMMA Least ==
  ASSUME NEW A \in SUBSET Nat, A # {}
  PROVE  \E m \in A : \A n \in A : m <= n
<1> DEFINE Less == {p \in Nat \X Nat : p[1] < p[2]}
<1>1. IsWellFoundedOn(Less, Nat)
  BY NatLessThanWellFounded DEF OpToRel
<1>2. \A m, n \in Nat : m < n => <<m, n>> \in Less
  <2> SUFFICES ASSUME NEW m \in Nat, NEW n \in Nat, m < n PROVE <<m, n>> \in Less
    OBVIOUS
  <2>1. <<m, n>> \in Nat \X Nat /\ <<m, n>>[1] < <<m, n>>[2]
    OBVIOUS
  <2>2. QED BY <2>1, Zenon
<1> HIDE DEF Less
<1>3. PICK m \in A : \A n \in A : ~(<<n, m>> \in Less)
  BY <1>1, WFMin
<1>4. ASSUME NEW n \in A PROVE m <= n
  <2>1. ~(n < m) /\ m \in Nat /\ n \in Nat
    BY <1>2, <1>3
  <2>2. QED BY <2>1
<1>5. QED BY <1>4


\* The write lock is held by a call in its transaction, and only an append
\* reads in one, a blob that there was a row for.
TxInv ==
  /\ writer # NoTask => Mutating(writer) /\ pc[writer] \in InTx
  /\ \A t \in Task : Mutating(t) /\ pc[t] \in {"row", "blob"} => kindOf[t] = "append"
  /\ \A t \in Task : pc[t] = "blob" => base[t] # Absent

\* Every step keeps it.
LEMMA TxStep ==
  ASSUME IInv, TxInv, [Next]_vars
  PROVE  TxInv'
<1> USE CallAssumption, NoTaskAssumption DEF IInv, TypeOK
<1>1. ASSUME NEW t \in Task, Enqueue(t) PROVE TxInv'
  BY <1>1 DEF Enqueue, TxInv, Mutating, InTx
<1>2. ASSUME NEW t \in Task, Begin(t) PROVE TxInv'
  <2>1. Mutating(t)
    BY <1>2 DEF Begin, WriterInTx, Over
  <2>2. pc'[t] \in {"row", "put", "upsert"} /\ (pc'[t] = "row" => kindOf[t] = "append")
    BY <1>2 DEF Begin
  <2>3. \A s \in Task : s # t => pc'[s] = pc[s]
    BY <1>2 DEF Begin
  <2>4. writer' = t /\ base' = base
    BY <1>2 DEF Begin
  <2>5. QED BY <2>1, <2>2, <2>3, <2>4 DEF TxInv, Mutating, InTx
<1>3. ASSUME NEW t \in Task, GetRow(t) PROVE TxInv'
  <2>1. /\ pc'[t] \in {"blob", "put", "answer"} /\ base'[t] = rows[pathOf[t]]
        /\ pc'[t] = "blob" => rows[pathOf[t]] # Absent
    BY <1>3 DEF GetRow, Resume
  <2>2. \A s \in Task : s # t => pc'[s] = pc[s] /\ base'[s] = base[s]
    BY <1>3 DEF GetRow
  <2>3. Mutating(t) => pc[t] = "row" /\ pc'[t] \in InTx
    BY <1>3 DEF GetRow, Resume, InTx
  <2>4. writer' = writer
    BY <1>3 DEF GetRow
  <2>5. QED BY <2>1, <2>2, <2>3, <2>4 DEF TxInv, Mutating
<1>4. ASSUME NEW t \in Task, GetBlob(t) PROVE TxInv'
  BY <1>4 DEF GetBlob, TxInv, Resume, Mutating, InTx
<1>5. ASSUME NEW t \in Task, Put(t) PROVE TxInv'
  BY <1>5 DEF Put, TxInv, Mutating, InTx
<1>6. ASSUME NEW t \in Task, Upsert(t) PROVE TxInv'
  BY <1>6 DEF Upsert, TxInv, Mutating, InTx
<1>7. ASSUME NEW t \in Task, Commit(t) PROVE TxInv'
  BY <1>7 DEF Commit, TxInv, Mutating
<1>8. ASSUME NEW T \in SUBSET Task, NEW how \in Over, Settle(T, how),
             writer' = IF writer \in T THEN NoTask ELSE writer
      PROVE  TxInv'
  <2>1. \A s \in Task : /\ s \in T => pc'[s] = how
                        /\ s \notin T => pc'[s] = pc[s] /\ base'[s] = base[s]
    BY <1>8 DEF Settle
  <2>2. how \notin {"row", "blob"}
    BY <1>8 DEF Over
  <2>3. QED BY <1>8, <2>1, <2>2 DEF TxInv, Mutating
<1>9. ASSUME NEW t \in Task, Answer(t) PROVE TxInv'
  <2>1. writer # t
    BY <1>9 DEF Answer, TxInv, InTx
  <2>2. "done" \in Over /\ {t} \in SUBSET Task
    BY DEF Over
  <2>3. QED BY <1>9, <2>1, <2>2, <1>8 DEF Answer
<1>10. ASSUME NEW t \in Task, Fail(t) PROVE TxInv'
  <2>1. "failed" \in Over /\ {t} \in SUBSET Task
    BY DEF Over
  <2>2. writer' = IF writer \in {t} THEN NoTask ELSE writer
    BY <1>10 DEF Fail
  <2>3. QED BY <1>10, <2>1, <2>2, <1>8 DEF Fail
<1>11. ASSUME NEW k \in Worker, Crash(k) PROVE TxInv'
  <2>1. "failed" \in Over /\ InFlight(k) \in SUBSET Task
    BY DEF Over, InFlight
  <2>2. QED BY <1>11, <2>1, <1>8 DEF Crash
<1>12. CASE UNCHANGED vars
  BY <1>12 DEF vars, TxInv, Mutating
<1>13. QED
  BY <1>1, <1>2, <1>3, <1>4, <1>5, <1>6, <1>7, <1>9, <1>10, <1>11, <1>12
  DEF Next, Step

\* Somebody can always go on: as long as a call is in line, the next step of
\* one of them waits for no other call, for no write lock and for no blob.
Moves ==
  (\E t \in Task : InLine(t)) =>
    \E t \in Task :
      /\ InLine(t) /\ MyTurn(t)
      /\ pc[t] = "queued" => writer = NoTask
      /\ pc[t] = "blob" => base[t] \in blobs

\* The queues of the workers and the write lock of the database, which a call
\* takes when it has waited for the other, never block each other.
THEOREM NoDeadlock == Spec => []Moves
<1> DEFINE Go(t) == /\ InLine(t) /\ MyTurn(t)
                    /\ pc[t] = "queued" => writer = NoTask
                    /\ pc[t] = "blob" => base[t] \in blobs
<1>1. ASSUME IInv, QueueInv, TxInv, NEW u \in Task, InLine(u)
      PROVE  \E t \in Task : Go(t)
  <2> USE <1>1 DEF IInv, TypeOK
  <2>1. CASE writer # NoTask
    <3>1. writer \in Task /\ InLine(writer) /\ pc[writer] \in InTx
      BY <2>1 DEF TxInv, InLine
    <3>2. pc[writer] # "queued" /\ MyTurn(writer)
      BY <3>1 DEF QueueInv, InTx
    <3>3. ASSUME pc[writer] = "blob" PROVE base[writer] \in blobs
      <4>1. kindOf[writer] = "append" /\ base[writer] # Absent
        BY <3>1, <3>3 DEF TxInv, InLine
      <4>2. base[writer] = rows[pathOf[writer]] /\ pathOf[writer] \in Path
        BY <3>1, <3>3, <4>1, CallAssumption DEF BaseIsRow
      <4>3. QED BY <4>1, <4>2 DEF RowsHaveBlobs
    <3>4. QED BY <3>1, <3>2, <3>3
  <2>2. CASE writer = NoTask
    <3> DEFINE A == {ticket[t] : t \in {s \in Task : InLine(s) /\ workerOf[s] = workerOf[u]}}
    <3>1. A \in SUBSET Nat /\ A # {}
      OBVIOUS
    <3>2. PICK m \in A : \A n \in A : m <= n
      BY <3>1, Least
    <3>3. PICK t \in Task : InLine(t) /\ workerOf[t] = workerOf[u] /\ m = ticket[t]
      OBVIOUS
    <3>4. \A s \in Task : InLine(s) /\ workerOf[s] = workerOf[t] => ticket[t] <= ticket[s]
      BY <3>2, <3>3
    <3>5. MyTurn(t)
      BY <3>3, <3>4, FirstInLine DEF FirstGoes
    <3>6. pc[t] # "blob"
      BY <2>2, <3>3, NoTaskAssumption DEF WriterInTx, InLine, InTx
    <3>7. QED BY <2>2, <3>3, <3>5, <3>6
  <2>3. QED BY <2>1, <2>2
<1>2. IInv /\ QueueInv /\ TxInv => Moves
  BY <1>1 DEF Moves
<1>3. Init => QueueInv /\ TxInv
  BY QueueInit DEF Init, TxInv
<1>4. QED BY <1>2, <1>3, Invariance, QueueStep, TxStep, PTL DEF Spec

\* A call in line keeps its ticket, and one that joins gets the next.
LEMMA TicketStep ==
  ASSUME IInv, [Next]_vars, NEW u \in Task, InLine(u)'
  PROVE  \/ InLine(u) /\ ticket'[u] = ticket[u]
         \/ ~InLine(u) /\ ticket'[u] = joined[workerOf[u]] + 1
<1> USE CallAssumption DEF IInv, TypeOK
<1> DEFINE Goal == \/ InLine(u) /\ ticket'[u] = ticket[u]
                   \/ ~InLine(u) /\ ticket'[u] = joined[workerOf[u]] + 1
<1>a. ASSUME ticket'[u] = ticket[u], pc'[u] = pc[u] PROVE Goal
  BY <1>a DEF InLine, Mutating
<1>b. ASSUME NEW T, NEW how \in Over, Settle(T, how) PROVE Goal
  <2>1. u \notin T
    BY <1>b DEF Settle, InLine, InTx, Over
  <2>2. QED BY <1>b, <2>1, <1>a DEF Settle
<1>c. "done" \in Over /\ "failed" \in Over
  BY DEF Over
<1>1. ASSUME NEW t \in Task, Step(t) PROVE Goal
  <2>1. CASE Answer(t)
    BY <2>1, <1>b, <1>c DEF Answer
  <2>2. CASE ~Answer(t) /\ u # t
    <3>1. pc'[u] = pc[u] /\ ticket'[u] = ticket[u]
      BY <1>1, <2>2 DEF Step, Enqueue, Begin, GetRow, GetBlob, Put, Upsert, Commit, queue
    <3>2. QED BY <3>1, <1>a
  <2>3. CASE ~Answer(t) /\ u = t
    <3>1. CASE Enqueue(t)
      BY <2>3, <3>1 DEF Enqueue, InLine, InTx
    <3>2. CASE Begin(t) \/ GetRow(t) \/ GetBlob(t) \/ Put(t) \/ Upsert(t) \/ Commit(t)
      <4>1. ticket' = ticket
        BY <3>2 DEF Begin, GetRow, GetBlob, Put, Upsert, Commit, queue
      <4>2. Mutating(t) => pc[t] \in {"queued"} \cup InTx
        BY <3>2 DEF Begin, GetRow, GetBlob, Put, Upsert, Commit, InTx
      <4>3. Mutating(t)
        BY <2>3 DEF InLine, Mutating
      <4>4. QED BY <2>3, <4>1, <4>2, <4>3 DEF InLine
    <3>3. QED BY <1>1, <2>3, <3>1, <3>2 DEF Step
  <2>4. QED BY <2>1, <2>2, <2>3
<1>2. ASSUME NEW t \in Task, Fail(t) PROVE Goal
  BY <1>2, <1>b, <1>c DEF Fail
<1>3. ASSUME NEW k \in Worker, Crash(k) PROVE Goal
  BY <1>3, <1>b, <1>c DEF Crash
<1>4. CASE UNCHANGED vars
  BY <1>4, <1>a DEF vars, queue
<1>5. QED BY <1>1, <1>2, <1>3, <1>4 DEF Next

\* A call that is not ahead of another of its worker does not get ahead of it.
NoOvertaking ==
  [][\A s, t \in Task :
       Together(s, t)' /\ InLine(t) /\ ticket'[s] < ticket'[t]
         => InLine(s) /\ ticket[s] < ticket[t]]_vars

\* Whoever waits in withTransaction waits for the calls that were there before,
\* and in this worker for nobody else: its line only gets shorter.
THEOREM Fifo == Spec => NoOvertaking
<1>1. ASSUME IInv, QueueInv, [Next]_vars, NEW s \in Task, NEW t \in Task,
             Together(s, t)', InLine(t), ticket'[s] < ticket'[t]
      PROVE  InLine(s) /\ ticket[s] < ticket[t]
  <2>1. InLine(s)' /\ InLine(t)' /\ workerOf[s] = workerOf[t]
    BY <1>1 DEF Together
  <2>2. ticket'[t] = ticket[t] /\ ticket[t] <= joined[workerOf[s]]
    BY <1>1, <2>1, TicketStep DEF QueueInv
  <2>3. ~(ticket'[s] = joined[workerOf[s]] + 1)
    BY <1>1, <2>2, CallAssumption DEF IInv, TypeOK
  <2>4. InLine(s) /\ ticket'[s] = ticket[s]
    BY <1>1, <2>1, <2>3, TicketStep
  <2>5. QED BY <1>1, <2>2, <2>4
<1>2. IInv /\ QueueInv /\ [Next]_vars =>
        [\A s, t \in Task :
           Together(s, t)' /\ InLine(t) /\ ticket'[s] < ticket'[t]
             => InLine(s) /\ ticket[s] < ticket[t]]_vars
  BY <1>1
<1>3. QED BY <1>2, QueueInit, Invariance, QueueStep, PTL DEF Spec, NoOvertaking

\* The steps a call has before it, itself included.
Ahead(t) == CASE pc[t] = "start"  -> 8
              [] pc[t] = "queued" -> 7
              [] pc[t] = "row"    -> 6
              [] pc[t] = "blob"   -> 5
              [] pc[t] = "put"    -> 4
              [] pc[t] = "upsert" -> 3
              [] pc[t] = "commit" -> 2
              [] pc[t] = "answer" -> 1
              [] OTHER            -> 0

\* A step of a call brings it nearer to its end, a failure ends it, and no call
\* or crash takes another further from its own.
CallsSpend ==
  [][\A t \in Task : /\ Step(t) \/ Fail(t) => Ahead(t)' < Ahead(t)
                     /\ Ahead(t)' <= Ahead(t)]_vars

\* A call makes at most eight steps: withTransaction tries nothing again, so the
\* line in front of a call comes to its end when those in it are answered.
THEOREM CallsAreShort == Spec => CallsSpend
<1>1. ASSUME TypeOK, NEW t \in Task, Step(t)
      PROVE  Ahead(t)' < Ahead(t) /\ \A u \in Task : u # t => pc'[u] = pc[u]
  BY <1>1, CallAssumption
     DEF TypeOK, Pc, InTx, Over, Step, Enqueue, Begin, GetRow, GetBlob, Put, Upsert, Commit,
         Answer, Settle, Resume, Mutating, Ahead
<1>2. ASSUME TypeOK, NEW t \in Task, Fail(t)
      PROVE  Ahead(t)' < Ahead(t) /\ \A u \in Task : u # t => pc'[u] = pc[u]
  BY <1>2 DEF TypeOK, Pc, InTx, Over, Fail, AtRemote, Settle, Ahead
<1>3. ASSUME TypeOK, [Next]_vars, NEW t \in Task PROVE Ahead(t)' <= Ahead(t)
  <2>0. Ahead(t) \in Nat
    BY DEF Ahead
  <2>1. ASSUME pc'[t] \in {pc[t], "failed"} PROVE Ahead(t)' <= Ahead(t)
    BY <2>0, <2>1 DEF Ahead
  <2>2. ASSUME NEW s \in Task, Step(s) \/ Fail(s) PROVE Ahead(t)' <= Ahead(t)
    <3>1. CASE s = t
      BY <1>1, <1>2, <1>3, <2>0, <2>2, <3>1 DEF Ahead
    <3>2. CASE s # t
      BY <1>1, <1>2, <1>3, <2>1, <2>2, <3>2
    <3>3. QED BY <3>1, <3>2
  <2>3. ASSUME NEW k \in Worker, Crash(k) PROVE pc'[t] \in {pc[t], "failed"}
    BY <2>3 DEF Crash, Settle
  <2>4. CASE UNCHANGED vars
    BY <2>1, <2>4 DEF vars
  <2>5. QED BY <1>3, <2>1, <2>2, <2>3, <2>4 DEF Next
<1>4. ASSUME TypeOK, [Next]_vars
      PROVE  \A t \in Task : /\ Step(t) \/ Fail(t) => Ahead(t)' < Ahead(t)
                             /\ Ahead(t)' <= Ahead(t)
  BY <1>1, <1>2, <1>3, <1>4
<1>5. QED BY <1>4, TypeCorrect, PTL DEF Spec, CallsSpend

-----------------------------------------------------------------------------
(* Refinement.                                                             *)

\* A step of the store is a step of MemoryFiles, or leaves it as it is.
LEMMA FilesStep ==
  ASSUME IInv, [Next]_vars
  PROVE  [Files!Next]_Files!vars
<1> USE CallAssumption DEF IInv, TypeOK
<1> DEFINE st == [t \in Task |-> Status(t)]
           val == [t \in Task |-> IF Mutating(t) THEN Absent ELSE base[t]]
<1>a. ASSUME UNCHANGED rows, st' = st, val' = val
      PROVE  [Files!Next]_Files!vars
  BY <1>a DEF Files!vars
<1>b. ASSUME NEW t \in Task, st[t] = "pending",
             st' = [st EXCEPT ![t] = "applied"],
             rows' = [rows EXCEPT ![pathOf[t]] = Files!After(t, rows[pathOf[t]])],
             val' = [val EXCEPT ![t] = IF kindOf[t] = "read"
                                       THEN rows[pathOf[t]] ELSE @]
      PROVE  [Files!Next]_Files!vars
  BY <1>b DEF Files!Next, Files!Apply
<1>1. ASSUME NEW t \in Task, Enqueue(t) PROVE [Files!Next]_Files!vars
  BY <1>1, <1>a DEF Enqueue, Status, Mutating
<1>2. ASSUME NEW t \in Task, Begin(t) PROVE [Files!Next]_Files!vars
  <2>1. Mutating(t)
    BY <1>2 DEF Begin, WriterInTx, Over
  <2>2. QED BY <1>2, <2>1, <1>a DEF Begin, Status, Mutating
<1>3. ASSUME NEW t \in Task, GetRow(t) PROVE [Files!Next]_Files!vars
  <2>1. CASE Mutating(t)
    BY <1>3, <2>1, <1>a DEF GetRow, Status, Mutating, Resume
  <2>2. CASE ~Mutating(t)
    <3>1. st[t] = "pending" /\ st' = [st EXCEPT ![t] = "applied"]
      BY <1>3, <2>2 DEF GetRow, Status, Mutating, Resume
    <3>2. Files!After(t, rows[pathOf[t]]) = rows[pathOf[t]]
      BY <2>2 DEF Files!After, Mutating
    <3>3. val' = [val EXCEPT ![t] = rows[pathOf[t]]]
      BY <1>3, <2>2 DEF GetRow, Mutating
    <3>4. rows' = [rows EXCEPT ![pathOf[t]] = Files!After(t, rows[pathOf[t]])]
      BY <1>3, <3>2 DEF GetRow
    <3>5. val' = [val EXCEPT ![t] = IF kindOf[t] = "read" THEN rows[pathOf[t]] ELSE @]
      BY <2>2, <3>3 DEF Mutating
    <3>6. QED BY <3>1, <3>4, <3>5, <1>b
  <2>3. QED BY <2>1, <2>2
<1>4. ASSUME NEW t \in Task, GetBlob(t) PROVE [Files!Next]_Files!vars
  BY <1>4, <1>a DEF GetBlob, Status, Mutating, Resume
<1>5. ASSUME NEW t \in Task, Put(t) PROVE [Files!Next]_Files!vars
  BY <1>5, <1>a DEF Put, Status, Mutating
<1>6. ASSUME NEW t \in Task, Upsert(t) PROVE [Files!Next]_Files!vars
  BY <1>6, <1>a DEF Upsert, Status, Mutating
<1>7. ASSUME NEW t \in Task, Commit(t) PROVE [Files!Next]_Files!vars
  <2>1. Mutating(t)
    BY <1>7 DEF Commit, WriterInTx, Over
  <2>2. st[t] = "pending" /\ st' = [st EXCEPT ![t] = "applied"]
    BY <1>7, <2>1 DEF Commit, Status, Mutating
  <2>3. val' = [val EXCEPT ![t] = IF kindOf[t] = "read"
                                  THEN rows[pathOf[t]] ELSE @]
    BY <1>7, <2>1 DEF Commit, Mutating
  <2>4. Written(t) = Files!After(t, rows[pathOf[t]])
    <3>1. CASE kindOf[t] = "append"
      <4>1. base[t] = rows[pathOf[t]]
        BY <1>7, <3>1 DEF Commit, BaseIsRow
      <4>2. QED BY <3>1, <4>1 DEF Written, Merged, Files!After, Files!Content
    <3>2. CASE kindOf[t] = "write"
      BY <3>2 DEF Written, Merged, Files!After
    <3>3. CASE kindOf[t] = "delete"
      BY <3>3 DEF Written, Files!After
    <3>4. QED BY <2>1, <3>1, <3>2, <3>3 DEF Mutating
  <2>5. QED BY <1>7, <2>2, <2>3, <2>4, <1>b DEF Commit
<1>c. ASSUME NEW T \in SUBSET Task, Settle(T, "failed"), UNCHANGED rows,
             \A t \in T : st[t] \in {"pending", "applied"}
      PROVE  [Files!Next]_Files!vars
  <2>1. st' = [t \in Task |-> IF t \in T THEN "failed" ELSE st[t]]
    BY <1>c DEF Settle, Status, Mutating
  <2>2. val' = val
    BY <1>c DEF Settle, Mutating
  <2>3. st' \in [Task -> {"pending", "applied", "ok", "failed"}]
    BY <2>1 DEF Status
  <2>4. \A t \in Task : st'[t] # st[t] => /\ st[t] \in {"pending", "applied"}
                                        /\ st'[t] = "failed"
    BY <1>c, <2>1
  <2>5. Files!Reject
    BY <1>c, <2>2, <2>3, <2>4 DEF Files!Reject
  <2>6. QED BY <2>5 DEF Files!Next
<1>8. ASSUME NEW t \in Task, Answer(t) PROVE [Files!Next]_Files!vars
  <2>1. st[t] = "applied" /\ st' = [st EXCEPT ![t] = "ok"]
    BY <1>8 DEF Answer, Settle, Status, Mutating
  <2>2. val' = val /\ rows' = rows
    BY <1>8 DEF Answer, Settle, Mutating
  <2>3. Files!Answer(t)
    BY <2>1, <2>2 DEF Files!Answer
  <2>4. QED BY <2>3 DEF Files!Next
<1>9. ASSUME NEW t \in Task, Fail(t) PROVE [Files!Next]_Files!vars
  <2>1. st[t] \in {"pending", "applied"}
    BY <1>9 DEF Fail, AtRemote, Status, InTx
  <2>2. QED BY <1>9, <2>1, <1>c DEF Fail
<1>10. ASSUME NEW k \in Worker, Crash(k) PROVE [Files!Next]_Files!vars
  <2>1. \A t \in InFlight(k) : st[t] \in {"pending", "applied"}
    BY DEF InFlight, Status, Over
  <2>2. InFlight(k) \in SUBSET Task
    BY DEF InFlight
  <2>3. QED BY <1>10, <2>1, <2>2, <1>c DEF Crash
<1>11. CASE UNCHANGED vars
  BY <1>11, <1>a DEF vars, Status, Mutating
<1>12. QED
  BY <1>1, <1>2, <1>3, <1>4, <1>5, <1>6, <1>7, <1>8, <1>9, <1>10, <1>11
  DEF Next, Step

\* The remote store implements MemoryFiles: its calls are atomic, across
\* workers, failures and crashes.
THEOREM Implementation == Spec => LinearFiles
<1>1. Init => Files!Init
  BY DEF Init, Files!Init, Status
<1>2. QED BY <1>1, FilesStep, Invariance, PTL DEF Spec, LinearFiles, Files!Spec
=============================================================================
