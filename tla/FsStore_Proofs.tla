--------------------------- MODULE FsStore_Proofs ---------------------------
(***************************************************************************)
(* What holds of one path of the filesystem store for any calls and edits: *)
(* runExclusive lets one task in at a time, although it forgets its queue  *)
(* whenever it looks empty, and the hash check guards an update whose hash *)
(* no other call touched.                                                  *)
(***************************************************************************)
EXTENDS FsStore, TLAPS, WellFoundedInduction

-----------------------------------------------------------------------------
(* Typing.                                                                 *)

\* Leaving the queue keeps the types.
LEMMA LeaveType ==
  ASSUME TypeOK, NEW t \in Task, Leave(t)
  PROVE  /\ pc' \in [Task -> Pc]
         /\ tail' \in Task \cup {NoTask}
         /\ prev' \in [Task -> Task \cup {NoTask}]
         /\ got' \in [Task -> Content]
         /\ lastRead' \in [Task -> Hash]
         /\ checked' \in [Task -> File]
         /\ ticket' \in [Task -> Nat] /\ joined' \in Nat
<1>1. {} \in Content /\ NoHash \in Hash /\ Absent \in File
  BY DEF Content, Hash, File
<1>2. QED BY <1>1 DEF TypeOK, Leave, Pc

\* Contents are files with a hash.
LEMMA ContentFacts ==
  /\ Content \subseteq File
  /\ Content = File \ {Absent}
  /\ Content \subseteq Hash
  /\ NoHash \notin Content
BY SentinelAssumption DEF Content, File, Hash

\* Every reachable state of the store is well typed.
THEOREM TypeCorrect == Spec => []TypeOK
<1> USE KindAssumption
<1>1. Init => TypeOK
  BY ContentFacts DEF Init, TypeOK, Pc, Content, File, Hash
<1>2. ASSUME TypeOK, [Next]_vars PROVE TypeOK'
  <2> USE <1>2 DEF TypeOK, queue
  <2>0. unguarded \cup Deciding \in SUBSET Task
    BY DEF Deciding
  <2>1. ASSUME NEW t \in Task, Step(t) PROVE TypeOK'
    <3>1. CASE ReadFile(t)
      BY <3>1, ContentFacts DEF ReadFile, Pc
    <3>2. CASE ReadReturn(t)
      BY <3>2, <2>0, ContentFacts DEF ReadReturn, Pc
    <3>3. CASE Enqueue(t)
      BY <3>3 DEF Enqueue, Pc
    <3>4. CASE Enter(t)
      BY <3>4 DEF Enter, Pc, Critical, Hash
    <3>5. CASE Compare(t)
      <4>1. CASE Conflict(t)
        BY <3>5, <4>1, LeaveType DEF Compare
      <4>2. CASE ~Conflict(t)
        BY <3>5, <4>2 DEF Compare, Pc, Critical
      <4>3. QED BY <4>1, <4>2
    <3>6. Updated(t) \in Content
      BY DEF Updated, Content
    <3>7. CASE Rename(t)
      BY <3>6, <3>7, ContentFacts DEF Rename, Pc, Critical
    <3>8. CASE WriteDone(t)
      BY <3>6, <3>8, <2>0, LeaveType, ContentFacts DEF WriteDone
    <3>9. CASE AppendFile(t)
      <4>1. With(disk, t) \in Content
        BY ContentFacts DEF With, Content, File
      <4>2. QED BY <3>9, <4>1, ContentFacts DEF AppendFile, Pc, Critical
    <3>10. CASE Remove(t)
      BY <3>10 DEF Remove, Pc, Critical, File
    <3>11. CASE DropHash(t)
      BY <3>11, <2>0, LeaveType DEF DropHash, Hash
    <3>12. CASE ReadNothing(t)
      BY <3>12 DEF ReadNothing, Pc
    <3>13. CASE Fails(t)
      <4>1. With(disk, t) \in File
        BY ContentFacts DEF With, Content, File
      <4>2. disk' \in File
        BY <3>13, <4>1 DEF Fails
      <4>3. QED BY <3>13, <4>2, LeaveType DEF Fails
    <3>14. CASE CompareBlind(t)
      BY <3>14 DEF CompareBlind, Pc, Critical, File
    <3>15. QED
      BY <2>1, <3>1, <3>2, <3>3, <3>4, <3>5, <3>7, <3>8, <3>9, <3>10, <3>11,
         <3>12, <3>13, <3>14
      DEF Step
  <2>2. CASE Evict
    BY <2>2, <2>0 DEF Evict, Hash
  <2>3. ASSUME NEW e \in Edit, ExternalEdit(e) PROVE TypeOK'
    <3>1. With(disk, e) \in Content
      BY ContentFacts DEF With, Content, File
    <3>2. QED BY <2>3, <3>1, ContentFacts DEF ExternalEdit
  <2>4. CASE UNCHANGED vars
    BY <2>4 DEF vars
  <2>5. QED BY <2>1, <2>2, <2>3, <2>4 DEF Next
<1>3. QED BY <1>1, <1>2, PTL DEF Spec

-----------------------------------------------------------------------------
(* The queue.  The tickets say in which order the calls joined it; what the *)
(* code keeps, tail and prev, agrees with them.                            *)

QueueInv ==
  /\ \A s, t \in Task : InLine(s) /\ InLine(t) /\ ticket[s] = ticket[t] => s = t
  /\ \A t \in Task : InLine(t) => ticket[t] <= joined
  /\ tail # NoTask => InLine(tail)
  /\ \A s \in Task : InLine(s) => tail # NoTask /\ ticket[s] <= ticket[tail]
  /\ \A t \in Task :
       InLine(t) /\ ~MyTurn(t) => InLine(prev[t]) /\ ticket[prev[t]] < ticket[t]
  /\ \A s, t \in Task :
       InLine(s) /\ InLine(t) /\ ticket[s] < ticket[t] =>
         /\ prev[t] \in Task /\ InLine(prev[t])
         /\ ticket[s] <= ticket[prev[t]] /\ ticket[prev[t]] < ticket[t]
  /\ \A t \in Task : pc[t] \in Critical => MyTurn(t)

\* A call that is in the line is not over.
LEMMA InLineNotDone == \A t : InLine(t) => pc[t] # "done"
BY DEF InLine, Critical

\* Who is first in the line is who may go.
LEMMA FirstInLine == ASSUME TypeOK, QueueInv PROVE FirstGoes
<1> USE DEF TypeOK
<1> SUFFICES ASSUME NEW t \in Task, InLine(t)
             PROVE  MyTurn(t) <=> \A s \in Task : InLine(s) => ticket[t] <= ticket[s]
  BY DEF FirstGoes
<1>1. ASSUME MyTurn(t), NEW s \in Task, InLine(s) PROVE ticket[t] <= ticket[s]
  <2>1. SUFFICES ASSUME ticket[s] < ticket[t] PROVE FALSE
    OBVIOUS
  <2>2. prev[t] \in Task /\ InLine(prev[t])
    BY <1>1, <2>1 DEF QueueInv
  <2>3. QED BY <1>1, <2>2, InLineNotDone, NoTaskAssumption DEF MyTurn
<1>2. ASSUME ~MyTurn(t), \A s \in Task : InLine(s) => ticket[t] <= ticket[s] PROVE FALSE
  <2>1. InLine(prev[t]) /\ ticket[prev[t]] < ticket[t]
    BY <1>2 DEF QueueInv
  <2>2. prev[t] \in Task
    BY <1>2 DEF MyTurn
  <2>3. QED BY <1>2, <2>1, <2>2
<1>3. QED BY <1>1, <1>2

\* Steps that move no task in or out of the line keep its order.
LEMMA SameQueue ==
  ASSUME TypeOK, QueueInv, UNCHANGED queue,
         \A t \in Task : InLine(t)' <=> InLine(t),
         \A t \in Task : pc[t] = "done" => pc'[t] = "done",
         \A t \in Task : pc'[t] \in Critical => MyTurn(t)
  PROVE  QueueInv'
<1> USE DEF TypeOK, queue
<1>1. \A t \in Task : MyTurn(t) => MyTurn(t)'
  BY DEF MyTurn
<1>2. tail # NoTask => tail \in Task
  OBVIOUS
<1>3. ASSUME NEW t \in Task, InLine(t)', ~MyTurn(t)'
      PROVE  InLine(prev[t])' /\ ticket[prev[t]] < ticket[t]
  <2>1. InLine(prev[t]) /\ ticket[prev[t]] < ticket[t]
    BY <1>1, <1>3 DEF QueueInv
  <2>2. prev[t] \in Task
    BY <1>3 DEF MyTurn
  <2>3. QED BY <2>1, <2>2
<1>4. QED BY <1>1, <1>2, <1>3 DEF QueueInv

\* A task that leaves was the first of the line.
LEMMA LeaveQueue ==
  ASSUME TypeOK, QueueInv, NEW t \in Task, pc[t] \in Critical, Leave(t)
  PROVE  QueueInv'
<1> USE DEF TypeOK
<1>1. /\ \A s \in Task : s # t => /\ pc'[s] = pc[s] /\ prev'[s] = prev[s]
                                  /\ ticket'[s] = ticket[s]
      /\ pc'[t] = "done" /\ tail' = IF tail = t THEN NoTask ELSE tail
      /\ joined' = joined
  BY DEF Leave
<1>2. /\ ~InLine(t)'
      /\ \A s \in Task : s # t => (InLine(s)' <=> InLine(s))
  BY <1>1 DEF InLine, Critical
<1>3. InLine(t) /\ MyTurn(t)
  BY DEF InLine, QueueInv
<1>4. \A s \in Task : InLine(s) /\ s # t => ticket[t] < ticket[s]
  <2>1. \A s \in Task : InLine(s) => ticket[t] <= ticket[s]
    BY <1>3, FirstInLine DEF FirstGoes
  <2>2. QED BY <1>3, <2>1 DEF QueueInv
<1>5. \A s, u \in Task : InLine(s)' /\ InLine(u)' /\ ticket'[s] = ticket'[u] => s = u
  BY <1>1, <1>2 DEF QueueInv
<1>6. \A s \in Task : InLine(s)' => ticket'[s] <= joined'
  BY <1>1, <1>2 DEF QueueInv
<1>7. tail' # NoTask => InLine(tail)'
  BY <1>1, <1>2 DEF QueueInv
<1>8. \A s \in Task : InLine(s)' => tail' # NoTask /\ ticket'[s] <= ticket'[tail']
  <2>1. SUFFICES ASSUME NEW s \in Task, InLine(s)'
                 PROVE  tail' # NoTask /\ ticket'[s] <= ticket'[tail']
    OBVIOUS
  <2>2. s # t /\ InLine(s) /\ ticket[t] < ticket[s]
    BY <1>2, <1>4, <2>1
  <2>3. tail # NoTask /\ ticket[s] <= ticket[tail]
    BY <2>2 DEF QueueInv
  <2>4. tail # t /\ tail \in Task
    BY <2>2, <2>3
  <2>5. QED BY <1>1, <2>2, <2>3, <2>4
<1>9. ASSUME NEW u \in Task, InLine(u)', ~MyTurn(u)'
      PROVE  InLine(prev[u])' /\ ticket'[prev'[u]] < ticket'[u]
  <2>1. u # t /\ InLine(u) /\ prev'[u] = prev[u]
    BY <1>1, <1>2, <1>9
  <2>2. prev[u] \in Task /\ pc'[prev[u]] # "done"
    BY <1>9, <2>1 DEF MyTurn
  <2>3. prev[u] # t /\ pc[prev[u]] # "done"
    BY <1>1, <2>2
  <2>4. ~MyTurn(u)
    BY <2>2, <2>3, NoTaskAssumption DEF MyTurn
  <2>5. InLine(prev[u]) /\ ticket[prev[u]] < ticket[u]
    BY <2>1, <2>4 DEF QueueInv
  <2>6. QED BY <1>1, <1>2, <2>1, <2>2, <2>3, <2>5
<1>10. ASSUME NEW s \in Task, NEW u \in Task, InLine(s)', InLine(u)', ticket'[s] < ticket'[u]
       PROVE  /\ prev'[u] \in Task /\ InLine(prev[u])'
              /\ ticket'[s] <= ticket'[prev'[u]] /\ ticket'[prev'[u]] < ticket'[u]
  <2>1. /\ s # t /\ u # t /\ InLine(s) /\ InLine(u)
        /\ ticket[t] < ticket[s] /\ ticket[s] < ticket[u]
    BY <1>1, <1>2, <1>4, <1>10
  <2>2. /\ prev[u] \in Task /\ InLine(prev[u])
        /\ ticket[s] <= ticket[prev[u]] /\ ticket[prev[u]] < ticket[u]
    BY <2>1 DEF QueueInv
  <2>3. prev[u] # t
    BY <2>1, <2>2
  <2>4. QED BY <1>1, <1>2, <2>1, <2>2, <2>3
<1>11. \A u \in Task : pc'[u] \in Critical => MyTurn(u)'
  <2>1. SUFFICES ASSUME NEW u \in Task, pc'[u] \in Critical PROVE MyTurn(u)'
    OBVIOUS
  <2>2. u # t /\ pc[u] \in Critical
    BY <1>1, <2>1 DEF Critical
  <2>3. MyTurn(u)
    BY <2>2 DEF QueueInv
  <2>4. QED BY <1>1, <2>2, <2>3 DEF MyTurn
<1>12. QED BY <1>5, <1>6, <1>7, <1>8, <1>9, <1>10, <1>11 DEF QueueInv

\* A task that joins is the last of the line.
LEMMA JoinQueue ==
  ASSUME TypeOK, QueueInv, NEW t \in Task, Enqueue(t)
  PROVE  QueueInv'
<1> USE NoTaskAssumption DEF TypeOK
<1>1. /\ ~InLine(t) /\ pc'[t] = "queued" /\ prev'[t] = tail /\ tail' = t
      /\ joined' = joined + 1 /\ ticket'[t] = joined + 1 /\ pc[t] # "done"
      /\ \A s \in Task : s # t => /\ pc'[s] = pc[s] /\ prev'[s] = prev[s]
                                  /\ ticket'[s] = ticket[s]
  BY DEF Enqueue, InLine, Critical
<1>2. InLine(t)' /\ \A s \in Task : s # t => (InLine(s)' <=> InLine(s))
  BY <1>1 DEF InLine
<1>3. \A s \in Task : InLine(s)' /\ s # t =>
        /\ InLine(s) /\ tail \in Task /\ InLine(tail) /\ tail # t
        /\ ticket[s] <= ticket[tail] /\ ticket[tail] <= joined
  BY <1>1, <1>2 DEF QueueInv
<1>4. \A s \in Task : InLine(s)' /\ s # t => ticket'[s] < ticket'[t]
  BY <1>1, <1>3
<1>5. \A s, u \in Task : InLine(s)' /\ InLine(u)' /\ ticket'[s] = ticket'[u] => s = u
  <2>1. SUFFICES ASSUME NEW s \in Task, NEW u \in Task, InLine(s)', InLine(u)',
                        ticket'[s] = ticket'[u], s # u
                 PROVE  FALSE
    OBVIOUS
  <2>2. s # t /\ u # t
    BY <1>1, <1>4, <2>1
  <2>3. QED BY <1>1, <1>2, <2>1, <2>2 DEF QueueInv
<1>6. \A s \in Task : InLine(s)' => ticket'[s] <= joined'
  BY <1>1, <1>3
<1>7. tail' # NoTask => InLine(tail)'
  BY <1>1, <1>2
<1>8. \A s \in Task : InLine(s)' => tail' # NoTask /\ ticket'[s] <= ticket'[tail']
  BY <1>1, <1>4
<1>9. ASSUME NEW u \in Task, InLine(u)', ~MyTurn(u)'
      PROVE  InLine(prev[u])' /\ ticket'[prev'[u]] < ticket'[u]
  <2>1. CASE u = t
    <3>1. tail \in Task /\ InLine(tail) /\ tail # t /\ ticket[tail] <= joined
      BY <1>1, <1>9, <2>1 DEF MyTurn, QueueInv
    <3>2. QED BY <1>1, <1>2, <2>1, <3>1
  <2>2. CASE u # t
    <3>1. InLine(u) /\ prev'[u] = prev[u] /\ prev[u] \in Task /\ pc'[prev[u]] # "done"
      BY <1>1, <1>2, <1>9, <2>2 DEF MyTurn
    <3>2. pc[prev[u]] # "done"
      BY <1>1, <3>1
    <3>3. InLine(prev[u]) /\ ticket[prev[u]] < ticket[u]
      BY <3>1, <3>2 DEF MyTurn, QueueInv
    <3>4. prev[u] # t
      BY <1>1, <3>3
    <3>5. QED BY <1>1, <1>2, <2>2, <3>1, <3>3, <3>4
  <2>3. QED BY <2>1, <2>2
<1>10. ASSUME NEW s \in Task, NEW u \in Task, InLine(s)', InLine(u)', ticket'[s] < ticket'[u]
       PROVE  /\ prev'[u] \in Task /\ InLine(prev[u])'
              /\ ticket'[s] <= ticket'[prev'[u]] /\ ticket'[prev'[u]] < ticket'[u]
  <2>1. s # t
    <3>1. CASE u = t
      BY <1>1, <1>10, <3>1
    <3>2. CASE u # t
      <4>1. ticket'[u] < ticket'[t] /\ ticket'[u] \in Nat /\ ticket'[t] \in Nat
        BY <1>1, <1>4, <1>10, <3>2
      <4>2. QED BY <1>10, <4>1
    <3>3. QED BY <3>1, <3>2
  <2>2. CASE u = t
    BY <1>1, <1>2, <1>3, <1>10, <2>1, <2>2
  <2>3. CASE u # t
    <3>1. /\ InLine(s) /\ InLine(u) /\ prev'[u] = prev[u]
          /\ ticket'[s] = ticket[s] /\ ticket'[u] = ticket[u]
      BY <1>1, <1>2, <1>10, <2>1, <2>3
    <3>2. /\ prev[u] \in Task /\ InLine(prev[u])
          /\ ticket[s] <= ticket[prev[u]] /\ ticket[prev[u]] < ticket[u]
      BY <1>10, <3>1 DEF QueueInv
    <3>3. prev[u] # t
      BY <1>1, <3>2
    <3>4. QED BY <1>1, <1>2, <3>1, <3>2, <3>3
  <2>4. QED BY <2>2, <2>3
<1>11. \A u \in Task : pc'[u] \in Critical => MyTurn(u)'
  <2>1. SUFFICES ASSUME NEW u \in Task, pc'[u] \in Critical PROVE MyTurn(u)'
    OBVIOUS
  <2>2. u # t /\ pc[u] \in Critical
    BY <1>1, <2>1 DEF Critical
  <2>3. MyTurn(u) /\ prev'[u] = prev[u]
    BY <1>1, <2>2 DEF QueueInv
  <2>4. QED BY <1>1, <2>3 DEF MyTurn
<1>12. QED BY <1>5, <1>6, <1>7, <1>8, <1>9, <1>10, <1>11 DEF QueueInv

\* Every step keeps the line in order.
LEMMA QueueStep ==
  ASSUME TypeOK, QueueInv, [Next]_vars
  PROVE  QueueInv'
<1> USE KindAssumption DEF TypeOK
<1>a. ASSUME UNCHANGED queue,
             \A t \in Task : InLine(t)' <=> InLine(t),
             \A t \in Task : pc[t] = "done" => pc'[t] = "done",
             \A t \in Task : pc'[t] \in Critical => MyTurn(t)
      PROVE  QueueInv'
  BY <1>a, SameQueue
<1>b. ASSUME NEW t \in Task, pc[t] \in Critical, Leave(t) PROVE QueueInv'
  BY <1>b, LeaveQueue
<1>c. \A t \in Task : pc[t] \in Critical => MyTurn(t)
  BY DEF QueueInv
<1>d. \* A step inside the exclusive section.
       ASSUME NEW t \in Task, pc[t] \in Critical, UNCHANGED queue,
             NEW q \in Critical, pc' = [pc EXCEPT ![t] = q]
      PROVE  QueueInv'
  <2>1. \A s \in Task : InLine(s)' <=> InLine(s)
    BY <1>d DEF InLine
  <2>2. \A s \in Task : pc[s] = "done" => pc'[s] = "done"
    BY <1>d DEF Critical
  <2>3. \A s \in Task : pc'[s] \in Critical => MyTurn(s)
    BY <1>c, <1>d
  <2>4. QED BY <1>a, <1>d, <2>1, <2>2, <2>3
<1>2. ASSUME NEW t \in Task, Step(t) PROVE QueueInv'
  <2>1. CASE ReadFile(t)
    BY <2>1, <1>a, <1>c DEF ReadFile, InLine, Critical
  <2>2. CASE ReadReturn(t)
    BY <2>2, <1>a, <1>c DEF ReadReturn, InLine, Critical
  <2>3. CASE Enqueue(t)
    BY <2>3, JoinQueue
  <2>4. CASE Enter(t)
    <3>1. /\ pc[t] = "queued" /\ MyTurn(t) /\ pc'[t] \in Critical
          /\ \A s \in Task : s # t => pc'[s] = pc[s]
      BY <2>4 DEF Enter, Critical
    <3>2. \A s \in Task : InLine(s)' <=> InLine(s)
      BY <3>1 DEF InLine
    <3>3. \A s \in Task : pc[s] = "done" => pc'[s] = "done"
      BY <3>1
    <3>4. \A s \in Task : pc'[s] \in Critical => MyTurn(s)
      BY <3>1, <1>c
    <3>5. QED BY <2>4, <1>a, <3>2, <3>3, <3>4 DEF Enter
  <2>5. CASE Compare(t)
    <3>1. pc[t] \in Critical /\ "rename" \in Critical
      BY <2>5 DEF Compare, Critical
    <3>2. CASE Conflict(t)
      BY <2>5, <3>1, <3>2, <1>b DEF Compare
    <3>3. CASE ~Conflict(t)
      BY <2>5, <3>1, <3>3, <1>d DEF Compare
    <3>4. QED BY <3>2, <3>3
  <2>6. CASE Rename(t)
    <3>1. pc[t] \in Critical /\ "setHash" \in Critical
      BY <2>6 DEF Rename, Critical
    <3>2. QED BY <2>6, <3>1, <1>d DEF Rename
  <2>7. CASE WriteDone(t)
    BY <2>7, <1>b DEF WriteDone, Critical
  <2>8. CASE AppendFile(t)
    <3>1. pc[t] \in Critical /\ "dropHash" \in Critical
      BY <2>8 DEF AppendFile, Critical
    <3>2. QED BY <2>8, <3>1, <1>d DEF AppendFile
  <2>9. CASE Remove(t)
    <3>1. pc[t] \in Critical /\ "dropHash" \in Critical
      BY <2>9 DEF Remove, Critical
    <3>2. QED BY <2>9, <3>1, <1>d DEF Remove
  <2>10. CASE DropHash(t)
    BY <2>10, <1>b DEF DropHash, Critical
  <2>11. CASE ReadNothing(t)
    BY <2>11, <1>a, <1>c DEF ReadNothing, InLine, Critical
  <2>12. CASE Fails(t)
    BY <2>12, <1>b DEF Fails, Critical
  <2>13. CASE CompareBlind(t)
    <3>1. pc[t] \in Critical /\ "rename" \in Critical
      BY <2>13 DEF CompareBlind, Critical
    <3>2. QED BY <2>13, <3>1, <1>d DEF CompareBlind
  <2>14. QED
    BY <1>2, <2>1, <2>2, <2>3, <2>4, <2>5, <2>6, <2>7, <2>8, <2>9, <2>10,
       <2>11, <2>12, <2>13
    DEF Step
<1>3. CASE Evict
  BY <1>3, <1>a, <1>c DEF Evict, InLine
<1>4. ASSUME NEW e \in Edit, ExternalEdit(e) PROVE QueueInv'
  BY <1>4, <1>a, <1>c DEF ExternalEdit, InLine
<1>5. CASE UNCHANGED vars
  BY <1>5, <1>a, <1>c DEF vars, InLine
<1>6. QED BY <1>2, <1>3, <1>4, <1>5 DEF Next

\* A set of numbers has a least one.
LEMMA Least ==
  ASSUME NEW A \in SUBSET Nat, A # {}
  PROVE  \E m \in A : \A n \in A : m <= n
<1> DEFINE Less == {p \in Nat \X Nat : p[1] < p[2]}
<1>1. IsWellFoundedOn(Less, Nat)
  BY NatLessThanWellFounded DEF OpToRel
<1>2. \A m, n \in Nat : m < n => <<m, n>> \in Less
  <2> SUFFICES ASSUME NEW m \in Nat, NEW n \in Nat, m < n PROVE <<m, n>> \in Less
    OBVIOUS
  <2>1. <<m, n>> \in Nat \X Nat /\ <<m, n>>[1] < <<m, n>>[2]
    OBVIOUS
  <2>2. QED BY <2>1, Zenon
<1> HIDE DEF Less
<1>3. PICK m \in A : \A n \in A : ~(<<n, m>> \in Less)
  BY <1>1, WFMin
<1>4. ASSUME NEW n \in A PROVE m <= n
  <2>1. ~(n < m) /\ m \in Nat /\ n \in Nat
    BY <1>2, <1>3
  <2>2. QED BY <2>1
<1>5. QED BY <1>4

LEMMA QueueInit == Init => QueueInv
BY DEF Init, QueueInv, InLine, Critical

\* Calls go in the order in which they came.
THEOREM InOrder == Spec => []FirstGoes
BY QueueInit, TypeCorrect, QueueStep, FirstInLine, PTL DEF Spec

\* runExclusive lets at most one task at a time into its section.
THEOREM Exclusion == Spec => []PathExclusive
<1>1. ASSUME TypeOK, QueueInv, NEW s \in Task, NEW t \in Task,
             pc[s] \in Critical, pc[t] \in Critical
      PROVE  s = t
  <2>1. InLine(s) /\ MyTurn(s) /\ InLine(t) /\ MyTurn(t)
    BY <1>1 DEF InLine, QueueInv
  <2>2. ticket[s] <= ticket[t] /\ ticket[t] <= ticket[s]
    BY <1>1, <2>1, FirstInLine DEF FirstGoes
  <2>3. ticket[s] = ticket[t]
    BY <1>1, <2>2 DEF TypeOK
  <2>4. QED BY <1>1, <2>1, <2>3 DEF QueueInv
<1>2. TypeOK /\ QueueInv => PathExclusive
  BY <1>1 DEF PathExclusive
<1>3. QED BY <1>2, QueueInit, TypeCorrect, QueueStep, PTL DEF Spec

\* Nobody waits for ever on a call that waits too: as long as there is a line,
\* the previous call of one of them is over, or there is none.
Moves == (\E t \in Task : InLine(t)) => \E t \in Task : InLine(t) /\ MyTurn(t)

\* The calls of runExclusive never wait for each other in a circle.
THEOREM NoDeadlock == Spec => []Moves
<1>1. ASSUME TypeOK, FirstGoes, NEW u \in Task, InLine(u)
      PROVE  \E t \in Task : InLine(t) /\ MyTurn(t)
  <2> DEFINE A == {ticket[t] : t \in {s \in Task : InLine(s)}}
  <2>1. A \in SUBSET Nat /\ A # {}
    BY <1>1 DEF TypeOK
  <2>2. PICK m \in A : \A n \in A : m <= n
    BY <2>1, Least
  <2>3. PICK t \in Task : InLine(t) /\ m = ticket[t]
    OBVIOUS
  <2>4. \A s \in Task : InLine(s) => ticket[t] <= ticket[s]
    BY <2>2, <2>3
  <2>5. QED BY <1>1, <2>3, <2>4 DEF FirstGoes
<1>2. TypeOK /\ FirstGoes => Moves
  BY <1>1 DEF Moves
<1>3. QED BY <1>2, TypeCorrect, InOrder, PTL

\* A call in line keeps its ticket, and one that joins gets the next.
LEMMA TicketStep ==
  ASSUME TypeOK, [Next]_vars, NEW u \in Task, InLine(u)'
  PROVE  \/ InLine(u) /\ ticket'[u] = ticket[u]
         \/ ~InLine(u) /\ ticket'[u] = joined + 1
<1> USE DEF TypeOK, queue
<1> DEFINE Goal == \/ InLine(u) /\ ticket'[u] = ticket[u]
                   \/ ~InLine(u) /\ ticket'[u] = joined + 1
<1>a. ASSUME ticket' = ticket, pc'[u] = pc[u] PROVE Goal
  BY <1>a DEF InLine
<1>1. ASSUME NEW t \in Task, Step(t) PROVE Goal
  <2>1. CASE u # t
    <3>1. pc'[u] = pc[u] /\ ticket'[u] = ticket[u]
      BY <1>1, <2>1 DEF Step, ReadFile, ReadNothing, ReadReturn, Enqueue, Enter,
             Compare, CompareBlind, Rename, WriteDone, AppendFile, Remove,
             DropHash, Fails, Leave
    <3>2. QED BY <3>1 DEF InLine
  <2>2. CASE u = t
    <3>1. CASE ReadFile(t) \/ ReadNothing(t) \/ ReadReturn(t)
      BY <2>2, <3>1 DEF ReadFile, ReadNothing, ReadReturn, InLine, Critical
    <3>2. CASE Enqueue(t)
      BY <2>2, <3>2 DEF Enqueue, InLine, Critical
    <3>3. CASE Enter(t) \/ CompareBlind(t) \/ Rename(t) \/ AppendFile(t) \/ Remove(t)
      BY <2>2, <3>3 DEF Enter, CompareBlind, Rename, AppendFile, Remove, InLine, Critical
    <3>4. CASE Compare(t)
      BY <2>2, <3>4 DEF Compare, Leave, InLine, Critical
    <3>5. CASE WriteDone(t) \/ DropHash(t) \/ Fails(t)
      BY <2>2, <3>5 DEF WriteDone, DropHash, Fails, Leave, InLine, Critical
    <3>6. QED BY <1>1, <3>1, <3>2, <3>3, <3>4, <3>5 DEF Step
  <2>3. QED BY <2>1, <2>2
<1>2. CASE Evict
  BY <1>2, <1>a DEF Evict
<1>3. ASSUME NEW e \in Edit, ExternalEdit(e) PROVE Goal
  BY <1>3, <1>a DEF ExternalEdit
<1>4. CASE UNCHANGED vars
  BY <1>4, <1>a DEF vars
<1>5. QED BY <1>1, <1>2, <1>3, <1>4 DEF Next

\* A call that is not ahead of another in line does not get ahead of it.
NoOvertaking ==
  [][\A s, t \in Task :
       InLine(t) /\ InLine(t)' /\ InLine(s)' /\ ticket'[s] < ticket'[t]
         => InLine(s) /\ ticket[s] < ticket[t]]_vars

\* Whoever waits in runExclusive waits for the calls that were there before,
\* and for nobody else: the line in front of a call only gets shorter.
THEOREM Fifo == Spec => NoOvertaking
<1>1. ASSUME TypeOK, QueueInv, [Next]_vars, NEW s \in Task, NEW t \in Task,
             InLine(t), InLine(t)', InLine(s)', ticket'[s] < ticket'[t]
      PROVE  InLine(s) /\ ticket[s] < ticket[t]
  <2>1. ticket'[t] = ticket[t] /\ ticket[t] <= joined
    BY <1>1, TicketStep DEF QueueInv
  <2>2. ~(ticket'[s] = joined + 1)
    BY <1>1, <2>1 DEF TypeOK
  <2>3. InLine(s) /\ ticket'[s] = ticket[s]
    BY <1>1, <2>2, TicketStep
  <2>4. QED BY <1>1, <2>1, <2>3
<1>2. TypeOK /\ QueueInv /\ [Next]_vars =>
        [\A s, t \in Task :
           InLine(t) /\ InLine(t)' /\ InLine(s)' /\ ticket'[s] < ticket'[t]
             => InLine(s) /\ ticket[s] < ticket[t]]_vars
  BY <1>1
<1>3. QED BY <1>2, QueueInit, TypeCorrect, QueueStep, PTL DEF Spec, NoOvertaking

\* The steps a call has before it, itself included.
Ahead(t) == CASE pc[t] = "start"                           -> 7
              [] pc[t] = "returning"                       -> 6
              [] pc[t] = "ready"                           -> 5
              [] pc[t] = "queued"                          -> 4
              [] pc[t] \in {"compare", "append", "remove"} -> 3
              [] pc[t] \in {"rename", "dropHash"}          -> 2
              [] pc[t] = "setHash"                         -> 1
              [] OTHER                                     -> 0

\* A step of a call brings it nearer to its end, and no step takes a call further
\* from its own.
CallsSpend ==
  [][\A t \in Task : /\ Step(t) => Ahead(t)' < Ahead(t)
                     /\ Ahead(t)' <= Ahead(t)]_vars

\* A call makes at most seven steps, whatever fails, so the line in front of one
\* that waits comes to its end when those in it keep going.
THEOREM CallsAreShort == Spec => CallsSpend
<1>1. ASSUME TypeOK, NEW t \in Task, Step(t)
      PROVE  Ahead(t)' < Ahead(t) /\ pc' = [pc EXCEPT ![t] = pc'[t]]
  BY <1>1 DEF TypeOK, Pc, Critical, Step, ReadFile, ReadNothing, ReadReturn, Enqueue, Enter,
              Compare, CompareBlind, Rename, WriteDone, AppendFile, Remove, DropHash, Fails,
              Leave, Ahead
<1>2. ASSUME TypeOK, [Next]_vars, NEW t \in Task PROVE Ahead(t)' <= Ahead(t)
  <2>0. Ahead(t) \in Nat
    BY DEF Ahead
  <2>1. ASSUME pc'[t] = pc[t] PROVE Ahead(t)' <= Ahead(t)
    BY <2>0, <2>1 DEF Ahead
  <2>2. ASSUME NEW s \in Task, Step(s) PROVE Ahead(t)' <= Ahead(t)
    <3>1. CASE s = t
      BY <1>1, <1>2, <2>0, <2>2, <3>1 DEF Ahead
    <3>2. CASE s # t
      <4>1. pc'[t] = pc[t]
        BY <1>1, <1>2, <2>2, <3>2 DEF TypeOK
      <4>2. QED BY <2>1, <4>1
    <3>3. QED BY <3>1, <3>2
  <2>3. CASE Evict \/ (\E e \in Edit : ExternalEdit(e)) \/ UNCHANGED vars
    BY <2>1, <2>3 DEF Evict, ExternalEdit, vars
  <2>4. QED BY <1>2, <2>2, <2>3 DEF Next
<1>3. ASSUME TypeOK, [Next]_vars
      PROVE  \A t \in Task : /\ Step(t) => Ahead(t)' < Ahead(t)
                             /\ Ahead(t)' <= Ahead(t)
  BY <1>1, <1>2, <1>3
<1>4. QED BY <1>3, TypeCorrect, PTL DEF Spec, CallsSpend

-----------------------------------------------------------------------------
(* The hash check.                                                         *)

\* As long as no other call moved the hash, an update that read the file compares
\* with the hash of what it read, and what it read is what it checked.
GuardInv ==
  \A t \in Task :
    kindOf[t] = "update" /\ t \notin unguarded =>
      /\ pc[t] \in {"ready", "queued"} => readHash = got[t]
      /\ pc[t] = "compare" => lastRead[t] = got[t]
      /\ pc[t] = "rename" /\ checked[t] # Absent => checked[t] = got[t]

\* Only updates compare and rename.
KindInv ==
  \A t \in Task :
    /\ pc[t] \in {"ready", "compare", "rename", "setHash"}
         => kindOf[t] = "update"
    /\ pc[t] \in {"append", "remove", "dropHash"} => kindOf[t] # "update"
    /\ kindOf[t] = "read" => pc[t] # "queued"

\* Every step keeps the guard.
LEMMA GuardStep ==
  ASSUME TypeOK, GuardInv, KindInv, [Next]_vars
  PROVE  GuardInv' /\ KindInv'
<1> USE KindAssumption, ContentFacts DEF TypeOK, queue
<1>0. ASSUME NEW t \in Task, Step(t) PROVE KindInv'
  BY <1>0 DEF Step, KindInv, ReadFile, ReadReturn, Enqueue, Enter, Compare,
              Leave, Rename, WriteDone, AppendFile, Remove, DropHash,
              ReadNothing, CompareBlind, Fails, Kind
<1>1. ASSUME NEW t \in Task, Step(t) PROVE GuardInv'
  <2>1. CASE ReadFile(t)
    BY <2>1 DEF ReadFile, GuardInv
  <2>2. CASE ReadReturn(t)
    BY <2>2 DEF ReadReturn, GuardInv, Deciding
  <2>3. CASE Enqueue(t)
    BY <2>3, <1>0, <1>1 DEF Enqueue, GuardInv
  <2>4. CASE Enter(t)
    BY <2>4 DEF Enter, GuardInv
  <2>5. CASE Compare(t)
    <3>1. CASE Conflict(t)
      BY <2>5, <3>1 DEF Compare, Leave, GuardInv
    <3>2. CASE ~Conflict(t)
      BY <2>5, <3>2 DEF Compare, Conflict, GuardInv
    <3>3. QED BY <3>1, <3>2
  <2>6. CASE Rename(t)
    BY <2>6 DEF Rename, GuardInv
  <2>7. CASE WriteDone(t)
    BY <2>7 DEF WriteDone, Leave, GuardInv, Deciding
  <2>8. CASE AppendFile(t)
    BY <2>8 DEF AppendFile, GuardInv
  <2>9. CASE Remove(t)
    BY <2>9 DEF Remove, GuardInv
  <2>10. CASE DropHash(t)
    BY <2>10 DEF DropHash, Leave, GuardInv, Deciding
  <2>11. CASE ReadNothing(t)
    BY <2>11 DEF ReadNothing, GuardInv
  <2>12. CASE Fails(t)
    BY <2>12 DEF Fails, Leave, GuardInv
  <2>13. CASE CompareBlind(t)
    BY <2>13 DEF CompareBlind, GuardInv
  <2>14. QED
    BY <1>1, <2>1, <2>2, <2>3, <2>4, <2>5, <2>6, <2>7, <2>8, <2>9, <2>10,
       <2>11, <2>12, <2>13
    DEF Step
<1>2. CASE Evict
  BY <1>2 DEF Evict, GuardInv, KindInv, Deciding
<1>3. ASSUME NEW e \in Edit, ExternalEdit(e) PROVE GuardInv' /\ KindInv'
  BY <1>3 DEF ExternalEdit, GuardInv, KindInv
<1>4. CASE UNCHANGED vars
  BY <1>4 DEF vars, GuardInv, KindInv
<1>5. QED BY <1>0, <1>1, <1>2, <1>3, <1>4 DEF Next

\* An update that read the file, and whose hash no other call moved since, drops
\* nothing that was in the file when its write was checked.
THEOREM GuardedUpdates == Spec => GuardedUpdate
<1>1. Init => GuardInv /\ KindInv
  BY DEF Init, GuardInv, KindInv
<1>2. TypeOK /\ GuardInv /\ KindInv =>
        [\A t \in Task :
           Rename(t) /\ t \notin unguarded /\ checked[t] # Absent
             => checked[t] \subseteq disk']_vars
  <2>1. SUFFICES ASSUME GuardInv, KindInv, NEW t \in Task, Rename(t),
                        t \notin unguarded, checked[t] # Absent
                 PROVE  checked[t] \subseteq disk'
    OBVIOUS
  <2>2. checked[t] = got[t]
    BY <2>1 DEF Rename, GuardInv, KindInv
  <2>3. QED BY <2>1, <2>2 DEF Rename, Updated
<1>3. QED BY <1>1, <1>2, TypeCorrect, GuardStep, PTL DEF Spec, GuardedUpdate
=============================================================================
