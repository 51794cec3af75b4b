------------------------- MODULE AgentSession_Proofs -------------------------
(***************************************************************************)
(* What holds of replication and of the sessions over it for any number of *)
(* calls, sessions and facts, any states other devices commit, and any     *)
(* lost requests, failures and restarts.                                   *)
(***************************************************************************)
EXTENDS AgentSession, TLAPS

USE DEF runtime

-----------------------------------------------------------------------------
(* Tables.                                                                 *)

\* The three paths differ.
LEMMA PathFacts ==
  Notes # Nodes /\ Notes # Edges /\ Nodes # Edges /\ Path \subseteq Nat
BY PathAssumption DEF Path

\* The operators on tables give tables.
LEMMA NoFilesTable == Table(NoFiles)
BY DEF Table, NoFiles

LEMMA GetFacts ==
  ASSUME NEW f, Table(f), NEW p PROVE Get(f, p) \subseteq Fact
BY DEF Table, Get

LEMMA OverTable ==
  ASSUME NEW f, NEW g, Table(f), Table(g) PROVE Table(Over(f, g))
BY DEF Table, Over

LEMMA PutTable ==
  ASSUME NEW f, Table(f), NEW p \in Path, NEW s \in SUBSET Fact PROVE Table(Put(f, p, s))
BY DEF Table, Put

LEMMA DropTable ==
  ASSUME NEW f, Table(f), NEW S PROVE Table(Drop(f, S))
BY DEF Table, Drop

LEMMA ChooseTable ==
  ASSUME NEW f, Table(f), NEW S, S \subseteq DOMAIN f PROVE Table(Choose(f, S))
BY DEF Table, Choose

LEMMA PairTable ==
  ASSUME NEW f, Table(f) PROVE Table(Pair(f))
BY GetFacts DEF Table, Pair, Path

LEMMA PutSame ==
  ASSUME NEW f, Table(f), NEW p \in DOMAIN f PROVE Put(f, p, f[p]) = f
BY DEF Table, Put

\* What a table holds after each of them.
LEMMA OverGet ==
  ASSUME NEW f, NEW g, NEW p
  PROVE  Get(Over(f, g), p) = IF p \in DOMAIN g THEN g[p] ELSE Get(f, p)
BY DEF Get, Over

LEMMA PutGet ==
  ASSUME NEW f, NEW p, NEW q, NEW s
  PROVE  Get(Put(f, p, s), q) = IF q = p THEN s ELSE Get(f, q)
BY DEF Get, Put

LEMMA DropGet ==
  ASSUME NEW f, NEW S, NEW q
  PROVE  Get(Drop(f, S), q) = IF q \in S THEN {} ELSE Get(f, q)
BY DEF Get, Drop

LEMMA ChooseGet ==
  ASSUME NEW f, NEW S, S \subseteq DOMAIN f, NEW p
  PROVE  Get(Choose(f, S), p) = IF p \in S THEN f[p] ELSE {}
BY DEF Get, Choose

LEMMA DifferingDomain ==
  ASSUME NEW f, NEW g PROVE Differing(f, g) \subseteq DOMAIN f
BY DEF Differing

\* A template written where a file was missing changes nothing to read.
LEMMA MakeGet ==
  ASSUME NEW f, NEW p, NEW q, p \notin DOMAIN f \/ Get(f, p) = {}
  PROVE  Get(Put(f, p, {}), q) = Get(f, q)
BY PutGet DEF Get

LEMMA ChooseNothing ==
  ASSUME NEW f, NEW S, DOMAIN Choose(f, S) = {} PROVE Choose(f, S) = NoFiles
BY DEF Choose, NoFiles

-----------------------------------------------------------------------------
(* The phases of a call.                                                   *)

\* What a call holds in each of its phases.
Phase(c) ==
  /\ pc[c] \in Rest \cup {"snapshot"} =>
       man[c] = NoFiles /\ plan[c] = NoFiles /\ todo[c] = {} /\ drop[c] = {}
  /\ pc[c] \in {"ready", "create"} => man[c] = NoFiles /\ plan[c] = NoFiles /\ drop[c] = {}
  /\ pc[c] = "save" => /\ DOMAIN man[c] = {Notes}
                       /\ plan[c] = NoFiles /\ todo[c] = {} /\ drop[c] = {}
  /\ pc[c] = "scan" => /\ todo[c] # {} /\ DOMAIN man[c] \cap todo[c] = {}
                       /\ plan[c] = NoFiles /\ drop[c] = {}
  /\ pc[c] = "ask" => plan[c] = NoFiles /\ drop[c] = {}
  /\ pc[c] \in {"fetch", "remove", "reindex", "recreate"} => op[c] = "pull"
  /\ Making(c) => todo[c] # {}
  /\ pc[c] \in {"upload", "commit"} => op[c] = "push" /\ drop[c] = {}
  /\ pc[c] \in {"fetch", "upload"} => todo[c] # {} /\ todo[c] \subseteq DOMAIN plan[c]
  /\ pc[c] = "remove" => todo[c] \subseteq drop[c]
  /\ drop[c] \cap DOMAIN plan[c] = {}

PhaseInv == \A c \in Call : Phase(c)

\* The cloud knows of each file whether it has it or removed it, not both, and
\* its documents are remembered.
CloudInv ==
  /\ removed \cap DOMAIN cloud = {}
  /\ removed \cup DOMAIN cloud = Path
  /\ Get(cloud, Notes) \subseteq sent
  /\ cursor \in Nat

\* A graph write in flight has both files to write.
LinkInv == linking # NoFiles => DOMAIN linking = {Nodes, Edges}

-----------------------------------------------------------------------------
(* Typing.                                                                 *)

\* A loop over files finds the first of them.
LEMMA FirstFacts ==
  ASSUME SyncTypeOK, NEW c \in Call, todo[c] # {}
  PROVE  First(c) \in todo[c] /\ First(c) \in Path
<1>1. todo[c] \subseteq {Notes, Nodes, Edges}
  BY DEF SyncTypeOK, Path
<1>2. \E p \in todo[c] : \A q \in todo[c] : p <= q
  BY <1>1, PathAssumption
<1>3. QED BY <1>1, <1>2 DEF First, Path

\* A call that ends or restarts its phases keeps the types of its locals.
LEMMA FinishType ==
  ASSUME SyncTypeOK, NEW c \in Call, NEW step \in Rest, Finish(c, step)
  PROVE  /\ pc' \in [Call -> Steps] /\ op' \in [Call -> {"pull", "push"}]
         /\ DOMAIN man' = Call /\ DOMAIN plan' = Call
         /\ \A d \in Call : Table(man'[d]) /\ Table(plan'[d])
         /\ todo' \in [Call -> SUBSET Path] /\ drop' \in [Call -> SUBSET Path]
         /\ at' \in [Call -> Nat] /\ tries' \in [Call -> Nat]
BY NoFilesTable DEF SyncTypeOK, Finish, Goto, Clear, Rest, Steps

LEMMA RetryType ==
  ASSUME SyncTypeOK, NEW c \in Call, Retry(c)
  PROVE  /\ pc' \in [Call -> Steps] /\ op' \in [Call -> {"pull", "push"}]
         /\ DOMAIN man' = Call /\ DOMAIN plan' = Call
         /\ \A d \in Call : Table(man'[d]) /\ Table(plan'[d])
         /\ todo' \in [Call -> SUBSET Path] /\ drop' \in [Call -> SUBSET Path]
         /\ at' \in [Call -> Nat] /\ tries' \in [Call -> Nat]
         /\ quiet' \subseteq Call
<1>1. CASE tries[c] + 1 < Attempts
  BY <1>1 DEF SyncTypeOK, Retry
<1>2. CASE ~(tries[c] + 1 < Attempts)
  <2>1. Finish(c, "failed") /\ quiet' = quiet \ {c}
    BY <1>2 DEF Retry, Throw
  <2>2. QED BY <2>1, FinishType DEF Rest, SyncTypeOK
<1>3. QED BY <1>1, <1>2

\* The bootstrap keeps the types, a file at a time.
LEMMA EnsureType ==
  ASSUME SyncTypeOK, NEW c \in Call, NEW look \in Steps, NEW make \in Steps,
         EnsureFile(c, look, make), pc[c] = make => todo[c] # {}
  PROVE  /\ Table(disk') /\ quiet' \subseteq Call
         /\ pc' \in [Call -> Steps] /\ todo' \in [Call -> SUBSET Path]
         /\ UNCHANGED <<op, man, plan, drop, at, tries, bounds>>
<1>1. CASE Find(c, look, make)
  BY <1>1 DEF SyncTypeOK, EnsureFile, Find, Goto
<1>2. CASE Make(c, look, make)
  <2>1. First(c) \in Path
    BY <1>2, FirstFacts DEF Make
  <2>2. Table(disk')
    BY <1>2, <2>1, PutTable DEF SyncTypeOK, Make
  <2>3. QED BY <1>2, <2>2 DEF SyncTypeOK, EnsureFile, Make, Goto
<1>3. QED BY <1>1, <1>2 DEF EnsureFile

\* Every step of a call keeps the types.
LEMMA CallType ==
  ASSUME SyncTypeOK, PhaseInv, NEW c \in Call, SyncStep(c)
  PROVE  SyncTypeOK'
<1> USE DEF SyncTypeOK, device, replica, locals, bounds, Steps
<1>1. CASE Snapshot(c)
  <2>1. CASE /\ man' = [man EXCEPT ![c] = Put(@, Notes, Get(disk, Notes))]
             /\ Goto(c, "save")
             /\ UNCHANGED <<op, todo, plan, drop, at, tries, quiet, bounds>>
    <3>1. Get(disk, Notes) \in SUBSET Fact /\ Notes \in Path
      BY GetFacts DEF Path
    <3>2. Table(Put(man[c], Notes, Get(disk, Notes)))
      BY <3>1, PutTable
    <3>3. pc' \in [Call -> Steps] /\ DOMAIN man' = Call
      BY <2>1 DEF Goto
    <3>4. \A d \in Call : Table(man'[d])
      BY <2>1, <3>2
    <3>5. QED BY <1>1, <2>1, <3>3, <3>4 DEF Snapshot
  <2>2. CASE Throw(c)
    <3>1. events' \in Nat /\ calls' \in Nat
      BY <1>1, <2>2 DEF Snapshot, Event
    <3>2. Finish(c, "failed") /\ quiet' = quiet \ {c}
      BY <2>2 DEF Throw
    <3>3. QED BY <1>1, <2>2, <3>1, <3>2, FinishType DEF Snapshot, Rest
  <2>3. QED BY <1>1, <2>1, <2>2 DEF Snapshot
<1>2. CASE Save(c)
  <2>1. CASE kept' = kept \cup man[c][Notes] /\ BeginScan(c) /\ UNCHANGED bounds
    <3>1. man[c][Notes] \subseteq Fact
      BY <1>2 DEF Save, PhaseInv, Phase, Table
    <3>2. /\ DOMAIN man' = Call /\ \A d \in Call : Table(man'[d])
          /\ pc' \in [Call -> Steps] /\ todo' \in [Call -> SUBSET Path]
          /\ quiet' \subseteq Call /\ UNCHANGED <<op, plan, drop, at, tries>>
      BY <2>1, NoFilesTable DEF BeginScan, Goto
    <3>3. QED BY <1>2, <2>1, <3>1, <3>2 DEF Save
  <2>2. CASE Event /\ Throw(c) /\ UNCHANGED kept
    <3>1. events' \in Nat /\ calls' \in Nat
      BY <2>2 DEF Event
    <3>2. Finish(c, "failed") /\ quiet' = quiet \ {c}
      BY <2>2 DEF Throw
    <3>3. QED BY <1>2, <2>2, <3>1, <3>2, FinishType DEF Save, Rest
  <2>3. QED BY <1>2, <2>1, <2>2 DEF Save
<1>3. CASE Ready(c)
  <2>1. CASE EnsureFile(c, "ready", "create") /\ UNCHANGED <<hydrated, cache>>
    BY <1>3, <2>1, EnsureType DEF Ready, PhaseInv, Phase, Making
  <2>2. CASE /\ hydrated' = TRUE /\ cache' = IF hydrated THEN cache ELSE Pair(disk)
             /\ Goto(c, "snapshot") /\ UNCHANGED <<disk, locals, quiet, bounds>>
    <3>1. Table(cache') /\ pc' \in [Call -> Steps]
      BY <2>2, PairTable DEF Goto
    <3>2. QED BY <1>3, <2>2, <3>1 DEF Ready
  <2>3. CASE Throw(c) /\ UNCHANGED <<disk, hydrated, cache>>
    <3>1. events' \in Nat /\ calls' \in Nat
      BY <1>3, <2>3 DEF Ready, Event, EnsureFile
    <3>2. Finish(c, "failed") /\ quiet' = quiet \ {c}
      BY <2>3 DEF Throw
    <3>3. QED BY <1>3, <2>3, <3>1, <3>2, FinishType DEF Ready, Rest
  <2>4. QED BY <1>3, <2>1, <2>2, <2>3 DEF Ready
<1>4. CASE Scan(c)
  <2> DEFINE p == First(c)
  <2>1. man' = [man EXCEPT ![c] = IF p \in DOMAIN disk THEN Put(@, p, disk[p]) ELSE @]
    BY <1>4 DEF Scan
  <2> HIDE DEF p
  <2>2. Table(man'[c])
    <3>1. CASE p \in DOMAIN disk
      <4>1. p \in Path /\ disk[p] \in SUBSET Fact
        BY <3>1 DEF Table
      <4>2. man'[c] = Put(man[c], p, disk[p])
        BY <2>1, <3>1
      <4>3. QED BY <4>1, <4>2, PutTable
    <3>2. CASE p \notin DOMAIN disk
      BY <2>1, <3>2
    <3>3. QED BY <3>1, <3>2
  <2>3. /\ DOMAIN man' = Call
        /\ \A d \in Call : d # c => man'[d] = man[d]
    BY <2>1
  <2>4. \A d \in Call : Table(man'[d])
    BY <2>2, <2>3
  <2>5. todo' \in [Call -> SUBSET Path] /\ pc' \in [Call -> Steps]
    BY <1>4 DEF Scan, Goto
  <2>6. mixed' \in BOOLEAN
    BY <1>4 DEF Scan
  <2>7. QED BY <1>4, <2>3, <2>4, <2>5, <2>6 DEF Scan
<1>5. CASE Ask(c)
  <2> DEFINE wanted == IF op[c] = "push" THEN Choose(man[c], Differing(man[c], cloud))
                                         ELSE Choose(cloud, Differing(cloud, man[c]))
  <2>1. Table(wanted)
    BY ChooseTable, DifferingDomain
  <2> HIDE DEF wanted
  <2>2. CASE Retry(c)
    BY <1>5, <2>2, RetryType DEF Ask
  <2>3. CASE ~Retry(c)
    <3>1. /\ plan' = [plan EXCEPT ![c] = wanted]
          /\ drop' = [drop EXCEPT ![c] = IF op[c] = "pull" THEN removed \cap DOMAIN man[c] ELSE {}]
          /\ todo' = [todo EXCEPT ![c] = IF wanted = NoFiles THEN drop'[c] ELSE DOMAIN wanted]
          /\ at' = [at EXCEPT ![c] = cursor]
          /\ tries' = [tries EXCEPT ![c] = 0]
          /\ \E s \in Steps : Goto(c, s)
          /\ UNCHANGED <<op, man, quiet>>
      BY <1>5, <2>3 DEF Ask, wanted
    <3>2. drop' \in [Call -> SUBSET Path]
      BY <3>1
    <3>3. todo' \in [Call -> SUBSET Path]
      BY <2>1, <3>1, <3>2 DEF Table
    <3>4. pc' \in [Call -> Steps]
      BY <3>1 DEF Goto
    <3>5. QED BY <1>5, <2>1, <3>1, <3>2, <3>3, <3>4 DEF Ask
  <2>4. QED BY <2>2, <2>3
<1>6. CASE Fetch(c)
  <2>1. CASE Event /\ Throw(c)
                   /\ mixed' = (mixed \/ todo[c] # DOMAIN plan[c]) /\ UNCHANGED <<disk, late>>
    <3>1. events' \in Nat /\ calls' \in Nat
      BY <2>1 DEF Event
    <3>2. Finish(c, "failed") /\ quiet' = quiet \ {c}
      BY <2>1 DEF Throw
    <3>3. mixed' \in BOOLEAN
      BY <2>1
    <3>4. QED BY <1>6, <2>1, <3>1, <3>2, <3>3, FinishType DEF Fetch, Rest
  <2>2. ASSUME NEW p \in todo[c], NEW bytes \in {plan[c][p], Garbled},
               Accepted(bytes, plan[c][p]), disk' = Put(disk, p, bytes),
               todo' = [todo EXCEPT ![c] = IF @ = {p} THEN drop[c] ELSE @ \ {p}],
               IF todo[c] = {p} THEN Goto(c, "remove") ELSE UNCHANGED pc,
               quiet' = quiet \cap {c},
               late' = IF p = Notes /\ Exposed(Call \ {c}) THEN late \cup bytes ELSE late,
               mixed' = (mixed \/ Crossed(c)),
               UNCHANGED <<op, man, plan, drop, at, tries, bounds>>
        PROVE  SyncTypeOK'
    <3>1. p \in DOMAIN plan[c] => plan[c][p] \in SUBSET Fact
      BY DEF Table
    <3>2. p \in DOMAIN plan[c]
      BY <1>6 DEF PhaseInv, Phase, Fetch
    <3>3. bytes \in SUBSET Fact
      BY <3>1, <3>2 DEF Garbled
    <3>4. Table(disk') /\ late' \subseteq Fact
      BY <2>2, <3>3, PutTable
    <3>5. pc' \in [Call -> Steps] /\ todo' \in [Call -> SUBSET Path]
      BY <2>2 DEF Goto
    <3>6. mixed' \in BOOLEAN /\ quiet' \subseteq Call
      BY <2>2
    <3>7. QED BY <1>6, <2>2, <3>4, <3>5, <3>6 DEF Fetch
  <2>3. QED BY <1>6, <2>1, <2>2 DEF Fetch
<1>7. CASE Remove(c)
  <2>1. Table(disk')
    <3>1. CASE UNCHANGED disk
      BY <3>1
    <3>2. ASSUME NEW p \in todo[c], disk' = Drop(disk, {p}) PROVE Table(disk')
      BY <3>2, DropTable
    <3>3. QED BY <1>7, <3>1, <3>2 DEF Remove
  <2>2. CASE /\ Goto(c, "reindex") /\ todo' = [todo EXCEPT ![c] = Templates]
             /\ UNCHANGED <<disk, op, man, plan, drop, at, tries, quiet, mixed, bounds>>
    BY <1>7, <2>2 DEF Remove, Goto, Templates
  <2>3. CASE todo[c] # {} /\ Event /\ Throw(c) /\ mixed' = TRUE /\ UNCHANGED disk
    <3>1. events' \in Nat /\ calls' \in Nat
      BY <2>3 DEF Event
    <3>2. Finish(c, "failed") /\ quiet' = quiet \ {c}
      BY <2>3 DEF Throw
    <3>3. QED BY <1>7, <2>3, <3>1, <3>2, FinishType DEF Remove, Rest
  <2>4. CASE /\ \E p \in todo[c] :
                  disk' = Drop(disk, {p}) /\ todo' = [todo EXCEPT ![c] = @ \ {p}]
             /\ quiet' = quiet \cap {c}
             /\ mixed' = (mixed \/ Crossed(c))
             /\ UNCHANGED <<pc, op, man, drop, plan, at, tries, bounds>>
    <3>1. mixed' \in BOOLEAN
      BY <2>4
    <3>2. todo' \in [Call -> SUBSET Path]
      BY <2>4
    <3>3. QED BY <1>7, <2>1, <2>4, <3>1, <3>2 DEF Remove
  <2>5. QED BY <1>7, <2>2, <2>3, <2>4 DEF Remove
<1>8. CASE Reindex(c)
  <2>1. CASE EnsureFile(c, "reindex", "recreate")
    BY <1>8, <2>1, EnsureType DEF Reindex, PhaseInv, Phase, Making
  <2>2. CASE Finish(c, "done") /\ quiet' = quiet \ {c} /\ UNCHANGED disk
    <3>1. events' \in Nat /\ calls' \in Nat
      BY <1>8, <2>2 DEF Reindex, Event, EnsureFile
    <3>2. QED BY <1>8, <2>2, <3>1, FinishType DEF Reindex, Rest
  <2>3. QED BY <1>8, <2>1, <2>2 DEF Reindex
<1>9. CASE Upload(c)
  <2>1. CASE Throw(c)
    <3>1. events' \in Nat /\ calls' \in Nat
      BY <1>9 DEF Upload, Event
    <3>2. Finish(c, "failed") /\ quiet' = quiet \ {c}
      BY <2>1 DEF Throw
    <3>3. QED BY <1>9, <3>1, <3>2, FinishType DEF Upload, Rest
  <2>2. CASE ~Throw(c)
    <3>1. PICK p \in todo[c] :
             /\ p \in DOMAIN disk /\ disk[p] = plan[c][p]
             /\ plan' = [plan EXCEPT ![c] = Put(@, p, disk[p])]
             /\ todo' = [todo EXCEPT ![c] = @ \ {p}]
             /\ IF todo[c] = {p} THEN Goto(c, "commit") ELSE UNCHANGED pc
             /\ UNCHANGED <<op, man, drop, at, tries, quiet, bounds>>
      BY <1>9, <2>2 DEF Upload
    <3>2. p \in Path /\ disk[p] \in SUBSET Fact
      BY <3>1 DEF Table
    <3>3. Table(Put(plan[c], p, disk[p]))
      BY <3>2, PutTable
    <3>4. DOMAIN plan' = Call /\ \A d \in Call : Table(plan'[d])
      BY <3>1, <3>3
    <3>5. pc' \in [Call -> Steps] /\ todo' \in [Call -> SUBSET Path]
      BY <3>1 DEF Goto
    <3>6. QED BY <1>9, <3>1, <3>4, <3>5 DEF Upload
  <2>3. QED BY <2>1, <2>2
<1>10. CASE Complete(c)
  <2>1. (Table(cloud') /\ cursor' \in Nat /\ removed' \subseteq Path /\ sent' \subseteq Fact)
    <3>1. CASE Committed(c)
      BY <3>1, OverTable, GetFacts DEF Committed
    <3>2. CASE UNCHANGED <<replica, sent>>
      BY <3>2
    <3>3. QED BY <1>10, <3>1, <3>2 DEF Complete
  <2>2. CASE Finish(c, "done") /\ UNCHANGED quiet
    BY <1>10, <2>1, <2>2, FinishType DEF Complete, Rest
  <2>3. CASE Retry(c)
    BY <1>10, <2>1, <2>3, RetryType DEF Complete
  <2>4. QED BY <1>10, <2>2, <2>3 DEF Complete
<1>11. QED BY <1>1, <1>4, <1>5, <1>6, <1>7, <1>8, <1>9, <1>10, <1>2, <1>3 DEF SyncStep

\* So do the writes of the process, the commits of other devices, the start of
\* a call and a restart.
LEMMA DocumentsType ==
  ASSUME SyncTypeOK, NEW S \in SUBSET Fact, Documents(S)
  PROVE  Table(disk') /\ late' \subseteq Fact /\ quiet' = {}
<1>1. Table(disk')
  BY PutTable DEF SyncTypeOK, Documents, Path
<1>2. QED BY <1>1 DEF SyncTypeOK, Documents

LEMMA AppendType ==
  ASSUME SyncTypeOK, NEW S \in SUBSET Fact, AppendNotes(S)
  PROVE  Table(disk') /\ late' \subseteq Fact /\ quiet' = {}
<1>1. Get(disk, Notes) \cup S \in SUBSET Fact
  BY GetFacts DEF SyncTypeOK
<1>2. QED BY <1>1, DocumentsType DEF AppendNotes

LEMMA WriterType ==
  ASSUME SyncTypeOK, NEW f \in Written, ReadNotes(f) \/ WriteNotes(f)
  PROVE  SyncTypeOK'
<1> USE DEF SyncTypeOK, replica, locals, history, bounds
<1>1. f \in Fact
  BY WrittenAssumption
<1>2. CASE ReadNotes(f)
  <2>1. PICK read \in {Get(disk, Notes), {}} : draft' = Put(draft, f, read)
    BY <1>2 DEF ReadNotes
  <2>2. read \subseteq Fact
    BY GetFacts
  <2>3. DOMAIN draft' \subseteq Written /\ draft' \in [DOMAIN draft' -> SUBSET Fact]
    BY <2>1, <2>2 DEF Put
  <2>4. calls' \in Nat
    BY <1>2 DEF ReadNotes, Asked
  <2>5. QED BY <1>2, <2>3, <2>4 DEF ReadNotes
<1>3. CASE WriteNotes(f)
  <2>1. DOMAIN draft' \subseteq Written /\ draft' \in [DOMAIN draft' -> SUBSET Fact]
    BY <1>3 DEF WriteNotes, Drop
  <2>2. draft[f] \cup {f} \in SUBSET Fact
    BY <1>1, <1>3 DEF WriteNotes
  <2>3. Table(disk') /\ late' \subseteq Fact /\ quiet' \subseteq Call
    BY <1>3, <2>2, DocumentsType DEF WriteNotes
  <2>4. QED BY <1>3, <2>1, <2>3 DEF WriteNotes
<1>4. QED BY <1>2, <1>3

LEMMA LinkType ==
  ASSUME SyncTypeOK, LinkInv, NEW f \in Fact, LinkNodes(f) \/ LinkEdges
  PROVE  SyncTypeOK'
<1> USE DEF SyncTypeOK, device, replica, locals, bounds
<1>1. CASE LinkNodes(f)
  <2> DEFINE maps == IF hydrated THEN cache ELSE Pair(disk)
  <2>1. Table(maps)
    BY PairTable
  <2> HIDE DEF maps
  <2>2. cache' = [p \in {Nodes, Edges} |-> Get(maps, p) \cup {f}]
    BY <1>1 DEF LinkNodes, maps
  <2>3. \A p \in {Nodes, Edges} : Get(maps, p) \cup {f} \in SUBSET Fact
    BY <2>1, GetFacts
  <2>4. Table(cache') /\ cache'[Nodes] \in SUBSET Fact
    BY <2>2, <2>3 DEF Table, Path
  <2>5. Table(disk')
    BY <1>1, <2>4, PutTable DEF LinkNodes, Path
  <2>6. mixed' \in BOOLEAN
    BY <1>1 DEF LinkNodes
  <2>7. events' \in Nat /\ calls' \in Nat
    BY <1>1 DEF LinkNodes, Event
  <2>8. Table(linking') /\ hydrated' \in BOOLEAN /\ quiet' \subseteq Call
    BY <1>1, <2>4 DEF LinkNodes
  <2>9. QED BY <1>1, <2>4, <2>5, <2>6, <2>7, <2>8 DEF LinkNodes
<1>2. CASE LinkEdges
  <2>1. linking[Edges] \in SUBSET Fact
    <3>1. Edges \in DOMAIN linking
      BY <1>2 DEF LinkEdges, LinkInv
    <3>2. QED BY <3>1 DEF Table
  <2>2. Table(disk')
    BY <1>2, <2>1, PutTable DEF LinkEdges, Path
  <2>3. mixed' \in BOOLEAN
    BY <1>2 DEF LinkEdges
  <2>4. QED BY <1>2, <2>2, <2>3, NoFilesTable DEF LinkEdges
<1>3. QED BY <1>1, <1>2

LEMMA ElsewhereType ==
  ASSUME SyncTypeOK, NEW f \in Remote, Elsewhere(f)
  PROVE  SyncTypeOK'
<1>1. Table(f)
  BY TableAssumption
<1>2. Get(f, Notes) \subseteq Fact
  BY <1>1, GetFacts
<1>3. DOMAIN cloud \subseteq Path
  BY DEF SyncTypeOK, Table
<1>4. mixed' \in BOOLEAN
  BY DEF Elsewhere, SyncTypeOK
<1>5. QED BY <1>1, <1>2, <1>3, <1>4 DEF SyncTypeOK, Elsewhere, Event, device, locals

LEMMA StartType ==
  ASSUME SyncTypeOK, NEW c \in Call, NEW kind \in {"pull", "push"}, Start(c, kind),
         kept' \subseteq Fact, calls' \in Nat
  PROVE  SyncTypeOK'
BY DEF SyncTypeOK, Start, Goto, Steps, replica, Templates

LEMMA RestartType ==
  ASSUME SyncTypeOK, Restart
  PROVE  SyncTypeOK'
<1>1. events' \in Nat /\ calls' \in Nat
  BY DEF SyncTypeOK, Restart, Event
<1>2. mixed' \in BOOLEAN
  BY DEF Restart
<1>3. DOMAIN draft' \subseteq Written /\ draft' \in [DOMAIN draft' -> SUBSET Fact]
  BY DEF Restart, NoFiles
<1>4. QED BY <1>1, <1>2, <1>3, NoFilesTable DEF SyncTypeOK, Restart, Steps, replica

\* The steps of the sessions keep the types.
LEMMA SessionType ==
  ASSUME TypeOK, NEW s \in Session, Prepare(s) \/ CompleteSession(s) \/ SessionStep(s)
  PROVE  TypeOK'
<1> USE SessionAssumption DEF TypeOK, Enter, Stages, Outcomes
<1>0. s \in Call /\ {s} \in SUBSET Fact /\ {Failure} \in SUBSET Fact
  OBVIOUS
<1>1. CASE Prepare(s)
  <2>1. calls' \in Nat
    BY <1>1 DEF Prepare, Asked, SyncTypeOK
  <2>2. SyncTypeOK'
    BY <1>0, <1>1, <2>1, StartType DEF Prepare, SyncTypeOK
  <2>3. QED BY <1>1, <2>2 DEF Prepare
<1>2. CASE Prepared(s)
  <2>1. calls' \in Nat /\ events' \in Nat
    BY <1>2 DEF Prepared, Event, bounds, SyncTypeOK
  <2>2. SyncTypeOK'
    BY <1>2, <2>1 DEF Prepared, device, replica, locals, history, SyncTypeOK
  <2>3. stage' \in [Session -> Stages] /\ work' \subseteq Session
    BY <1>2 DEF Prepared
  <2>4. QED BY <1>2, <2>2, <2>3 DEF Prepared
<1>3. CASE CompleteSession(s)
  <2>1. Table(disk') /\ late' \subseteq Fact /\ quiet' \subseteq Call
    BY <1>0, <1>3, AppendType DEF CompleteSession, SyncTypeOK
  <2>2. calls' \in Nat
    BY <1>3 DEF CompleteSession, Asked, SyncTypeOK
  <2>3. SyncTypeOK'
    BY <1>3, <2>1, <2>2 DEF CompleteSession, SyncTypeOK, replica, locals
  <2>4. /\ stage' \in [Session -> Stages] /\ outcome' \in [Session -> Outcomes]
        /\ noted' \subseteq Session /\ raced' \subseteq Session
    BY <1>3 DEF CompleteSession
  <2>5. QED BY <1>3, <2>3, <2>4 DEF CompleteSession
<1>4. CASE Checkpoint(s)
  <2>1. SyncTypeOK'
    <3>1. CASE Start(s, "push") /\ UNCHANGED <<kept, calls>>
      BY <1>0, <3>1, StartType DEF SyncTypeOK
    <3>2. CASE Event /\ UNCHANGED <<device, replica, pc, locals, history>>
      BY <3>2 DEF Event, device, replica, locals, history, SyncTypeOK
    <3>3. QED BY <1>4, <3>1, <3>2 DEF Checkpoint
  <2>2. stage' \in [Session -> Stages]
    BY <1>4 DEF Checkpoint
  <2>3. QED BY <1>4, <2>1, <2>2 DEF Checkpoint
<1>5. CASE PushFailed(s)
  <2>1. calls' \in Nat /\ events' \in Nat
    BY <1>5 DEF PushFailed, Event, bounds, SyncTypeOK
  <2>2. SyncTypeOK'
    BY <1>5, <2>1 DEF PushFailed, device, replica, locals, history, SyncTypeOK
  <2>3. QED BY <1>5, <2>2 DEF PushFailed
<1>6. CASE Pushed(s)
  <2>1. Table(disk') /\ late' \subseteq Fact /\ quiet' \subseteq Call
    BY <1>0, <1>6, AppendType DEF Pushed, SyncTypeOK
  <2>2. SyncTypeOK'
    BY <1>6, <2>1 DEF Pushed, SyncTypeOK, replica, locals, bounds
  <2>3. work' \subseteq Session
    BY <1>6 DEF Pushed
  <2>4. QED BY <1>6, <2>2, <2>3 DEF Pushed
<1>7. QED BY <1>1, <1>2, <1>3, <1>4, <1>5, <1>6 DEF SessionStep

LEMMA TypeStep ==
  ASSUME TypeOK, PhaseInv, LinkInv, [Next]_vars
  PROVE  TypeOK'
<1> USE DEF TypeOK, sessionVars
<1>1. ASSUME NEW c \in Call, Step(c) PROVE TypeOK'
  BY <1>1, CallType DEF Step, Race
<1>2. ASSUME NEW s \in Session, Prepare(s) \/ CompleteSession(s) \/ SessionStep(s)
      PROVE  TypeOK'
  BY <1>2, SessionType
<1>3. ASSUME NEW c \in Client, Sync(c) PROVE TypeOK'
  <2>1. c \in Call
    BY SessionAssumption
  <2>2. calls' \in Nat /\ kept' \subseteq Fact
    BY <1>3 DEF Sync, Asked, SyncTypeOK
  <2>3. QED BY <1>3, <2>1, <2>2, StartType DEF Sync
<1>4. ASSUME NEW f \in Written, WriteRead(f) \/ WriteBack(f) PROVE TypeOK'
  <2>1. SyncTypeOK'
    BY <1>4, WriterType DEF WriteRead, WriteBack
  <2>2. QED BY <1>4, <2>1 DEF WriteRead, WriteBack, Race
<1>5. ASSUME NEW f \in Linked, Link(f) PROVE TypeOK'
  <2>1. f \in Fact
    BY SessionAssumption
  <2>2. QED BY <1>5, <2>1, LinkType DEF Link
<1>6. CASE LinkDone
  <2>1. SyncTypeOK'
    BY <1>6, SessionAssumption, LinkType DEF LinkDone
  <2>2. QED BY <1>6, <2>1 DEF LinkDone
<1>7. ASSUME NEW f \in Remote, Foreign(f) PROVE TypeOK'
  BY <1>7, ElsewhereType DEF Foreign
<1>8. CASE Crash
  <2>1. stage' \in [Session -> Stages]
    BY <1>8 DEF Crash, Stages
  <2>2. QED BY <1>8, <2>1, RestartType DEF Crash
<1>9. CASE UNCHANGED vars
  BY <1>9 DEF vars, syncVars, device, replica, locals, history, bounds, SyncTypeOK
<1>10. QED BY <1>1, <1>2, <1>3, <1>4, <1>5, <1>6, <1>7, <1>8, <1>9 DEF Next

-----------------------------------------------------------------------------
(* The phases are kept.                                                    *)

\* A step of one call leaves the local variables of the others alone.
LocalsOf(c) == <<pc[c], op[c], man[c], todo[c], plan[c], drop[c], at[c], tries[c]>>

LEMMA FinishOthers ==
  ASSUME SyncTypeOK, NEW c \in Call, NEW step, Finish(c, step)
  PROVE  /\ \A d \in Call \ {c} : UNCHANGED LocalsOf(d)
         /\ pc'[c] = step /\ op'[c] = "pull"
         /\ man'[c] = NoFiles /\ plan'[c] = NoFiles /\ todo'[c] = {} /\ drop'[c] = {}
BY DEF SyncTypeOK, Finish, Goto, Clear, LocalsOf

LEMMA RetryOthers ==
  ASSUME SyncTypeOK, NEW c \in Call, Retry(c)
  PROVE  /\ \A d \in Call \ {c} : UNCHANGED LocalsOf(d)
         /\ \/ UNCHANGED <<pc, op, man, todo, plan, drop, at, quiet>>
            \/ Finish(c, "failed") /\ quiet' = quiet \ {c}
<1>1. CASE tries[c] + 1 < Attempts
  BY <1>1 DEF SyncTypeOK, Retry, LocalsOf
<1>2. CASE ~(tries[c] + 1 < Attempts)
  BY <1>2, FinishOthers DEF Retry, Throw
<1>3. QED BY <1>1, <1>2

LEMMA Others ==
  ASSUME SyncTypeOK, NEW c \in Call, SyncStep(c)
  PROVE  \A d \in Call \ {c} : UNCHANGED LocalsOf(d)
<1> USE DEF SyncTypeOK, device, replica, locals, bounds
<1>1. CASE Snapshot(c)
  BY <1>1, FinishOthers DEF Snapshot, Goto, Throw, LocalsOf
<1>2. CASE Save(c)
  BY <1>2, FinishOthers DEF Save, BeginScan, Goto, Throw, LocalsOf
<1>3. CASE Ready(c)
  <2>1. CASE EnsureFile(c, "ready", "create")
    BY <2>1 DEF EnsureFile, Find, Make, Goto, LocalsOf
  <2>2. QED BY <1>3, <2>1, FinishOthers DEF Ready, Goto, Throw, LocalsOf
<1>4. CASE Scan(c)
  BY <1>4 DEF Scan, Goto, LocalsOf
<1>5. CASE Ask(c)
  BY <1>5, RetryOthers DEF Ask, Goto, LocalsOf
<1>6. CASE Fetch(c)
  BY <1>6, FinishOthers DEF Fetch, Throw, Goto, LocalsOf
<1>7. CASE Remove(c)
  BY <1>7, FinishOthers DEF Remove, Throw, Goto, LocalsOf
<1>8. CASE Reindex(c)
  <2>1. CASE EnsureFile(c, "reindex", "recreate")
    BY <2>1 DEF EnsureFile, Find, Make, Goto, LocalsOf
  <2>2. QED BY <1>8, <2>1, FinishOthers DEF Reindex
<1>9. CASE Upload(c)
  BY <1>9, FinishOthers DEF Upload, Throw, Goto, LocalsOf
<1>10. CASE Complete(c)
  BY <1>10, FinishOthers, RetryOthers DEF Complete
<1>11. QED BY <1>1, <1>4, <1>5, <1>6, <1>7, <1>8, <1>9, <1>10, <1>2, <1>3 DEF SyncStep

\* What the answer of the cloud makes a call do next.
LEMMA AskResult ==
  ASSUME SyncTypeOK, NEW c \in Call, Ask(c)
  PROVE  \/ Retry(c)
         \/ \E wanted \in {IF op[c] = "push" THEN Choose(man[c], Differing(man[c], cloud))
                                             ELSE Choose(cloud, Differing(cloud, man[c]))} :
              /\ plan'[c] = wanted /\ op'[c] = op[c] /\ man'[c] = man[c] /\ at'[c] = cursor
              /\ drop'[c] = IF op[c] = "pull" THEN removed \cap DOMAIN man[c] ELSE {}
              /\ \/ /\ wanted = NoFiles /\ todo'[c] = drop'[c]
                    /\ pc'[c] = IF op[c] = "push" THEN "commit" ELSE "remove"
                 \/ /\ DOMAIN wanted # {} /\ todo'[c] = DOMAIN wanted
                    /\ pc'[c] = IF op[c] = "push" THEN "upload" ELSE "fetch"
              /\ quiet' = quiet
<1> DEFINE wanted == IF op[c] = "push" THEN Choose(man[c], Differing(man[c], cloud))
                                       ELSE Choose(cloud, Differing(cloud, man[c]))
<1>1. DOMAIN wanted = {} <=> wanted = NoFiles
  BY ChooseNothing DEF NoFiles
<1> HIDE DEF wanted
<1>2. CASE ~Retry(c)
  <2>1. /\ plan' = [plan EXCEPT ![c] = wanted]
        /\ drop' = [drop EXCEPT ![c] = IF op[c] = "pull" THEN removed \cap DOMAIN man[c] ELSE {}]
        /\ todo' = [todo EXCEPT ![c] = IF wanted = NoFiles THEN drop'[c] ELSE DOMAIN wanted]
        /\ at' = [at EXCEPT ![c] = cursor]
        /\ Goto(c, IF DOMAIN wanted = {} THEN IF op[c] = "push" THEN "commit" ELSE "remove"
                                         ELSE IF op[c] = "push" THEN "upload" ELSE "fetch")
        /\ UNCHANGED <<op, man, quiet>>
    BY <1>2 DEF Ask, wanted
  <2>2. /\ plan'[c] = wanted /\ op'[c] = op[c] /\ man'[c] = man[c] /\ at'[c] = cursor
        /\ drop'[c] = IF op[c] = "pull" THEN removed \cap DOMAIN man[c] ELSE {}
        /\ quiet' = quiet
    BY <2>1 DEF SyncTypeOK
  <2>3. \/ /\ wanted = NoFiles /\ todo'[c] = drop'[c]
           /\ pc'[c] = IF op[c] = "push" THEN "commit" ELSE "remove"
        \/ /\ DOMAIN wanted # {} /\ todo'[c] = DOMAIN wanted
           /\ pc'[c] = IF op[c] = "push" THEN "upload" ELSE "fetch"
    BY <1>1, <2>1 DEF SyncTypeOK, Goto
  <2>4. QED BY <2>2, <2>3 DEF wanted
<1>3. QED BY <1>2

\* What one file of the bootstrap makes of a call: it goes on to the next file,
\* or finds this one missing, or makes it.
LEMMA EnsureResult ==
  ASSUME SyncTypeOK, NEW c \in Call, NEW look \in Steps, NEW make \in Steps, look # make,
         EnsureFile(c, look, make), pc[c] = make => todo[c] # {}
  PROVE  /\ First(c) \in todo[c] /\ First(c) \in Path
         /\ UNCHANGED <<op, man, plan, drop, at, tries, bounds>>
         /\ \/ /\ pc[c] = look /\ pc'[c] = look /\ todo'[c] = todo[c] \ {First(c)}
               /\ First(c) \in DOMAIN disk /\ UNCHANGED <<disk, quiet>>
            \/ /\ pc[c] = look /\ pc'[c] = make /\ todo'[c] = todo[c]
               /\ First(c) \notin DOMAIN disk /\ UNCHANGED <<disk, quiet>>
            \/ /\ pc[c] = make /\ pc'[c] = look /\ todo'[c] = todo[c] \ {First(c)}
               /\ disk' = Put(disk, First(c), {}) /\ quiet' = quiet \cap {c}
<1>1. todo[c] # {}
  BY DEF EnsureFile, Find, Make
<1>2. First(c) \in todo[c] /\ First(c) \in Path
  BY <1>1, FirstFacts
<1>3. CASE Find(c, look, make)
  BY <1>2, <1>3 DEF EnsureFile, Find, Goto, SyncTypeOK
<1>4. CASE Make(c, look, make)
  BY <1>2, <1>4 DEF EnsureFile, Make, Goto, SyncTypeOK
<1>5. QED BY <1>3, <1>4 DEF EnsureFile

LEMMA CallPhase ==
  ASSUME SyncTypeOK, CloudInv, NEW c \in Call, Phase(c), SyncStep(c)
  PROVE  Phase(c)'
<1> USE DEF SyncTypeOK, device, replica, locals, bounds, Phase, Rest, Making
<1>0. DOMAIN NoFiles = {}
  BY DEF NoFiles
<1>1. CASE Snapshot(c)
  <2>1. CASE /\ man' = [man EXCEPT ![c] = Put(@, Notes, Get(disk, Notes))]
             /\ Goto(c, "save")
             /\ UNCHANGED <<op, todo, plan, drop, at, tries, quiet, bounds>>
    <3>1. DOMAIN man'[c] = {Notes}
      BY <1>0, <1>1, <2>1 DEF Snapshot, Put
    <3>2. QED BY <1>0, <1>1, <2>1, <3>1 DEF Snapshot, Goto
  <2>2. CASE Throw(c)
    BY <1>0, <2>2, FinishOthers DEF Throw
  <2>3. QED BY <1>1, <2>1, <2>2 DEF Snapshot
<1>2. CASE Save(c)
  <2>1. CASE BeginScan(c)
    BY <1>0, <1>2, <2>1 DEF Save, BeginScan, Goto, Path
  <2>2. CASE Throw(c)
    BY <1>0, <2>2, FinishOthers DEF Throw
  <2>3. QED BY <1>2, <2>1, <2>2 DEF Save
<1>3. CASE Ready(c)
  <2>1. CASE EnsureFile(c, "ready", "create")
    <3>1. "ready" \in Steps /\ "create" \in Steps
      BY DEF Steps
    <3>2. QED BY <1>0, <2>1, <3>1, EnsureResult
  <2>2. CASE pc[c] = "ready" /\ todo[c] = {} /\ Goto(c, "snapshot") /\ UNCHANGED locals
    BY <1>0, <2>2 DEF Goto
  <2>3. CASE Throw(c)
    BY <1>0, <2>3, FinishOthers DEF Throw
  <2>4. QED BY <1>3, <2>1, <2>2, <2>3 DEF Ready
<1>4. CASE Scan(c)
  <2> DEFINE p == First(c)
  <2>1. /\ man' = [man EXCEPT ![c] = IF p \in DOMAIN disk THEN Put(@, p, disk[p]) ELSE @]
        /\ todo' = [todo EXCEPT ![c] = @ \ {p}]
        /\ IF todo[c] = {p} THEN Goto(c, "ask") ELSE UNCHANGED pc
        /\ pc[c] = "scan" /\ UNCHANGED <<op, plan, drop>>
    BY <1>4 DEF Scan
  <2> HIDE DEF p
  <2>2. DOMAIN man'[c] \subseteq DOMAIN man[c] \cup {p}
    BY <2>1 DEF Put
  <2>3. QED BY <1>0, <2>1, <2>2 DEF Goto
<1>5. CASE Ask(c)
  <2>1. CASE Retry(c)
    <3>1. CASE UNCHANGED <<pc, op, man, todo, plan, drop, at, quiet>>
      BY <3>1
    <3>2. CASE Finish(c, "failed")
      BY <1>0, <3>2, FinishOthers
    <3>3. QED BY <2>1, <3>1, <3>2, RetryOthers
  <2>2. CASE ~Retry(c)
    <3> DEFINE wanted == IF op[c] = "push" THEN Choose(man[c], Differing(man[c], cloud))
                                           ELSE Choose(cloud, Differing(cloud, man[c]))
    <3>1. op[c] = "pull" => DOMAIN wanted \subseteq DOMAIN cloud
      BY DifferingDomain DEF Choose
    <3> HIDE DEF wanted
    <3>2. /\ plan'[c] = wanted /\ op'[c] = op[c]
          /\ drop'[c] = IF op[c] = "pull" THEN removed \cap DOMAIN man[c] ELSE {}
          /\ \/ /\ wanted = NoFiles /\ todo'[c] = drop'[c]
                /\ pc'[c] = IF op[c] = "push" THEN "commit" ELSE "remove"
             \/ /\ DOMAIN wanted # {} /\ todo'[c] = DOMAIN wanted
                /\ pc'[c] = IF op[c] = "push" THEN "upload" ELSE "fetch"
      BY <1>5, <2>2, AskResult DEF wanted
    <3>3. op[c] \in {"pull", "push"}
      OBVIOUS
    <3>4. drop'[c] \cap DOMAIN plan'[c] = {}
      BY <3>1, <3>2, <3>3 DEF CloudInv
    <3>5. QED BY <1>0, <3>2, <3>3, <3>4
  <2>3. QED BY <2>1, <2>2
<1>6. CASE Fetch(c)
  <2>1. CASE Throw(c)
    BY <1>0, <2>1, FinishOthers DEF Throw
  <2>2. ASSUME NEW p \in todo[c], pc[c] = "fetch",
               todo' = [todo EXCEPT ![c] = IF @ = {p} THEN drop[c] ELSE @ \ {p}],
               IF todo[c] = {p} THEN Goto(c, "remove") ELSE UNCHANGED pc,
               UNCHANGED <<op, man, plan, drop, at, tries, bounds>>
        PROVE  Phase(c)'
    <3>1. CASE todo[c] = {p}
      BY <2>2, <3>1 DEF Goto
    <3>2. CASE todo[c] # {p}
      BY <2>2, <3>2
    <3>3. QED BY <3>1, <3>2
  <2>3. QED BY <1>6, <2>1, <2>2 DEF Fetch
<1>7. CASE Remove(c)
  <2>1. CASE Throw(c)
    BY <1>0, <2>1, FinishOthers DEF Throw
  <2>2. CASE ~Throw(c)
    BY <1>7, <2>2 DEF Remove, Goto
  <2>3. QED BY <2>1, <2>2
<1>8. CASE Reindex(c)
  <2>1. CASE EnsureFile(c, "reindex", "recreate")
    <3>1. "reindex" \in Steps /\ "recreate" \in Steps
      BY DEF Steps
    <3>2. QED BY <1>0, <2>1, <3>1, EnsureResult
  <2>2. CASE Finish(c, "done")
    BY <1>0, <2>2, FinishOthers
  <2>3. QED BY <1>8, <2>1, <2>2 DEF Reindex
<1>9. CASE Upload(c)
  <2>1. CASE Throw(c)
    BY <1>0, <2>1, FinishOthers DEF Throw
  <2>2. CASE ~Throw(c)
    <3>1. PICK p \in todo[c] :
             /\ p \in DOMAIN disk /\ disk[p] = plan[c][p]
             /\ plan' = [plan EXCEPT ![c] = Put(@, p, disk[p])]
             /\ todo' = [todo EXCEPT ![c] = @ \ {p}]
             /\ IF todo[c] = {p} THEN Goto(c, "commit") ELSE UNCHANGED pc
             /\ UNCHANGED <<op, man, drop, at, tries, quiet, bounds>>
      BY <1>9, <2>2 DEF Upload
    <3>2. DOMAIN plan'[c] = DOMAIN plan[c]
      BY <1>9, <3>1 DEF Upload, Put
    <3>3. QED BY <1>9, <3>1, <3>2 DEF Upload, Goto
  <2>3. QED BY <2>1, <2>2
<1>10. CASE Complete(c)
  <2>1. CASE Finish(c, "done")
    BY <1>0, <2>1, FinishOthers
  <2>2. CASE Retry(c)
    <3>1. CASE UNCHANGED <<pc, op, man, todo, plan, drop, at, quiet>>
      BY <3>1
    <3>2. CASE Finish(c, "failed")
      BY <1>0, <3>2, FinishOthers
    <3>3. QED BY <2>2, <3>1, <3>2, RetryOthers
  <2>3. QED BY <1>10, <2>1, <2>2 DEF Complete
<1>11. QED BY <1>1, <1>4, <1>5, <1>6, <1>7, <1>8, <1>9, <1>10, <1>2, <1>3 DEF SyncStep

LEMMA StartPhase ==
  ASSUME SyncTypeOK, PhaseInv, NEW c \in Call, NEW kind \in {"pull", "push"}, Start(c, kind)
  PROVE  /\ PhaseInv'
         /\ \A d \in Call \ {c} : UNCHANGED LocalsOf(d)
         /\ pc'[c] \in {"ready", "snapshot"} /\ op'[c] = kind /\ drop'[c] = {}
<1>1. /\ \A d \in Call \ {c} : UNCHANGED LocalsOf(d)
      /\ pc'[c] \in {"ready", "snapshot"} /\ op'[c] = kind
      /\ pc'[c] = "snapshot" => todo'[c] = {}
      /\ UNCHANGED <<man, plan, drop>>
  BY DEF SyncTypeOK, Start, Goto, LocalsOf
<1>2. pc[c] \in Rest
  BY DEF Start, Running
<1>3. man[c] = NoFiles /\ plan[c] = NoFiles /\ drop[c] = {}
  BY <1>2 DEF PhaseInv, Phase
<1>4. ASSUME NEW d \in Call PROVE Phase(d)'
  <2>1. CASE d = c
    BY <1>1, <1>3, <2>1 DEF Phase, Rest, Making
  <2>2. CASE d # c
    BY <1>1, <2>2 DEF PhaseInv, Phase, LocalsOf, Making
  <2>3. QED BY <2>1, <2>2
<1>5. QED BY <1>1, <1>3, <1>4 DEF PhaseInv

LEMMA RestartPhase ==
  ASSUME Restart PROVE PhaseInv'
<1>1. ASSUME NEW c \in Call PROVE Phase(c)'
  BY DEF Restart, Phase, Rest, Making
<1>2. QED BY <1>1 DEF PhaseInv

\* What leaves every local variable of every call alone.
LEMMA StillPhase ==
  ASSUME PhaseInv, UNCHANGED <<pc, locals>> PROVE PhaseInv'
BY DEF PhaseInv, Phase, Making, locals

LEMMA PhaseStep ==
  ASSUME TypeOK, PhaseInv, CloudInv, [Next]_vars
  PROVE  PhaseInv'
<1> USE DEF TypeOK
<1>1. ASSUME NEW c \in Call, Step(c) PROVE PhaseInv'
  <2>1. SyncStep(c)
    BY <1>1 DEF Step
  <2>2. Phase(c)'
    BY <2>1, CallPhase DEF PhaseInv
  <2>3. ASSUME NEW d \in Call \ {c} PROVE Phase(d)'
    BY <2>1, Others DEF PhaseInv, Phase, Making, LocalsOf
  <2>4. QED BY <2>2, <2>3 DEF PhaseInv
<1>2. ASSUME NEW s \in Session, Prepare(s) \/ CompleteSession(s) \/ SessionStep(s)
      PROVE  PhaseInv'
  <2>1. s \in Call
    BY SessionAssumption
  <2>2. CASE Prepare(s)
    BY <2>1, <2>2, StartPhase DEF Prepare
  <2>3. CASE Checkpoint(s)
    BY <2>1, <2>3, StartPhase, StillPhase DEF Checkpoint
  <2>4. CASE Prepared(s) \/ CompleteSession(s) \/ PushFailed(s) \/ Pushed(s)
    BY <2>4, StillPhase DEF Prepared, CompleteSession, PushFailed, Pushed, syncVars
  <2>5. QED BY <1>2, <2>2, <2>3, <2>4 DEF SessionStep
<1>3. ASSUME NEW c \in Client, Sync(c) PROVE PhaseInv'
  BY <1>3, StartPhase, SessionAssumption DEF Sync
<1>4. ASSUME NEW f \in Written, WriteRead(f) \/ WriteBack(f) PROVE PhaseInv'
  BY <1>4, StillPhase DEF WriteRead, WriteBack, ReadNotes, WriteNotes
<1>5. ASSUME NEW f \in Linked, Link(f) PROVE PhaseInv'
  BY <1>5, StillPhase DEF Link, LinkNodes
<1>6. CASE LinkDone
  BY <1>6, StillPhase DEF LinkDone, LinkEdges
<1>7. ASSUME NEW f \in Remote, Foreign(f) PROVE PhaseInv'
  BY <1>7, StillPhase DEF Foreign, Elsewhere
<1>8. CASE Crash
  BY <1>8, RestartPhase DEF Crash
<1>9. CASE UNCHANGED vars
  BY <1>9, StillPhase DEF vars, syncVars
<1>10. QED BY <1>1, <1>2, <1>3, <1>4, <1>5, <1>6, <1>7, <1>8, <1>9 DEF Next

\* Only a completed push and another device change the cloud.
LEMMA CloudStep ==
  ASSUME TypeOK, CloudInv, [Next]_vars
  PROVE  CloudInv' /\ sent \subseteq sent'
<1> USE DEF TypeOK, SyncTypeOK, CloudInv
<1>1. CASE UNCHANGED <<replica, sent>>
  BY <1>1 DEF replica
<1>2. ASSUME NEW c \in Call, Step(c) PROVE CloudInv' /\ sent \subseteq sent'
  <2>1. CASE Committed(c)
    <3>1. removed' \cap DOMAIN cloud' = {} /\ removed' \cup DOMAIN cloud' = Path
      <4>1. DOMAIN plan[c] \subseteq Path
        BY DEF Table
      <4>2. DOMAIN cloud' = DOMAIN cloud \cup DOMAIN plan[c]
        BY <2>1 DEF Committed, Over
      <4>3. QED BY <2>1, <4>1, <4>2 DEF Committed
    <3>2. Get(cloud', Notes) \subseteq sent'
      BY <2>1, OverGet DEF Committed, Get
    <3>3. QED BY <2>1, <3>1, <3>2 DEF Committed
  <2>2. CASE ~Committed(c)
    <3>1. UNCHANGED <<replica, sent>>
      BY <1>2, <2>2 DEF Step, SyncStep, Ready, Snapshot, Save, Scan, Ask, Fetch, Remove,
                        Reindex, Upload, Complete
    <3>2. QED BY <1>1, <3>1
  <2>3. QED BY <2>1, <2>2
<1>3. ASSUME NEW f \in Remote, Foreign(f) PROVE CloudInv' /\ sent \subseteq sent'
  <2>1. DOMAIN f \subseteq Path
    BY TableAssumption DEF Table
  <2>2. removed' \cup DOMAIN cloud' = Path
    BY <1>3, <2>1 DEF Foreign, Elsewhere
  <2>3. QED BY <1>3, <2>2 DEF Foreign, Elsewhere
<1>4. CASE (\E s \in Session : Prepare(s) \/ CompleteSession(s) \/ SessionStep(s))
  BY <1>1, <1>4 DEF Prepare, CompleteSession, SessionStep, Prepared,
     Checkpoint, PushFailed, Pushed, Start, syncVars, history
<1>5. CASE \/ \E c \in Client : Sync(c)
           \/ \E f \in Written : WriteRead(f) \/ WriteBack(f)
           \/ \E f \in Linked : Link(f)
           \/ LinkDone \/ Crash
  BY <1>1, <1>5 DEF Sync, Start, WriteRead, ReadNotes, WriteBack, WriteNotes,
     history, Link, LinkNodes, LinkDone, LinkEdges, Crash, Restart
<1>6. CASE UNCHANGED vars
  BY <1>1, <1>6 DEF vars, syncVars, history
<1>7. QED BY <1>2, <1>3, <1>4, <1>5, <1>6 DEF Next

LEMMA LinkStep ==
  ASSUME LinkInv, [Next]_vars
  PROVE  LinkInv'
<1> USE DEF LinkInv
<1>1. CASE UNCHANGED linking
  BY <1>1
<1>2. ASSUME NEW f \in Linked, Link(f) PROVE LinkInv'
  BY <1>2 DEF Link, LinkNodes
<1>3. CASE LinkDone \/ Crash
  BY <1>3 DEF LinkDone, LinkEdges, Crash, Restart
<1>4. ASSUME NEW c \in Call, Step(c) PROVE LinkInv'
  BY <1>1, <1>4 DEF Step, SyncStep, Ready, Snapshot, Save, Scan, Ask, Fetch, Remove,
                    Reindex, Upload, Complete, device
<1>5. CASE (\E s \in Session : Prepare(s) \/ CompleteSession(s) \/ SessionStep(s))
  BY <1>1, <1>5 DEF Prepare, CompleteSession, SessionStep, Prepared,
     Checkpoint, PushFailed, Pushed, Start, syncVars, device
<1>6. CASE \/ \E c \in Client : Sync(c)
           \/ \E f \in Written : WriteRead(f) \/ WriteBack(f)
           \/ \E f \in Remote : Foreign(f)
           \/ UNCHANGED vars
  BY <1>1, <1>6 DEF Sync, Start, WriteRead, ReadNotes, WriteBack, WriteNotes,
     Foreign, Elsewhere, vars, syncVars, device
<1>7. QED BY <1>2, <1>3, <1>4, <1>5, <1>6 DEF Next

\* The part of the invariant that the others rest on.
Core == TypeOK /\ PhaseInv /\ CloudInv /\ LinkInv

LEMMA CoreStep ==
  ASSUME Core, [Next]_vars PROVE Core'
BY TypeStep, PhaseStep, CloudStep, LinkStep DEF Core

LEMMA CoreInit ==
  ASSUME Init PROVE Core
<1> USE DEF Init, SyncInit
<1>1. Table(disk) /\ Table(cloud) /\ DOMAIN cloud = Path
  BY TableAssumption
<1>2. Get(cloud, Notes) \subseteq Fact
  BY <1>1, GetFacts
<1>3. DOMAIN draft \subseteq Written /\ draft \in [DOMAIN draft -> SUBSET Fact]
  BY DEF NoFiles
<1>4. mixed \in BOOLEAN
  OBVIOUS
<1>5. SyncTypeOK
  BY <1>1, <1>2, <1>3, <1>4, NoFilesTable DEF SyncTypeOK, Steps
<1>6. TypeOK
  BY <1>5 DEF TypeOK, Stages, Outcomes
<1>7. PhaseInv
  BY DEF PhaseInv, Phase, Rest, Making
<1>8. QED BY <1>1, <1>6, <1>7 DEF Core, CloudInv, LinkInv

\* The model keeps its types.
THEOREM TypeCorrect == Spec => []TypeOK
<1>1. Init => Core
  BY CoreInit
<1>2. Core /\ [Next]_vars => Core'
  BY CoreStep
<1>3. Core => TypeOK
  BY DEF Core
<1>4. QED BY <1>1, <1>2, <1>3, PTL DEF Spec

-----------------------------------------------------------------------------
(* Nothing leaves the documents unsaved.                                   *)

\* A call that may still replace or remove the documents.
Pending(c) ==
  \/ op[c] = "pull" /\ \/ pc[c] \in {"save", "scan", "ask"}
                       \/ pc[c] = "fetch" /\ Notes \in todo[c] \cup drop[c]
                       \/ pc[c] = "remove" /\ Notes \in todo[c]
  \/ Making(c) /\ First(c) = Notes

\* What it read for its snapshot and did not write yet.
Held(c) == IF pc[c] = "save" THEN Get(man[c], Notes) ELSE {}

\* Its snapshot has what they hold, but for what came later.
SavedInv == \A c \in Call : Pending(c) => Get(disk, Notes) \subseteq kept \cup late \cup Held(c)

LEMMA FirstStays ==
  ASSUME NEW c, todo'[c] = todo[c] PROVE First(c)' = First(c)
BY DEF First

LEMMA PendingStays ==
  ASSUME NEW c, UNCHANGED LocalsOf(c)
  PROVE  Pending(c)' = Pending(c) /\ Held(c)' = Held(c)
<1>1. First(c)' = First(c)
  BY FirstStays DEF LocalsOf
<1>2. QED BY <1>1 DEF LocalsOf, Pending, Making, Held

LEMMA PendingExposed ==
  ASSUME NEW C, NEW c \in C, Pending(c) PROVE Exposed(C)
BY DEF Pending, Exposed

\* What a step of a call does to the documents and to what is saved of them.
LEMMA CallDocuments ==
  ASSUME Core, SavedInv, NEW c \in Call, SyncStep(c)
  PROVE  /\ kept \subseteq kept' /\ late \subseteq late'
         /\ Get(disk, Notes) \ Get(disk', Notes) \subseteq kept \cup late
         /\ Exposed(Call \ {c}) => Get(disk', Notes) \subseteq Get(disk, Notes) \cup late'
<1> USE DEF Core, TypeOK, SyncTypeOK, device
<1>1. CASE Snapshot(c) \/ Save(c) \/ Scan(c) \/ Ask(c) \/ Upload(c) \/ Complete(c)
  BY <1>1 DEF Snapshot, Save, Scan, Ask, Upload, Complete
<1>2. CASE Ready(c) \/ Reindex(c)
  <2>1. UNCHANGED <<kept, late>>
    BY <1>2 DEF Ready, Reindex
  <2>2. CASE UNCHANGED disk
    BY <2>1, <2>2
  <2>3. ASSUME disk' = Put(disk, First(c), {}), Making(c)
        PROVE  /\ Get(disk, Notes) \ Get(disk', Notes) \subseteq kept \cup late
               /\ Get(disk', Notes) \subseteq Get(disk, Notes)
    <3>1. Get(disk', Notes) = IF Notes = First(c) THEN {} ELSE Get(disk, Notes)
      BY <2>3, PutGet
    <3>2. First(c) = Notes => Get(disk, Notes) \subseteq kept \cup late
      BY <2>3 DEF SavedInv, Pending, Held, Making
    <3>3. QED BY <3>1, <3>2
  <2>4. UNCHANGED disk \/ (disk' = Put(disk, First(c), {}) /\ Making(c))
    BY <1>2 DEF Ready, Reindex, EnsureFile, Find, Make, Making
  <2>5. QED BY <2>1, <2>2, <2>3, <2>4
<1>3. CASE Fetch(c)
  <2>1. CASE UNCHANGED <<disk, late>>
    BY <1>3, <2>1 DEF Fetch
  <2>2. ASSUME NEW p \in todo[c], NEW bytes, disk' = Put(disk, p, bytes), UNCHANGED kept,
               late' = IF p = Notes /\ Exposed(Call \ {c}) THEN late \cup bytes ELSE late
        PROVE  /\ kept \subseteq kept' /\ late \subseteq late'
               /\ Get(disk, Notes) \ Get(disk', Notes) \subseteq kept \cup late
               /\ Exposed(Call \ {c}) => Get(disk', Notes) \subseteq Get(disk, Notes) \cup late'
    <3>1. CASE p = Notes
      <4>1. Get(disk', Notes) = bytes
        BY <2>2, <3>1, PutGet
      <4>2. Pending(c) /\ Held(c) = {}
        BY <1>3, <3>1 DEF Fetch, PhaseInv, Phase, Pending, Held
      <4>3. QED BY <2>2, <3>1, <4>1, <4>2 DEF SavedInv
    <3>2. CASE p # Notes
      <4>1. Get(disk', Notes) = Get(disk, Notes)
        BY <2>2, <3>2, PutGet
      <4>2. QED BY <2>2, <3>2, <4>1
    <3>3. QED BY <3>1, <3>2
  <2>3. QED BY <1>3, <2>1, <2>2 DEF Fetch
<1>4. CASE Remove(c)
  <2>1. CASE UNCHANGED disk
    BY <1>4, <2>1 DEF Remove
  <2>2. ASSUME NEW p \in todo[c], disk' = Drop(disk, {p})
        PROVE  /\ Get(disk, Notes) \ Get(disk', Notes) \subseteq kept \cup late
               /\ Get(disk', Notes) \subseteq Get(disk, Notes)
    <3>1. Get(disk', Notes) = IF Notes \in {p} THEN {} ELSE Get(disk, Notes)
      BY <2>2, DropGet
    <3>2. p = Notes => Pending(c) /\ Held(c) = {}
      BY <1>4 DEF Remove, PhaseInv, Phase, Pending, Held
    <3>3. QED BY <3>1, <3>2 DEF SavedInv
  <2>3. QED BY <1>4, <2>1, <2>2 DEF Remove
<1>5. QED BY <1>1, <1>2, <1>3, <1>4 DEF SyncStep

\* A call that is pending after its own step left the documents alone in it, and
\* what they hold is kept, late or read for its snapshot.
LEMMA OwnPending ==
  ASSUME Core, SavedInv, NEW c \in Call, SyncStep(c), Pending(c)'
  PROVE  /\ Get(disk', Notes) = Get(disk, Notes)
         /\ Get(disk, Notes) \subseteq kept' \cup late' \cup Held(c)'
<1> USE DEF Core, TypeOK, SyncTypeOK, device, locals
<1>0. Phase(c) /\ kept \subseteq kept' /\ late \subseteq late'
  BY CallDocuments DEF PhaseInv
<1>1. ASSUME Get(disk', Notes) = Get(disk, Notes), Pending(c), pc[c] # "save"
      PROVE  /\ Get(disk', Notes) = Get(disk, Notes)
             /\ Get(disk, Notes) \subseteq kept' \cup late' \cup Held(c)'
  BY <1>0, <1>1 DEF SavedInv, Held
<1>2. ASSUME Throw(c) PROVE FALSE
  BY <1>2, FinishOthers DEF Throw, Pending, Making
<1>3. CASE Snapshot(c)
  <2>1. man' = [man EXCEPT ![c] = Put(@, Notes, Get(disk, Notes))] /\ Goto(c, "save")
    BY <1>2, <1>3 DEF Snapshot
  <2>2. Get(man'[c], Notes) = Get(disk, Notes) /\ pc'[c] = "save"
    BY <2>1, PutGet DEF Goto
  <2>3. QED BY <1>3, <2>2 DEF Snapshot, Held
<1>4. CASE Save(c)
  <2>1. kept' = kept \cup man[c][Notes] /\ BeginScan(c) /\ UNCHANGED <<disk, late>>
    BY <1>2, <1>4 DEF Save
  <2>2. op'[c] = "pull"
    BY <2>1 DEF BeginScan, Goto, Pending, Making
  <2>3. Pending(c) /\ Held(c) = man[c][Notes]
    BY <1>0, <1>4, <2>1, <2>2 DEF Save, BeginScan, Pending, Held, Phase, Get
  <2>4. QED BY <2>1, <2>3 DEF SavedInv
<1>5. CASE Ready(c) \/ Reindex(c)
  <2>1. Making(c)' /\ First(c)' = Notes
    BY <1>5, FinishOthers DEF Ready, Reindex, EnsureFile, Find, Make, Goto,
       Throw, Pending, Making
  <2>2. pc[c] \in {"ready", "reindex"} /\ UNCHANGED <<disk, todo>> /\ First(c) \notin DOMAIN disk
    BY <1>5, <2>1, FinishOthers DEF Ready, Reindex, EnsureFile, Find, Make,
       Goto, Throw, Making
  <2>3. First(c) = Notes
    BY <2>1, <2>2, FirstStays
  <2>4. QED BY <2>2, <2>3 DEF Get
<1>6. CASE Scan(c)
  BY <1>1, <1>6 DEF Scan, Goto, Pending, Making
<1>7. CASE Ask(c)
  <2>1. op[c] = "pull" /\ UNCHANGED disk
    <3>1. UNCHANGED op
      BY <1>2, <1>7, RetryOthers DEF Ask, Throw
    <3>2. pc'[c] \notin {"create", "recreate"}
      BY <1>2, <1>7, RetryOthers DEF Ask, Goto, Throw
    <3>3. QED BY <1>7, <3>1, <3>2 DEF Ask, Pending, Making
  <2>2. Pending(c) /\ pc[c] = "ask"
    BY <1>7, <2>1 DEF Ask, Pending
  <2>3. QED BY <1>1, <2>1, <2>2
<1>8. CASE Fetch(c)
  <2>1. ASSUME NEW p \in todo[c], NEW bytes, disk' = Put(disk, p, bytes),
               todo' = [todo EXCEPT ![c] = IF @ = {p} THEN drop[c] ELSE @ \ {p}],
               IF todo[c] = {p} THEN Goto(c, "remove") ELSE UNCHANGED pc,
               UNCHANGED <<op, drop>>
        PROVE  Get(disk', Notes) = Get(disk, Notes) /\ Pending(c)
    <3>1. p \in DOMAIN plan[c] /\ p \notin drop[c]
      BY <1>0, <1>8 DEF Phase, Fetch
    <3>2. p # Notes
      BY <1>8, <2>1, <3>1 DEF Goto, Fetch, Pending, Making
    <3>3. Get(disk', Notes) = Get(disk, Notes)
      BY <2>1, <3>2, PutGet
    <3>4. Pending(c)
      BY <1>8, <2>1, <3>2 DEF Goto, Fetch, Pending, Making
    <3>5. QED BY <3>3, <3>4
  <2>2. Get(disk', Notes) = Get(disk, Notes) /\ Pending(c)
    BY <1>2, <1>8, <2>1 DEF Fetch
  <2>3. QED BY <1>1, <1>8, <2>2 DEF Fetch
<1>9. CASE Remove(c)
  <2>1. ASSUME NEW p \in todo[c], disk' = Drop(disk, {p}),
               todo' = [todo EXCEPT ![c] = @ \ {p}], UNCHANGED <<pc, op, drop>>
        PROVE  Get(disk', Notes) = Get(disk, Notes) /\ Pending(c)
    <3>1. p # Notes
      BY <1>9, <2>1 DEF Remove, Pending, Making
    <3>2. QED BY <1>9, <2>1, <3>1, DropGet DEF Remove, Pending, Making
  <2>2. ASSUME Goto(c, "reindex") PROVE FALSE
    BY <2>2 DEF Goto, Pending, Making
  <2>3. Get(disk', Notes) = Get(disk, Notes) /\ Pending(c)
    BY <1>2, <1>9, <2>1, <2>2 DEF Remove
  <2>4. QED BY <1>1, <1>9, <2>3 DEF Remove
<1>10. CASE Upload(c)
  <2>1. pc'[c] \in {"upload", "commit"}
    BY <1>2, <1>10 DEF Upload, Goto
  <2>2. QED BY <2>1 DEF Pending, Making
<1>11. CASE Complete(c)
  <2>1. ~(Finish(c, "done") \/ Finish(c, "failed"))
    BY FinishOthers DEF Pending, Making
  <2>2. pc'[c] = "commit"
    BY <1>11, <2>1, RetryOthers DEF Complete
  <2>3. QED BY <2>2 DEF Pending, Making
<1>12. QED BY <1>3, <1>4, <1>5, <1>6, <1>7, <1>8, <1>9, <1>10, <1>11 DEF SyncStep

Saving ==
  /\ SavedInv'
  /\ draft' = draft => Get(disk, Notes) \ Get(disk', Notes) \subseteq kept \cup late

\* A step that leaves the calls alone and puts into the documents what a pending
\* call would lose.
LEMMA WriteSaved ==
  ASSUME SavedInv, UNCHANGED <<pc, locals>>, kept \subseteq kept', late \subseteq late',
         draft' = draft => Get(disk, Notes) \subseteq Get(disk', Notes),
         Exposed(Call) => Get(disk', Notes) \subseteq Get(disk, Notes) \cup late'
  PROVE  Saving
<1>1. ASSUME NEW c \in Call, Pending(c)'
      PROVE  Get(disk', Notes) \subseteq kept' \cup late' \cup Held(c)'
  <2>1. UNCHANGED LocalsOf(c)
    BY DEF LocalsOf, locals
  <2>2. Pending(c) /\ Held(c)' = Held(c)
    BY <1>1, <2>1, PendingStays
  <2>3. QED BY <2>2, PendingExposed DEF SavedInv
<1>2. QED BY <1>1 DEF Saving, SavedInv

LEMMA WriteDocuments ==
  ASSUME NEW S, Documents(S)
  PROVE  /\ Get(disk', Notes) = S
         /\ late \subseteq late'
         /\ Exposed(Call) => S \subseteq Get(disk, Notes) \cup late'
<1>1. Get(disk', Notes) = S
  BY PutGet DEF Documents
<1>2. QED BY <1>1 DEF Documents

LEMMA AppendDocuments ==
  ASSUME NEW S, AppendNotes(S)
  PROVE  /\ Get(disk', Notes) = Get(disk, Notes) \cup S
         /\ late \subseteq late'
         /\ Exposed(Call) => Get(disk', Notes) \subseteq Get(disk, Notes) \cup late'
BY WriteDocuments DEF AppendNotes

LEMMA StartSaved ==
  ASSUME Core, SavedInv, NEW c \in Call, NEW kind \in {"pull", "push"}, Start(c, kind),
         kept \subseteq kept'
  PROVE  Saving
<1>1. ASSUME NEW d \in Call, Pending(d)'
      PROVE  Get(disk', Notes) \subseteq kept' \cup late' \cup Held(d)'
  <2>1. d # c
    BY <1>1, StartPhase DEF Core, TypeOK, Pending, Making
  <2>2. UNCHANGED LocalsOf(d)
    BY <2>1, StartPhase DEF Core, TypeOK
  <2>3. Pending(d) /\ Held(d)' = Held(d)
    BY <1>1, <2>2, PendingStays
  <2>4. QED BY <2>3 DEF SavedInv, Start
<1>2. QED BY <1>1 DEF Saving, SavedInv, Start

LEMMA SavedStep ==
  ASSUME Core, SavedInv, [Next]_vars
  PROVE  Saving
<1>0. SyncTypeOK
  BY DEF Core, TypeOK
<1>1. ASSUME NEW c \in Call, Step(c) PROVE Saving
  <2>1. SyncStep(c)
    BY <1>1 DEF Step
  <2>2. ASSUME NEW d \in Call, Pending(d)'
        PROVE  Get(disk', Notes) \subseteq kept' \cup late' \cup Held(d)'
    <3>1. CASE d = c
      BY <2>1, <2>2, <3>1, OwnPending
    <3>2. CASE d # c
      <4>1. Pending(d) /\ Held(d)' = Held(d)
        BY <1>0, <2>1, <2>2, <3>2, Others, PendingStays
      <4>2. Exposed(Call \ {c})
        BY <3>2, <4>1, PendingExposed
      <4>3. QED BY <2>1, <4>1, <4>2, CallDocuments DEF SavedInv
    <3>3. QED BY <3>1, <3>2
  <2>3. QED BY <2>1, <2>2, CallDocuments DEF Saving, SavedInv
<1>2. ASSUME NEW s \in Session, Prepare(s) \/ CompleteSession(s) \/ SessionStep(s)
      PROVE  Saving
  <2>1. s \in Call
    BY SessionAssumption
  <2>2. CASE Prepare(s)
    BY <2>1, <2>2, StartSaved DEF Prepare
  <2>3. CASE Checkpoint(s)
    BY <2>1, <2>3, StartSaved, WriteSaved DEF Checkpoint, device, history
  <2>4. CASE Prepared(s) \/ PushFailed(s)
    BY <2>4, WriteSaved DEF Prepared, PushFailed, syncVars, device, history
  <2>5. CASE CompleteSession(s)
    <3>1. CASE AppendNotes({s})
      BY <2>5, <3>1, AppendDocuments, WriteSaved DEF CompleteSession
    <3>2. CASE UNCHANGED <<disk, late, quiet>>
      BY <2>5, <3>2, WriteSaved DEF CompleteSession
    <3>3. QED BY <2>5, <3>1, <3>2 DEF CompleteSession
  <2>6. CASE Pushed(s)
    <3>1. CASE AppendNotes({Failure})
      BY <2>6, <3>1, AppendDocuments, WriteSaved DEF Pushed
    <3>2. CASE UNCHANGED <<disk, late, quiet>>
      BY <2>6, <3>2, WriteSaved DEF Pushed
    <3>3. QED BY <2>6, <3>1, <3>2 DEF Pushed
  <2>7. QED BY <1>2, <2>2, <2>3, <2>4, <2>5, <2>6 DEF SessionStep
<1>3. ASSUME NEW c \in Client, Sync(c) PROVE Saving
  BY <1>3, StartSaved, SessionAssumption DEF Sync
<1>4. ASSUME NEW f \in Written, WriteRead(f) \/ WriteBack(f) PROVE Saving
  <2>1. CASE ReadNotes(f)
    BY <2>1, WriteSaved DEF ReadNotes, history
  <2>2. CASE WriteNotes(f)
    <3>1. draft' # draft
      BY <2>2 DEF WriteNotes, Drop
    <3>2. CASE UNCHANGED <<disk, late, quiet>>
      BY <2>2, <3>1, <3>2, WriteSaved DEF WriteNotes
    <3>3. CASE Documents(draft[f] \cup {f})
      BY <2>2, <3>1, <3>3, WriteDocuments, WriteSaved DEF WriteNotes
    <3>4. QED BY <2>2, <3>2, <3>3 DEF WriteNotes
  <2>3. QED BY <1>4, <2>1, <2>2 DEF WriteRead, WriteBack
<1>5. ASSUME NEW f \in Linked, Link(f) PROVE Saving
  <2>1. Get(disk', Notes) = Get(disk, Notes)
    BY <1>5, PutGet, PathFacts DEF Link, LinkNodes
  <2>2. QED BY <1>5, <2>1, WriteSaved DEF Link, LinkNodes
<1>6. CASE LinkDone
  <2>1. Get(disk', Notes) = Get(disk, Notes)
    BY <1>6, PutGet, PathFacts DEF LinkDone, LinkEdges
  <2>2. QED BY <1>6, <2>1, WriteSaved DEF LinkDone, LinkEdges
<1>7. ASSUME NEW f \in Remote, Foreign(f) PROVE Saving
  BY <1>7, WriteSaved DEF Foreign, Elsewhere, device
<1>8. CASE Crash
  BY <1>8 DEF Crash, Restart, Saving, SavedInv, Pending, Making
<1>9. CASE UNCHANGED vars
  BY <1>9, WriteSaved DEF vars, syncVars, device, history
<1>10. QED BY <1>1, <1>2, <1>3, <1>4, <1>5, <1>6, <1>7, <1>8, <1>9 DEF Next

\* Whatever a step takes out of the documents, a writer that writes back what it
\* read apart, is in a snapshot, unless it was written after the reads of the
\* snapshot of a pull then in flight, or over a file found missing.
THEOREM NothingLost == Spec => NothingDroppedUnsaved
<1> DEFINE I == Core /\ SavedInv
<1>1. Init => I
  BY CoreInit DEF Init, SyncInit, SavedInv, Pending, Making
<1>2. I /\ [Next]_vars => I'
  BY CoreStep, SavedStep DEF Saving
<1>3. I /\ [Next]_vars =>
        [draft' = draft => Get(disk, Notes) \ Get(disk', Notes) \subseteq kept \cup late]_syncVars
  BY SavedStep DEF Saving
<1>4. QED BY <1>1, <1>2, <1>3, PTL DEF Spec, NothingDroppedUnsaved

-----------------------------------------------------------------------------
(* Sessions and their notes.                                               *)

\* A session that left its note and did not lose it while it completed.
Safe(s) == s \in noted \ raced

\* The note is in the documents, then in the manifest, then uploaded, then in
\* the cloud.
Carried(s) ==
  /\ s \in Get(disk, Notes)
  /\ Running(s) => op[s] = "push"
  /\ pc[s] \in {"scan", "ask"} /\ Notes \notin todo[s] => s \in Get(man[s], Notes)
  /\ pc[s] = "ask" => Notes \notin todo[s]
  /\ pc[s] \in {"upload", "commit"} => s \in Get(plan[s], Notes) \cup sent
  /\ pc[s] = "done" => s \in sent

Tracked(s) ==
  /\ stage[s] \in {"working", "checkpoint", "pushing"} => s \in work
  /\ s \in noted => stage[s] \notin {"new", "preparing"} /\ outcome[s] = "success"
  /\ Safe(s) /\ stage[s] = "checkpoint" => s \in Get(disk, Notes)
  /\ Safe(s) /\ stage[s] = "pushing" => Carried(s)
  /\ Safe(s) /\ stage[s] = "closed" => s \in sent

SessionInv == \A s \in Session : Tracked(s)

\* A push carries the note through its own steps, while it stays in the documents.
LEMMA PushCarries ==
  ASSUME Core, NEW s \in Session, Carried(s), SyncStep(s), s \in Get(disk', Notes)
  PROVE  Carried(s)'
<1> USE DEF Core, TypeOK, SyncTypeOK, CloudInv, Carried, Running, Rest, locals, device
<1>0. s \in Call /\ Phase(s) /\ op[s] = "push"
  BY SessionAssumption DEF PhaseInv, SyncStep, Ready, EnsureFile, Find, Make,
     Snapshot, Save, Scan, Ask, Fetch, Remove, Reindex, Upload, Complete
<1>1. s \in Get(disk', Notes)
  OBVIOUS
<1>2. CASE Throw(s)
  BY <1>0, <1>1, <1>2, FinishOthers DEF Throw
<1>3. CASE Ready(s) \/ Snapshot(s)
  BY <1>0, <1>1, <1>2, <1>3 DEF Ready, EnsureFile, Find, Make, Snapshot, Goto
<1>4. CASE Save(s)
  <2>1. CASE BeginScan(s)
    BY <1>0, <1>1, <1>4, <2>1 DEF Save, BeginScan, Goto, Path
  <2>2. QED BY <1>4, <1>2, <2>1 DEF Save
<1>5. CASE Scan(s)
  <2> DEFINE p == First(s)
  <2>1. /\ man' = [man EXCEPT ![s] = IF p \in DOMAIN disk THEN Put(@, p, disk[p]) ELSE @]
        /\ todo' = [todo EXCEPT ![s] = @ \ {p}]
        /\ IF todo[s] = {p} THEN Goto(s, "ask") ELSE UNCHANGED pc
        /\ pc[s] = "scan" /\ UNCHANGED <<op, plan, drop, sent, disk>>
    BY <1>5 DEF Scan
  <2> HIDE DEF p
  <2>2. Notes \notin todo'[s] => s \in Get(man'[s], Notes)
    <3>1. CASE p = Notes
      <4>1. Notes \in DOMAIN disk /\ s \in disk[Notes]
        BY DEF Get
      <4>2. man'[s] = Put(man[s], Notes, disk[Notes])
        BY <1>0, <2>1, <3>1, <4>1
      <4>3. QED BY <4>1, <4>2, PutGet
    <3>2. CASE p # Notes
      <4>1. Notes \notin todo'[s] => Notes \notin todo[s]
        BY <1>0, <2>1, <3>2
      <4>2. Get(man'[s], Notes) = Get(man[s], Notes)
        BY <1>0, <2>1, <3>2, PutGet
      <4>3. QED BY <2>1, <4>1, <4>2
    <3>3. QED BY <3>1, <3>2
  <2>3. QED BY <1>0, <1>1, <2>1, <2>2 DEF Goto
<1>6. CASE Ask(s)
  <2>1. CASE Retry(s)
    <3>1. CASE UNCHANGED <<pc, op, man, todo, plan, drop, at, quiet>>
      BY <1>1, <1>6, <3>1 DEF Ask
    <3>2. CASE Finish(s, "failed")
      BY <1>0, <1>1, <3>2, FinishOthers
    <3>3. QED BY <1>0, <2>1, <3>1, <3>2, RetryOthers
  <2>2. CASE ~Retry(s)
    <3> DEFINE moved == Differing(man[s], cloud)
    <3>1. /\ plan'[s] = Choose(man[s], moved) /\ op'[s] = op[s]
          /\ pc'[s] \in {"upload", "commit"}
      BY <1>0, <1>6, <2>2, AskResult
    <3>2. s \in Get(man[s], Notes) /\ UNCHANGED sent
      BY <1>6 DEF Ask
    <3>3. s \in Get(plan'[s], Notes) \cup sent
      <4>1. CASE Notes \in moved
        BY <3>1, <3>2, <4>1, ChooseGet, DifferingDomain DEF Get
      <4>2. CASE Notes \notin moved
        BY <3>2, <4>2 DEF Differing, Get
      <4>3. QED BY <4>1, <4>2
    <3>4. QED BY <1>0, <1>1, <3>1, <3>2, <3>3
  <2>3. QED BY <2>1, <2>2
<1>7. CASE Fetch(s) \/ Remove(s) \/ Reindex(s)
  BY <1>0, <1>7 DEF Fetch, Remove, Reindex, EnsureFile, Find, Make, Phase
<1>8. CASE Upload(s)
  <2>1. CASE ~Throw(s)
    <3>1. PICK p \in todo[s] :
             /\ p \in DOMAIN disk /\ disk[p] = plan[s][p]
             /\ plan' = [plan EXCEPT ![s] = Put(@, p, disk[p])]
             /\ todo' = [todo EXCEPT ![s] = @ \ {p}]
             /\ IF todo[s] = {p} THEN Goto(s, "commit") ELSE UNCHANGED pc
             /\ UNCHANGED <<op, man, drop, at, tries, quiet, bounds>>
      BY <1>8, <2>1 DEF Upload
    <3>2. plan'[s] = plan[s]
      BY <1>0, <1>8, <3>1, PutSame DEF Upload, Phase
    <3>3. QED BY <1>0, <1>1, <1>8, <3>1, <3>2 DEF Upload, Goto
  <2>2. QED BY <1>2, <2>1
<1>9. CASE Complete(s)
  <2>1. CASE Committed(s) /\ Finish(s, "done")
    BY <1>0, <1>1, <1>9, <2>1, FinishOthers DEF Committed, Complete
  <2>2. CASE Retry(s)
    <3>0. sent \subseteq sent'
      BY <1>9 DEF Complete, Committed
    <3>1. CASE UNCHANGED <<pc, op, man, todo, plan, drop, at, quiet>>
      BY <1>0, <1>1, <1>9, <3>0, <3>1 DEF Complete
    <3>2. CASE Finish(s, "failed")
      BY <1>0, <1>1, <3>2, FinishOthers
    <3>3. QED BY <1>0, <2>2, <3>1, <3>2, RetryOthers
  <2>3. QED BY <1>9, <2>1, <2>2 DEF Complete
<1>10. QED BY <1>4, <1>5, <1>6, <1>7, <1>8, <1>9, <1>3 DEF SyncStep

\* What leaves the calls of a session and its note in the documents alone, and
\* adds to the cloud, carries the note, too.
LEMMA OtherCarries ==
  ASSUME NEW s \in Session, Carried(s), UNCHANGED LocalsOf(s),
         s \in Get(disk', Notes), sent \subseteq sent'
  PROVE  Carried(s)'
BY DEF Carried, LocalsOf, Running

\* What leaves a session where it is keeps what it has.
LEMMA StillTracked ==
  ASSUME NEW s \in Session, Tracked(s), UNCHANGED LocalsOf(s),
         UNCHANGED <<stage[s], outcome[s], (s \in work), (s \in noted)>>,
         s \in raced => s \in raced',
         Losing(s) => s \in raced',
         sent \subseteq sent'
  PROVE  Tracked(s)'
<1>1. Safe(s)' => Safe(s)
  BY DEF Safe
<1>2. ASSUME Safe(s)', Completing(s), s \in Get(disk, Notes) PROVE s \in Get(disk', Notes)
  BY <1>2 DEF Safe, Losing
<1>3. ASSUME Safe(s)', stage[s] = "pushing" PROVE Carried(s)'
  <2>1. Carried(s)
    BY <1>1, <1>3 DEF Tracked
  <2>2. s \in Get(disk', Notes)
    BY <1>2, <1>3, <2>1 DEF Carried, Completing
  <2>3. QED BY <2>1, <2>2, OtherCarries
<1>4. ASSUME Safe(s)', stage[s] = "checkpoint" PROVE s \in Get(disk', Notes)
  BY <1>1, <1>2, <1>4 DEF Tracked, Completing
<1>5. QED BY <1>1, <1>3, <1>4 DEF Tracked

LEMMA CallTracked ==
  ASSUME Core, SessionInv, NEW c \in Call, Step(c), sent \subseteq sent'
  PROVE  SessionInv'
<1> USE DEF Core, TypeOK
<1>1. SyncStep(c) /\ UNCHANGED <<stage, outcome, work, noted>>
  BY DEF Step
<1>2. raced \subseteq raced' /\ \A s \in Session : Losing(s) => s \in raced'
  BY DEF Step, Race
<1>3. ASSUME NEW s \in Session PROVE Tracked(s)'
  <2>1. s \in Call
    BY SessionAssumption
  <2>2. CASE s # c
    <3>1. UNCHANGED LocalsOf(s)
      BY <1>1, <2>1, <2>2, Others
    <3>2. QED BY <1>1, <1>2, <3>1, StillTracked DEF SessionInv
  <2>3. CASE s = c
    <3>1. ASSUME Safe(s)', stage[s] = "pushing" PROVE Carried(s)'
      <4>1. Carried(s)
        BY <1>1, <1>2, <3>1 DEF Safe, SessionInv, Tracked
      <4>2. s \in Get(disk', Notes)
        BY <1>2, <3>1, <4>1 DEF Safe, Carried, Losing, Completing
      <4>3. QED BY <1>1, <2>3, <4>1, <4>2, PushCarries
    <3>2. ASSUME Safe(s)', stage[s] = "checkpoint" PROVE s \in Get(disk', Notes)
      <4>1. s \in Get(disk, Notes)
        BY <1>1, <1>2, <3>2 DEF Safe, SessionInv, Tracked
      <4>2. QED BY <1>2, <3>2, <4>1 DEF Safe, Losing, Completing
    <3>3. QED BY <1>1, <1>2, <3>1, <3>2 DEF SessionInv, Tracked, Safe
  <2>4. QED BY <2>2, <2>3
<1>4. QED BY <1>3 DEF SessionInv

\* The steps of one session.
LEMMA OwnTracked ==
  ASSUME Core, NEW s \in Session, Tracked(s),
         Prepare(s) \/ CompleteSession(s) \/ SessionStep(s)
  PROVE  Tracked(s)'
<1> USE DEF Core, TypeOK, Enter, Tracked, Safe
<1>0. s \in Call
  BY SessionAssumption
<1>1. CASE Prepare(s)
  BY <1>1 DEF Prepare
<1>2. CASE Prepared(s)
  BY <1>2 DEF Prepared
<1>3. CASE CompleteSession(s)
  <2>1. CASE outcome'[s] = "success"
    <3>1. AppendNotes({s}) /\ stage'[s] = "checkpoint"
      BY <1>3, <2>1 DEF CompleteSession
    <3>2. s \in Get(disk', Notes)
      BY <3>1, AppendDocuments
    <3>3. QED BY <1>3, <2>1, <3>1, <3>2 DEF CompleteSession
  <2>2. CASE outcome'[s] # "success"
    <3>1. s \notin noted'
      BY <1>3, <2>2 DEF CompleteSession
    <3>2. QED BY <1>3, <3>1 DEF CompleteSession
  <2>3. QED BY <2>1, <2>2
<1>4. CASE Checkpoint(s)
  <2>1. CASE Enter(s, "pushing") /\ Start(s, "push")
    <3>1. pc'[s] \in {"ready", "snapshot"} /\ op'[s] = "push"
      BY <1>0, <2>1, StartPhase
    <3>2. UNCHANGED <<disk, outcome, work, noted, raced>> /\ stage'[s] = "pushing"
      BY <1>4, <2>1 DEF Checkpoint, Start
    <3>3. s \in Get(disk, Notes) => Carried(s)'
      BY <3>1, <3>2 DEF Carried
    <3>4. QED BY <1>4, <3>2, <3>3 DEF Checkpoint
  <2>2. CASE Enter(s, "working")
    BY <1>4, <2>2 DEF Checkpoint
  <2>3. QED BY <1>4, <2>1, <2>2 DEF Checkpoint
<1>5. CASE PushFailed(s)
  BY <1>5 DEF PushFailed
<1>6. CASE Pushed(s)
  <2>1. UNCHANGED <<sent, outcome, noted, raced>> /\ stage'[s] = "closed"
    BY <1>6 DEF Pushed
  <2>2. Safe(s) => s \in sent
    BY <1>6 DEF Pushed, Carried
  <2>3. QED BY <1>6, <2>1, <2>2 DEF Pushed
<1>7. QED BY <1>1, <1>2, <1>3, <1>4, <1>5, <1>6 DEF SessionStep

LEMMA SessionTracked ==
  ASSUME Core, SessionInv, NEW s \in Session,
         Prepare(s) \/ CompleteSession(s) \/ SessionStep(s), sent \subseteq sent'
  PROVE  SessionInv'
<1> USE DEF Core, TypeOK, Enter
<1>0. s \in Call
  BY SessionAssumption
<1>1. ASSUME NEW t \in Session, t # s
      PROVE  /\ UNCHANGED LocalsOf(t)
             /\ UNCHANGED <<stage[t], outcome[t], (t \in work), (t \in noted)>>
             /\ t \in raced => t \in raced'
             /\ Get(disk, Notes) \subseteq Get(disk', Notes)
  <2>0. t \in Call \ {s}
    BY <1>1, SessionAssumption
  <2>1. CASE Prepare(s)
    BY <1>0, <1>1, <2>0, <2>1, StartPhase DEF Prepare, Start
  <2>2. CASE Prepared(s)
    BY <1>1, <2>2 DEF Prepared, device, locals, LocalsOf
  <2>3. CASE CompleteSession(s)
    <3>1. Get(disk, Notes) \subseteq Get(disk', Notes)
      BY <2>3, AppendDocuments DEF CompleteSession
    <3>2. QED BY <1>1, <2>3, <3>1 DEF CompleteSession, locals, LocalsOf
  <2>4. CASE Checkpoint(s)
    <3>1. CASE Start(s, "push")
      BY <1>0, <1>1, <2>0, <2>4, <3>1, StartPhase DEF Checkpoint, Start
    <3>2. CASE UNCHANGED <<device, replica, pc, locals, history>>
      BY <1>1, <2>4, <3>2 DEF Checkpoint, device, locals, LocalsOf
    <3>3. QED BY <2>4, <3>1, <3>2 DEF Checkpoint
  <2>5. CASE PushFailed(s)
    BY <1>1, <2>5 DEF PushFailed, device, locals, LocalsOf
  <2>6. CASE Pushed(s)
    <3>1. Get(disk, Notes) \subseteq Get(disk', Notes)
      BY <2>6, AppendDocuments DEF Pushed
    <3>2. (t \in work') = (t \in work)
      BY <1>1, <2>6 DEF Pushed
    <3>3. QED BY <1>1, <2>6, <3>1, <3>2 DEF Pushed, locals, LocalsOf
  <2>7. QED BY <2>1, <2>2, <2>3, <2>4, <2>5, <2>6 DEF SessionStep
<1>2. ASSUME NEW t \in Session PROVE Tracked(t)'
  <2>1. CASE t = s
    BY <2>1, OwnTracked DEF SessionInv
  <2>2. CASE t # s
    BY <1>1, <2>2, StillTracked DEF SessionInv, Losing
  <2>3. QED BY <2>1, <2>2
<1>3. QED BY <1>2 DEF SessionInv

LEMMA TrackedStep ==
  ASSUME Core, SessionInv, [Next]_vars
  PROVE  SessionInv'
<1> USE DEF Core, TypeOK, sessionVars
<1>0. sent \subseteq sent'
  BY CloudStep
<1>1. ASSUME UNCHANGED <<pc, locals, sessionVars>>,
             Get(disk, Notes) \subseteq Get(disk', Notes)
      PROVE  SessionInv'
  <2>1. \A s \in Session : Tracked(s)'
    BY <1>0, <1>1, StillTracked DEF SessionInv, Losing, locals, LocalsOf
  <2>2. QED BY <2>1 DEF SessionInv
<1>2. ASSUME NEW c \in Call, Step(c) PROVE SessionInv'
  BY <1>0, <1>2, CallTracked
<1>3. ASSUME NEW s \in Session, Prepare(s) \/ CompleteSession(s) \/ SessionStep(s)
      PROVE  SessionInv'
  BY <1>0, <1>3, SessionTracked
<1>4. ASSUME NEW c \in Client, Sync(c) PROVE SessionInv'
  <2>1. c \in Call
    BY SessionAssumption
  <2>2. \A s \in Session : s \in Call \ {c}
    BY SessionAssumption
  <2>3. \A s \in Session : UNCHANGED LocalsOf(s)
    BY <1>4, <2>1, <2>2, StartPhase DEF Sync
  <2>4. UNCHANGED <<disk, sessionVars>>
    BY <1>4 DEF Sync, Start
  <2>5. \A s \in Session : Tracked(s)'
    BY <1>0, <2>3, <2>4, StillTracked DEF SessionInv, Losing
  <2>6. QED BY <2>5 DEF SessionInv
<1>5. ASSUME NEW f \in Written, WriteRead(f) \/ WriteBack(f) PROVE SessionInv'
  <2>1. CASE WriteRead(f)
    BY <1>1, <2>1 DEF WriteRead, ReadNotes
  <2>2. CASE WriteBack(f)
    <3>1. UNCHANGED <<pc, locals, stage, outcome, work, noted>>
      BY <2>2 DEF WriteBack, WriteNotes
    <3>2. raced \subseteq raced' /\ \A s \in Session : Losing(s) => s \in raced'
      BY <2>2 DEF WriteBack, Race
    <3>3. \A s \in Session : Tracked(s)'
      BY <1>0, <3>1, <3>2, StillTracked DEF SessionInv, locals, LocalsOf
    <3>4. QED BY <3>3 DEF SessionInv
  <2>3. QED BY <1>5, <2>1, <2>2
<1>6. ASSUME NEW f \in Linked, Link(f) PROVE SessionInv'
  <2>1. Get(disk', Notes) = Get(disk, Notes)
    BY <1>6, PutGet, PathFacts DEF Link, LinkNodes
  <2>2. QED BY <1>1, <1>6, <2>1 DEF Link, LinkNodes
<1>7. CASE LinkDone
  <2>1. Get(disk', Notes) = Get(disk, Notes)
    BY <1>7, PutGet, PathFacts DEF LinkDone, LinkEdges
  <2>2. QED BY <1>1, <1>7, <2>1 DEF LinkDone, LinkEdges
<1>8. ASSUME NEW f \in Remote, Foreign(f) PROVE SessionInv'
  BY <1>1, <1>8 DEF Foreign, Elsewhere, device
<1>9. CASE Crash
  <2>1. ASSUME NEW s \in Session PROVE Tracked(s)'
    <3>1. /\ stage'[s] \in {"new", "working", "closed"}
          /\ stage'[s] = "new" => stage[s] \in {"new", "preparing"}
          /\ stage'[s] = "working" => stage[s] = "working" \/ Completing(s)
          /\ stage'[s] = "closed" => stage[s] = "closed"
          /\ UNCHANGED <<outcome, work, noted, raced>>
      BY <1>9, Zenon DEF Crash, Completing, Stages
    <3>2. Tracked(s)
      BY DEF SessionInv
    <3>3. QED BY <1>0, <3>1, <3>2 DEF Tracked, Completing, Safe
  <2>2. QED BY <2>1 DEF SessionInv
<1>10. CASE UNCHANGED vars
  BY <1>1, <1>10 DEF vars, syncVars, device
<1>11. QED BY <1>2, <1>3, <1>4, <1>5, <1>6, <1>7, <1>8, <1>9, <1>10 DEF Next

\* A session gives up its working files only when its note is in the cloud, unless
\* the note went out of notes.md while it completed.
THEOREM NotesArrive == Spec => []SessionReplicated
<1> DEFINE I == Core /\ SessionInv
<1>1. Init => I
  <2>1. ASSUME Init PROVE SessionInv
    BY <2>1 DEF Init, SessionInv, Tracked, Safe
  <2>2. QED BY <2>1, CoreInit
<1>2. I /\ [Next]_vars => I'
  BY CoreStep, TrackedStep
<1>3. I => SessionReplicated
  BY DEF SessionReplicated, SessionInv, Tracked, Safe, Core, TypeOK, Stages
<1>4. QED BY <1>1, <1>2, <1>3, PTL DEF Spec

-----------------------------------------------------------------------------
(* What a pull leaves behind.                                              *)

\* What a pull past its manifest has made of a file so far.
Made(c, p) ==
  IF \/ pc[c] = "remove" /\ p \in drop[c] \ todo[c]
     \/ pc[c] \in {"reindex", "recreate"} /\ p \in drop[c]
  THEN {}
  ELSE IF p \in DOMAIN plan[c] /\ ~(pc[c] = "fetch" /\ p \in todo[c]) THEN plan[c][p]
  ELSE Get(man[c], p)

\* A call past its manifest finds the files of S as it left them.
Copies(c, S) ==
  /\ pc[c] \in {"scan", "ask"} =>
       \A p \in S : p \in todo[c] \/ Get(man[c], p) = Get(disk, p)
  /\ pc[c] = "ask" => todo[c] = {}
  /\ pc[c] \in {"fetch", "remove", "reindex", "recreate"} =>
       \A p \in S : Get(disk, p) = Made(c, p)
  /\ Making(c) /\ First(c) \in S => Get(disk, First(c)) = {}

\* A pull that nothing disturbed finds them all.
Mirrors(c) ==
  /\ op[c] = "pull" /\ pc[c] \in {"scan", "ask", "fetch", "remove", "reindex", "recreate"}
  /\ Copies(c, Path)

MirrorInv == \A c \in quiet : Mirrors(c)

LEMMA OwnCopies ==
  ASSUME Core, NEW c \in Call, NEW S \in SUBSET Path, Copies(c, S), SyncStep(c)
  PROVE  Copies(c, S)'
<1> USE DEF Core, TypeOK, SyncTypeOK, Copies, Making, locals, device
<1>0. Phase(c)
  BY DEF PhaseInv
<1>1. ASSUME NEW step \in Rest, Finish(c, step) PROVE Copies(c, S)'
  BY <1>1, FinishOthers DEF Rest
<1>2. CASE Throw(c)
  BY <1>1, <1>2 DEF Throw, Rest
<1>3. CASE Retry(c) /\ UNCHANGED disk
  <2>1. CASE UNCHANGED <<pc, op, man, todo, plan, drop, at, quiet>>
    BY <1>3, <2>1, FirstStays DEF Made
  <2>2. QED BY <1>1, <1>3, <2>1, RetryOthers DEF Rest
<1>4. CASE Save(c)
  <2>1. CASE BeginScan(c)
    BY <2>1 DEF BeginScan, Goto
  <2>2. QED BY <1>4, <1>2, <2>1 DEF Save
<1>5. CASE Snapshot(c)
  BY <1>2, <1>5 DEF Snapshot, Goto
<1>6. CASE Ready(c)
  <2>1. CASE EnsureFile(c, "ready", "create")
    <3>1. /\ "ready" \in Steps /\ "create" \in Steps
          /\ pc[c] = "create" => todo[c] # {}
      BY <1>0 DEF Steps, Phase
    <3>2. \/ pc'[c] = "ready"
          \/ /\ pc'[c] = "create" /\ todo'[c] = todo[c] /\ UNCHANGED disk
             /\ First(c) \notin DOMAIN disk
      BY <2>1, <3>1, EnsureResult
    <3>3. QED BY <3>2, FirstStays DEF Get
  <2>2. QED BY <1>2, <1>6, <2>1 DEF Ready, Goto
<1>7. CASE Scan(c)
  <2> DEFINE p == First(c)
  <2>1. /\ man' = [man EXCEPT ![c] = IF p \in DOMAIN disk THEN Put(@, p, disk[p]) ELSE @]
        /\ todo' = [todo EXCEPT ![c] = @ \ {p}]
        /\ IF todo[c] = {p} THEN Goto(c, "ask") ELSE UNCHANGED pc
        /\ pc[c] = "scan" /\ UNCHANGED <<op, disk>>
    BY <1>7 DEF Scan
  <2>0. p \in todo[c]
    BY <1>0, <2>1, FirstFacts DEF Phase
  <2> HIDE DEF p
  <2>2. p \notin DOMAIN man[c]
    BY <1>0, <2>0, <2>1 DEF Phase
  <2>3. \A q \in S : Get(man'[c], q) = IF q = p THEN Get(disk, p) ELSE Get(man[c], q)
    <3>1. CASE p \in DOMAIN disk
      BY <2>1, <3>1, PutGet DEF Get
    <3>2. CASE p \notin DOMAIN disk
      BY <2>1, <2>2, <3>2 DEF Get
    <3>3. QED BY <3>1, <3>2
  <2>4. QED BY <2>1, <2>3 DEF Goto
<1>8. CASE Ask(c)
  <2>1. CASE Retry(c)
    BY <1>8, <1>3, <2>1 DEF Ask
  <2>2. CASE ~Retry(c) /\ op[c] = "push"
    <3>1. pc'[c] \in {"upload", "commit"}
      BY <1>8, <2>2, AskResult
    <3>2. QED BY <3>1
  <2>3. CASE ~Retry(c) /\ op[c] = "pull"
    <3> DEFINE wanted == Choose(cloud, Differing(cloud, man[c]))
    <3>1. /\ plan'[c] = wanted /\ op'[c] = op[c] /\ man'[c] = man[c]
          /\ drop'[c] = removed \cap DOMAIN man[c]
          /\ \/ wanted = NoFiles /\ todo'[c] = drop'[c] /\ pc'[c] = "remove"
             \/ todo'[c] = DOMAIN wanted /\ pc'[c] = "fetch"
      BY <1>8, <2>3, AskResult
    <3> HIDE DEF wanted
    <3>2. \A p \in S : Get(disk', p) = Get(man[c], p)
      BY <1>8 DEF Ask
    <3>3. DOMAIN NoFiles = {}
      BY DEF NoFiles
    <3>4. QED BY <3>1, <3>2, <3>3 DEF Made
  <2>4. QED BY <2>1, <2>2, <2>3
<1>9. CASE Fetch(c)
  <2>1. CASE ~Throw(c)
    <3>1. PICK p \in todo[c] :
            /\ disk' = Put(disk, p, plan[c][p])
            /\ todo' = [todo EXCEPT ![c] = IF @ = {p} THEN drop[c] ELSE @ \ {p}]
            /\ IF todo[c] = {p} THEN Goto(c, "remove") ELSE UNCHANGED pc
            /\ UNCHANGED <<op, man, plan, drop>>
      BY <1>9, <2>1 DEF Accepted, Fetch
    <3>2. p \in DOMAIN plan[c] /\ p \notin drop[c]
      BY <1>0, <1>9, <3>1 DEF Fetch, Phase
    <3>3. \A q \in S : Get(disk', q) = IF q = p THEN plan[c][p] ELSE Get(disk, q)
      BY <3>1, <3>2, PutGet
    <3>4. CASE todo[c] = {p}
      <4>1. pc'[c] = "remove" /\ todo'[c] = drop[c]
        BY <3>1, <3>4 DEF Goto
      <4>2. QED BY <1>9, <3>1, <3>2, <3>3, <3>4, <4>1 DEF Made, Fetch
    <3>5. CASE todo[c] # {p}
      <4>1. pc'[c] = "fetch" /\ todo'[c] = todo[c] \ {p}
        BY <1>9, <3>1, <3>5 DEF Fetch
      <4>2. QED BY <1>9, <3>1, <3>2, <3>3, <3>5, <4>1 DEF Made, Fetch
    <3>6. QED BY <3>4, <3>5
  <2>2. QED BY <1>2, <2>1
<1>10. CASE Remove(c)
  <2>1. CASE Goto(c, "reindex") /\ todo[c] = {} /\ UNCHANGED <<disk, man, plan, drop>>
    BY <1>10, <2>1 DEF Made, Goto, Remove
  <2>2. ASSUME NEW p \in todo[c], disk' = Drop(disk, {p}),
               todo' = [todo EXCEPT ![c] = @ \ {p}], UNCHANGED <<pc, op, man, plan, drop>>
        PROVE  Copies(c, S)'
    <3>1. p \in drop[c]
      BY <1>0, <1>10 DEF Remove, Phase
    <3>2. \A q \in S : Get(disk', q) = IF q = p THEN {} ELSE Get(disk, q)
      BY <2>2, DropGet
    <3>3. QED BY <1>10, <2>2, <3>1, <3>2 DEF Made, Remove
  <2>3. QED BY <1>10, <1>2, <2>1, <2>2 DEF Remove
<1>11. CASE Reindex(c)
  <2>1. CASE EnsureFile(c, "reindex", "recreate")
    <3>1. /\ "reindex" \in Steps /\ "recreate" \in Steps
          /\ pc[c] = "recreate" => todo[c] # {}
      BY <1>0 DEF Steps, Phase
    <3>2. /\ UNCHANGED <<op, man, plan, drop>>
          /\ pc[c] \in {"reindex", "recreate"} /\ pc'[c] \in {"reindex", "recreate"}
          /\ \/ UNCHANGED disk
             \/ pc[c] = "recreate" /\ disk' = Put(disk, First(c), {})
          /\ pc'[c] = "recreate" =>
               todo'[c] = todo[c] /\ UNCHANGED disk /\ First(c) \notin DOMAIN disk
      BY <2>1, <3>1, EnsureResult
    <3>3. ASSUME NEW p \in S PROVE Get(disk', p) = Get(disk, p)
      <4>1. CASE UNCHANGED disk
        BY <4>1
      <4>2. CASE pc[c] = "recreate" /\ disk' = Put(disk, First(c), {})
        <5>1. First(c) \in S => Get(disk, First(c)) = {}
          BY <4>2
        <5>2. Get(disk', p) = IF p = First(c) THEN {} ELSE Get(disk, p)
          BY <4>2, PutGet
        <5>3. QED BY <5>1, <5>2
      <4>3. QED BY <3>2, <4>1, <4>2
    <3>4. \A p \in S : Made(c, p)' = Made(c, p)
      BY <3>2 DEF Made
    <3>5. Making(c)' => First(c)' = First(c) /\ Get(disk', First(c)) = {}
      BY <3>2, FirstStays DEF Get
    <3>6. QED BY <3>2, <3>3, <3>4, <3>5
  <2>2. QED BY <1>1, <1>11, <2>1 DEF Reindex, Rest
<1>12. CASE Upload(c)
  <2>1. CASE ~Throw(c)
    BY <1>12, <2>1 DEF Upload, Goto
  <2>2. QED BY <1>2, <2>1
<1>13. CASE Complete(c)
  BY <1>1, <1>13, <1>3 DEF Complete, Rest
<1>14. QED BY <1>4, <1>7, <1>8, <1>9, <1>10, <1>11, <1>12, <1>13, <1>5, <1>6
   DEF SyncStep

\* A pull that stays quiet stays where it can be.
LEMMA OwnMirrors ==
  ASSUME Core, NEW c \in Call, Mirrors(c), SyncStep(c), c \in quiet'
  PROVE  Mirrors(c)'
<1>1. Copies(c, Path)'
  BY OwnCopies DEF Mirrors
<1>2. op'[c] = "pull" /\ pc'[c] \in {"scan", "ask", "fetch", "remove", "reindex", "recreate"}
  <2> USE DEF Core, TypeOK, SyncTypeOK, Mirrors, locals
  <2>1. ~Throw(c)
    BY DEF Throw
  <2>2. CASE Scan(c) \/ Fetch(c) \/ Remove(c)
    BY <2>1, <2>2 DEF Scan, Fetch, Remove, Goto
  <2>3. CASE Ask(c)
    BY <2>1, <2>3, AskResult, RetryOthers DEF Throw
  <2>4. CASE Reindex(c)
    BY <2>4 DEF Reindex, EnsureFile, Find, Make, Goto
  <2>5. QED BY <2>2, <2>3, <2>4 DEF SyncStep, Ready, EnsureFile, Find, Make,
     Snapshot, Save, Upload, Complete
<1>3. QED BY <1>1, <1>2 DEF Mirrors

\* A pull becomes quiet when its scan begins, with nothing in its manifest.
LEMMA BecomesQuiet ==
  ASSUME Core, NEW c \in Call, SyncStep(c), c \in quiet' \ quiet
  PROVE  Mirrors(c)'
<1> USE DEF Core, TypeOK, SyncTypeOK
<1>1. pc[c] = "save" /\ BeginScan(c) /\ op[c] = "pull"
  <2>1. quiet' = quiet => FALSE
    OBVIOUS
  <2>2. ~Throw(c)
    BY DEF Throw
  <2>3. ~Retry(c)
    BY <2>2 DEF Retry
  <2>4. Save(c)
    BY <2>1, <2>2, <2>3 DEF SyncStep, Ready, EnsureFile, Find, Make, Snapshot,
       Scan, Ask, Fetch, Remove, Reindex, Upload, Complete, locals
  <2>5. QED BY <2>2, <2>4 DEF Save, BeginScan
<1>2. /\ op'[c] = "pull" /\ pc'[c] = "scan" /\ todo'[c] = Path
  BY <1>1 DEF BeginScan, Goto
<1>3. QED BY <1>2 DEF Mirrors, Copies, Making

\* What any other step does to a quiet pull: nothing, or it is not quiet then.
LEMMA OtherCopies ==
  ASSUME NEW c \in Call, NEW S, Copies(c, S), UNCHANGED <<LocalsOf(c)>>,
         \A p \in S : Get(disk', p) = Get(disk, p)
  PROVE  Copies(c, S)'
<1>1. UNCHANGED <<pc[c], op[c], man[c], todo[c], plan[c], drop[c]>>
  BY DEF LocalsOf
<1>2. \A p \in S : Made(c, p)' = Made(c, p)
  BY <1>1 DEF Made
<1>3. First(c)' = First(c)
  BY <1>1, FirstStays
<1>4. QED BY <1>1, <1>2, <1>3 DEF Copies, Making

LEMMA OtherMirrors ==
  ASSUME NEW c \in Call, Mirrors(c), UNCHANGED <<LocalsOf(c)>>,
         \A p \in Path : Get(disk', p) = Get(disk, p)
  PROVE  Mirrors(c)'
BY OtherCopies DEF Mirrors, LocalsOf

LEMMA MirrorStep ==
  ASSUME Core, MirrorInv, [Next]_vars
  PROVE  MirrorInv'
<1> USE DEF Core, TypeOK
<1>0. quiet \subseteq Call
  BY DEF SyncTypeOK
<1>1. CASE quiet' = {}
  BY <1>1 DEF MirrorInv
<1>2. ASSUME UNCHANGED <<pc, locals, disk>>, quiet' \subseteq quiet PROVE MirrorInv'
  <2>1. \A c \in Call : UNCHANGED LocalsOf(c)
    BY <1>2 DEF locals, LocalsOf
  <2>2. QED BY <1>0, <1>2, <2>1, OtherMirrors DEF MirrorInv
<1>3. ASSUME NEW c \in Call, Step(c) PROVE MirrorInv'
  <2>1. SyncStep(c)
    BY <1>3 DEF Step
  <2>2. ASSUME NEW d \in quiet', d # c PROVE Mirrors(d)'
    <3>1. d \in quiet
      BY <2>1, <2>2 DEF SyncStep, Ready, EnsureFile, Find, Make, Snapshot,
         Save, Scan, Ask, Fetch, Remove, Reindex, Upload, Complete, Retry,
         Throw, BeginScan, locals
    <3>2. UNCHANGED LocalsOf(d)
      BY <1>0, <2>1, <2>2, <3>1, Others
    <3>3. \A p \in Path : Get(disk', p) = Get(disk, p)
      <4>1. CASE UNCHANGED disk
        BY <4>1
      <4>2. CASE Ready(c) \/ Reindex(c)
        BY <2>2, <4>1, <4>2 DEF Ready, Reindex, EnsureFile, Find, Make
      <4>3. CASE Fetch(c) \/ Remove(c)
        BY <2>2, <4>1, <4>3 DEF Fetch, Remove
      <4>4. QED BY <2>1, <4>1, <4>2, <4>3 DEF SyncStep, Snapshot, Save, Scan,
         Ask, Upload, Complete, device
    <3>4. QED BY <1>0, <3>1, <3>2, <3>3, OtherMirrors DEF MirrorInv
  <2>3. ASSUME c \in quiet' PROVE Mirrors(c)'
    <3>1. CASE c \in quiet
      BY <2>1, <2>3, <3>1, OwnMirrors DEF MirrorInv
    <3>2. CASE c \notin quiet
      BY <2>1, <2>3, <3>2, BecomesQuiet
    <3>3. QED BY <3>1, <3>2
  <2>4. QED BY <2>2, <2>3 DEF MirrorInv
<1>4. ASSUME NEW c \in Call, NEW kind \in {"pull", "push"}, Start(c, kind) PROVE MirrorInv'
  <2>1. ASSUME NEW d \in quiet' PROVE Mirrors(d)'
    <3>1. d \in quiet /\ d # c /\ UNCHANGED disk
      BY <1>4, <2>1 DEF Start
    <3>2. UNCHANGED LocalsOf(d)
      BY <1>0, <1>4, <3>1, StartPhase
    <3>3. QED BY <1>0, <3>1, <3>2, OtherMirrors DEF MirrorInv
  <2>2. QED BY <2>1 DEF MirrorInv
<1>5. ASSUME NEW s \in Session, Prepare(s) \/ CompleteSession(s) \/ SessionStep(s)
      PROVE  MirrorInv'
  <2>1. s \in Call
    BY SessionAssumption
  <2>2. CASE Start(s, "pull") \/ Start(s, "push")
    BY <1>4, <2>1, <2>2
  <2>3. CASE ~(Start(s, "pull") \/ Start(s, "push"))
    BY <1>1, <1>2, <1>5, <2>3 DEF Prepare, CompleteSession, SessionStep,
       Prepared, Checkpoint, PushFailed, Pushed, AppendNotes, Documents,
       syncVars, device, history
  <2>4. QED BY <2>2, <2>3
<1>6. ASSUME NEW c \in Client, Sync(c) PROVE MirrorInv'
  BY <1>4, <1>6, SessionAssumption DEF Sync
<1>7. CASE \/ \E f \in Written : WriteRead(f) \/ WriteBack(f)
           \/ \E f \in Linked : Link(f)
           \/ LinkDone \/ Crash
  BY <1>1, <1>2, <1>7 DEF WriteRead, ReadNotes, WriteBack, WriteNotes,
     Documents, history, Link, LinkNodes, LinkDone, LinkEdges, Crash, Restart
<1>8. CASE (\E f \in Remote : Foreign(f)) \/ UNCHANGED vars
  BY <1>2, <1>8 DEF Foreign, Elsewhere, device, vars, syncVars, history
<1>9. QED BY <1>3, <1>5, <1>6, <1>7, <1>8 DEF Next

\* Only the last step of a pull makes it answer.
LEMMA PulledReindexes ==
  ASSUME Core, [Next]_vars, NEW c \in Call, Pulled(c)
  PROVE  Reindex(c)
<1> USE DEF Core, TypeOK, Pulled
<1>1. ASSUME NEW d \in Call, Step(d) PROVE Reindex(c)
  <2>1. SyncStep(d)
    BY <1>1 DEF Step
  <2>2. d = c
    BY <2>1, Others DEF LocalsOf
  <2>3. QED BY <2>1, <2>2 DEF SyncStep, Ready, EnsureFile, Find, Make,
     Snapshot, Save, Scan, Ask, Fetch, Remove, Upload, Complete
<1>2. CASE UNCHANGED pc
  BY <1>2
<1>3. ASSUME NEW d \in Call, NEW kind \in {"pull", "push"}, Start(d, kind) PROVE FALSE
  <2>1. pc'[d] \in {"ready", "snapshot"} /\ \A b \in Call \ {d} : UNCHANGED LocalsOf(b)
    BY <1>3, StartPhase
  <2>2. QED BY <2>1 DEF LocalsOf
<1>4. CASE Crash
  BY <1>4 DEF Crash, Restart
<1>5. ASSUME NEW s \in Session, Prepare(s) \/ CompleteSession(s) \/ SessionStep(s)
      PROVE  Reindex(c)
  <2>1. s \in Call
    BY SessionAssumption
  <2>2. QED BY <1>2, <1>3, <1>5, <2>1 DEF Prepare, CompleteSession,
     SessionStep, Prepared, Checkpoint, PushFailed, Pushed, syncVars
<1>6. ASSUME NEW d \in Client, Sync(d) PROVE Reindex(c)
  BY <1>3, <1>6, SessionAssumption DEF Sync
<1>7. CASE \/ \E f \in Written : WriteRead(f) \/ WriteBack(f)
           \/ \E f \in Linked : Link(f)
           \/ \E f \in Remote : Foreign(f)
           \/ LinkDone \/ UNCHANGED vars
  BY <1>2, <1>7 DEF WriteRead, ReadNotes, WriteBack, WriteNotes, Link,
     LinkNodes, LinkDone, LinkEdges, Foreign, Elsewhere, vars, syncVars
<1>8. QED BY <1>1, <1>4, <1>5, <1>6, <1>7 DEF Next

\* A pull that answers undisturbed has made the files what the cloud said.
THEOREM PullsMirror == Spec => PullMirrors
<1> DEFINE I == Core /\ MirrorInv
           A == \A c \in Call : Pulled(c) =>
                  LET expected == Over(man[c], plan[c])
                  IN  \A p \in Path : Get(disk', p) = IF p \in drop[c] THEN {}
                                                      ELSE Get(expected, p)
<1>1. Init => I
  BY CoreInit DEF Init, SyncInit, MirrorInv
<1>2. I /\ [Next]_vars => I'
  BY CoreStep, MirrorStep
<1>3. I /\ [Next]_vars => [A]_syncVars
  <2>1. ASSUME I, [Next]_vars, NEW c \in Call, Pulled(c), NEW p \in Path
        PROVE  Get(disk', p) = IF p \in drop[c] THEN {} ELSE Get(Over(man[c], plan[c]), p)
    <3>1. Reindex(c) /\ c \in quiet /\ pc[c] \in {"reindex", "recreate"} /\ pc'[c] = "done"
      BY <2>1, PulledReindexes DEF Pulled
    <3>2. Get(disk', p) = Get(disk, p)
      BY <2>1, <3>1 DEF Reindex, EnsureFile, Find, Make, Goto, Core, TypeOK, SyncTypeOK
    <3>3. Get(disk, p) = Made(c, p)
      BY <2>1, <3>1 DEF MirrorInv, Mirrors, Copies
    <3>4. QED BY <3>1, <3>2, <3>3, OverGet DEF Made
  <2>2. QED BY <2>1
<1>4. QED BY <1>1, <1>2, <1>3, PTL DEF Spec, PullMirrors

-----------------------------------------------------------------------------
(* The pair of graph files.                                                *)

GraphPath == {Nodes, Edges}

\* A call that reads the graph files for its manifest, or replaces them.
Copying(c) == Moving(c) /\ ~Making(c)

\* A pull that has replaced or removed some of its files and not all.
Wrote(c) ==
  \/ pc[c] = "fetch" /\ todo[c] # DOMAIN plan[c]
  \/ pc[c] = "remove" /\ (plan[c] # NoFiles \/ todo[c] # drop[c])

\* What a pull will have made of the files when it is through.
Target(c) ==
  [p \in Path |-> IF p \in drop[c] THEN {} ELSE Get(Over(man[c], plan[c]), p)]

\* What a call knows of the graph files: those it reads or replaces are as it
\* left them, one it makes is still empty, a push has found both and they load,
\* a pull and a commit lead to a pair that loads.
GraphCall(c) ==
  /\ Copying(c) => Copies(c, GraphPath)
  /\ Making(c) /\ First(c) \in GraphPath => Get(disk, First(c)) = {}
  /\ op[c] = "push" /\ pc[c] = "scan" =>
       GraphPath \subseteq todo[c] \cup DOMAIN man[c]
  /\ op[c] = "push" /\ pc[c] = "ask" =>
       GraphPath \subseteq DOMAIN man[c] /\ Loads(man[c])
  /\ pc[c] \in {"fetch", "remove"} => Loads(Target(c))
  /\ pc[c] \in {"upload", "commit"} /\ at[c] = cursor =>
       Loads(Over(cloud, plan[c]))

\* While the writers of the graph files take turns.
InTurn ==
  /\ Loads(cloud)
  /\ linking # NoFiles => Loads(linking) /\ Get(disk, Nodes) = linking[Nodes]
  /\ linking = NoFiles /\ (\A c \in Call : ~Wrote(c)) => Loads(disk)
  /\ \A c \in Call : GraphCall(c)

TurnInv == (\A c \in Call : at[c] <= cursor) /\ (~mixed => InTurn)

LEMMA LoadsSame ==
  ASSUME NEW f, NEW g, \A p \in GraphPath : Get(f, p) = Get(g, p)
  PROVE  Loads(f) <=> Loads(g)
BY DEF Loads, GraphPath

LEMMA CallMixed ==
  ASSUME NEW c \in Call, SyncStep(c), ~mixed' PROVE ~mixed
BY DEF SyncStep, Ready, Snapshot, Save, Scan, Ask, Fetch, Remove, Reindex, Upload,
       Complete

\* Where a step that does not end a call takes it.
LEMMA Onward ==
  ASSUME Core, NEW c \in Call, SyncStep(c), pc'[c] \notin Rest
  PROVE  /\ op'[c] = op[c] /\ ~Throw(c) /\ ~Finish(c, "done")
         /\ \/ Ready(c) /\ pc'[c] \in {"ready", "create", "snapshot"}
            \/ Snapshot(c) /\ pc'[c] = "save"
            \/ Save(c) /\ BeginScan(c) /\ pc'[c] = "scan"
            \/ Scan(c) /\ pc'[c] \in {"scan", "ask"}
            \/ Ask(c) /\ UNCHANGED <<pc, op, man, todo, plan, drop, at, quiet>>
            \/ /\ Ask(c) /\ ~Retry(c)
               /\ pc'[c] \in IF op[c] = "push" THEN {"upload", "commit"}
                                               ELSE {"fetch", "remove"}
            \/ /\ Fetch(c) /\ op[c] = "pull" /\ pc'[c] \in {"fetch", "remove"}
               /\ UNCHANGED <<man, plan, drop>>
            \/ /\ Remove(c) /\ op[c] = "pull" /\ pc'[c] \in {"remove", "reindex"}
               /\ UNCHANGED <<man, plan, drop>>
            \/ Reindex(c) /\ pc'[c] \in {"reindex", "recreate"}
            \/ /\ Upload(c) /\ op[c] = "push" /\ pc'[c] \in {"upload", "commit"}
               /\ plan'[c] = plan[c] /\ at'[c] = at[c]
            \/ /\ Complete(c) /\ op[c] = "push"
               /\ UNCHANGED <<pc, op, man, todo, plan, drop, at, quiet>>
<1> USE DEF Core, TypeOK, SyncTypeOK, locals
<1>0. Phase(c)
  BY DEF PhaseInv
<1>a. ~Throw(c) /\ ~Finish(c, "done") /\ ~Finish(c, "failed")
  BY FinishOthers DEF Rest, Throw
<1>r. ASSUME Retry(c)
      PROVE  UNCHANGED <<pc, op, man, todo, plan, drop, at, quiet>>
  BY <1>a, <1>r, RetryOthers
<1>1. CASE Ready(c)
  BY <1>a, <1>1 DEF Ready, EnsureFile, Find, Make, Goto
<1>2. CASE Snapshot(c)
  BY <1>a, <1>2 DEF Snapshot, Goto
<1>3. CASE Save(c)
  BY <1>a, <1>3 DEF Save, BeginScan, Goto
<1>4. CASE Scan(c)
  BY <1>a, <1>4 DEF Scan, Goto
<1>5. CASE Ask(c)
  <2>1. CASE Retry(c)
    BY <1>a, <1>r, <1>5, <2>1
  <2>2. CASE ~Retry(c)
    BY <1>a, <1>5, <2>2, AskResult
  <2>3. QED BY <2>1, <2>2
<1>6. CASE Fetch(c)
  BY <1>0, <1>a, <1>6 DEF Fetch, Goto, Phase
<1>7. CASE Remove(c)
  BY <1>0, <1>a, <1>7 DEF Remove, Goto, Phase
<1>8. CASE Reindex(c)
  BY <1>a, <1>8 DEF Reindex, EnsureFile, Find, Make, Goto
<1>9. CASE Upload(c)
  <2>1. PICK p \in todo[c] :
          /\ p \in DOMAIN disk /\ disk[p] = plan[c][p]
          /\ plan' = [plan EXCEPT ![c] = Put(@, p, disk[p])]
          /\ IF todo[c] = {p} THEN Goto(c, "commit") ELSE UNCHANGED pc
          /\ UNCHANGED <<op, at>>
    BY <1>a, <1>9 DEF Upload
  <2>2. pc[c] = "upload" /\ p \in DOMAIN plan[c]
    BY <1>0, <1>9 DEF Upload, Phase
  <2>3. Put(plan[c], p, disk[p]) = plan[c]
    BY <2>1, <2>2, PutSame
  <2>4. plan'[c] = plan[c]
    BY <2>1, <2>3
  <2>5. op[c] = "push" /\ pc'[c] \in {"upload", "commit"}
    BY <1>0, <2>1, <2>2 DEF Phase, Goto
  <2>6. QED BY <1>a, <1>9, <2>1, <2>4, <2>5
<1>10. CASE Complete(c)
  <2>1. Retry(c)
    BY <1>a, <1>10 DEF Complete
  <2>2. QED BY <1>0, <1>a, <1>r, <1>10, <2>1 DEF Complete, Phase
<1>11. QED BY <1>1, <1>2, <1>3, <1>4, <1>5, <1>6, <1>7, <1>8, <1>9, <1>10 DEF SyncStep

\* The only steps of calls that change the graph files are writes of pulls, each
\* with nobody else moving files.
LEMMA CallWrites ==
  ASSUME SyncTypeOK, PhaseInv, NEW c \in Call, SyncStep(c), GraphCall(c), ~mixed'
  PROVE  \/ \A p \in GraphPath : Get(disk', p) = Get(disk, p)
         \/ /\ pc[c] \in {"fetch", "remove"} /\ ~Crossed(c)
            /\ Wrote(c)'
<1> USE DEF SyncTypeOK, device, locals
<1>1. CASE UNCHANGED disk
  BY <1>1
<1>2. ASSUME NEW look, NEW make \in {"create", "recreate"}, EnsureFile(c, look, make)
      PROVE  \A p \in GraphPath : Get(disk', p) = Get(disk, p)
  <2>1. CASE Find(c, look, make)
    BY <2>1 DEF Find
  <2>2. CASE Make(c, look, make)
    <3>1. First(c) \in GraphPath => Get(disk, First(c)) = {}
      BY <1>2, <2>2 DEF Make, GraphCall, Making
    <3>2. disk' = Put(disk, First(c), {})
      BY <2>2 DEF Make
    <3>3. ASSUME NEW p \in GraphPath PROVE Get(disk', p) = Get(disk, p)
      <4>1. Get(disk', p) = IF p = First(c) THEN {} ELSE Get(disk, p)
        BY <3>2, PutGet
      <4>2. QED BY <3>1, <4>1
    <3>4. QED BY <3>3
  <2>3. QED BY <1>2, <2>1, <2>2 DEF EnsureFile
<1>3. CASE Ready(c) \/ Reindex(c)
  BY <1>1, <1>2, <1>3 DEF Ready, Reindex
<1>4. CASE Fetch(c) /\ disk' # disk
  <2>1. PICK p \in todo[c] :
          /\ todo' = [todo EXCEPT ![c] = IF @ = {p} THEN drop[c] ELSE @ \ {p}]
          /\ IF todo[c] = {p} THEN Goto(c, "remove") ELSE UNCHANGED pc
          /\ mixed' = (mixed \/ Crossed(c))
          /\ UNCHANGED <<man, plan, drop>>
    BY <1>4 DEF Fetch
  <2>2. pc[c] = "fetch" /\ p \in DOMAIN plan[c]
    BY <1>4 DEF Fetch, PhaseInv, Phase
  <2>3. CASE todo[c] = {p}
    <3>1. pc'[c] = "remove" /\ plan'[c] # NoFiles
      BY <2>1, <2>2, <2>3 DEF Goto, NoFiles
    <3>2. QED BY <2>1, <2>2, <3>1 DEF Wrote
  <2>4. CASE todo[c] # {p}
    <3>1. pc'[c] = "fetch" /\ p \notin todo'[c] /\ p \in DOMAIN plan'[c]
      BY <2>1, <2>2, <2>4
    <3>2. QED BY <2>1, <2>2, <3>1 DEF Wrote
  <2>5. QED BY <2>3, <2>4
<1>5. CASE Remove(c) /\ disk' # disk
  <2>1. PICK p \in todo[c] :
          /\ todo' = [todo EXCEPT ![c] = @ \ {p}]
          /\ mixed' = (mixed \/ Crossed(c))
          /\ UNCHANGED <<pc, man, plan, drop>>
    BY <1>5 DEF Remove
  <2>2. pc[c] = "remove" /\ p \in drop[c]
    BY <1>5 DEF Remove, PhaseInv, Phase
  <2>3. QED BY <2>1, <2>2 DEF Wrote
<1>6. QED BY <1>1, <1>3, <1>4, <1>5 DEF SyncStep, Snapshot, Save, Scan, Ask, Upload,
                                        Complete

\* No call has a cursor the cloud has not reached, and only a commit under the
\* cursor it has moves it.
LEMMA CallAt ==
  ASSUME SyncTypeOK, NEW c \in Call, \A d \in Call : at[d] <= cursor, SyncStep(c)
  PROVE  /\ \A d \in Call : at'[d] <= cursor'
         /\ \/ UNCHANGED <<cloud, cursor>>
            \/ Committed(c) /\ at[c] = cursor /\ pc[c] = "commit"
<1> USE DEF SyncTypeOK, locals, replica
<1>1. ASSUME NEW step, Finish(c, step), cursor <= cursor', cursor' \in Nat
      PROVE  \A d \in Call : at'[d] <= cursor'
  BY <1>1 DEF Finish, Clear
<1>2. ASSUME UNCHANGED at, cursor <= cursor', cursor' \in Nat
      PROVE  \A d \in Call : at'[d] <= cursor'
  BY <1>2
<1>3. ASSUME Retry(c), cursor <= cursor', cursor' \in Nat
      PROVE  \A d \in Call : at'[d] <= cursor'
  BY <1>1, <1>2, <1>3, RetryOthers
<1>4. CASE Ready(c) \/ Snapshot(c) \/ Save(c) \/ Scan(c)
  BY <1>1, <1>2, <1>4 DEF Ready, EnsureFile, Snapshot, Save, BeginScan, Scan, Throw
<1>5. CASE Ask(c)
  <2>1. CASE at' = [at EXCEPT ![c] = cursor]
    BY <1>5, <2>1 DEF Ask
  <2>2. QED BY <1>3, <1>5, <2>1 DEF Ask
<1>6. CASE Fetch(c) \/ Remove(c) \/ Reindex(c) \/ Upload(c)
  BY <1>1, <1>2, <1>6 DEF Fetch, Remove, Reindex, EnsureFile, Upload, Throw
<1>7. CASE Complete(c)
  <2>1. cursor <= cursor' /\ cursor' \in Nat
    BY <1>7 DEF Complete, Committed
  <2>2. \A d \in Call : at'[d] <= cursor'
    BY <1>1, <1>3, <1>7, <2>1 DEF Complete
  <2>3. QED BY <1>7, <2>2 DEF Complete
<1>8. QED BY <1>4, <1>5, <1>6, <1>7 DEF SyncStep

\* A commit under the newest cursor makes every other one fail; one of nothing
\* changes nothing.
LEMMA CommitGraph ==
  ASSUME Core, TurnInv, NEW c \in Call, NEW d \in Call, GraphCall(d), Committed(c),
         UNCHANGED <<pc[d], plan[d], at[d]>>,
         pc[d] \in {"upload", "commit"}, at[d] = cursor'
  PROVE  Loads(Over(cloud', plan[d]))
<1> USE DEF Core, TypeOK, SyncTypeOK
<1>1. CASE plan[c] # NoFiles
  <2>1. cursor' = cursor + 1 /\ at[d] <= cursor
    BY <1>1 DEF Committed, TurnInv
  <2>2. QED BY <2>1
<1>2. CASE plan[c] = NoFiles
  <2>1. \A p \in GraphPath : Get(cloud', p) = Get(cloud, p)
    BY <1>2, OverGet DEF Committed, NoFiles
  <2>2. \A p \in GraphPath : Get(Over(cloud', plan[d]), p) = Get(Over(cloud, plan[d]), p)
    BY <2>1, OverGet
  <2>3. UNCHANGED cursor
    BY <1>2 DEF Committed
  <2>4. QED BY <2>2, <2>3, LoadsSame DEF GraphCall
<1>3. QED BY <1>1, <1>2

\* A step of one call leaves what the others know of the graph files true.
LEMMA OtherGraph ==
  ASSUME Core, TurnInv, NEW c \in Call, SyncStep(c), GraphCall(c), ~mixed',
         NEW d \in Call \ {c}, GraphCall(d)
  PROVE  GraphCall(d)'
<1> USE DEF Core, TypeOK
<1>1. UNCHANGED LocalsOf(d)
  BY Others
<1>2. UNCHANGED <<pc[d], op[d], man[d], todo[d], plan[d], drop[d], at[d]>>
  BY <1>1 DEF LocalsOf
<1>3. First(d)' = First(d)
  BY <1>2, FirstStays
<1>4. Moving(d) => \A p \in GraphPath : Get(disk', p) = Get(disk, p)
  BY CallWrites DEF Crossed
<1>5. Copying(d)' => Copies(d, GraphPath)'
  <2>1. Copying(d)' = Copying(d)
    BY <1>2 DEF Copying, Moving, Making
  <2>2. QED BY <1>1, <1>4, <2>1, OtherCopies DEF GraphCall, Copying
<1>6. Making(d)' /\ First(d)' \in GraphPath => Get(disk', First(d)') = {}
  BY <1>2, <1>3, <1>4 DEF GraphCall, Making, Moving
<1>7. pc[d] \in {"upload", "commit"} /\ at[d] = cursor' => Loads(Over(cloud', plan[d]))
  <2>1. CASE UNCHANGED <<cloud, cursor>>
    BY <2>1 DEF GraphCall
  <2>2. CASE Committed(c)
    BY <1>2, <2>2, CommitGraph
  <2>3. QED BY <2>1, <2>2, CallAt DEF TurnInv
<1>8. QED BY <1>2, <1>5, <1>6, <1>7 DEF GraphCall, Target

\* The answer to a pull leads to the pair of the cloud.
LEMMA PullTarget ==
  ASSUME Core, NEW m, Table(m), Loads(cloud), NEW c \in Call,
         man'[c] = m, plan'[c] = Choose(cloud, Differing(cloud, m)),
         drop'[c] = removed \cap DOMAIN m
  PROVE  Loads(Target(c))'
<1>1. \A p \in Path : Get(Target(c)', p) = Get(cloud, p)
  <2>1. ASSUME NEW p \in Path, p \in DOMAIN cloud PROVE Get(Target(c)', p) = cloud[p]
    <3>1. p \notin removed
      BY <2>1 DEF Core, CloudInv
    <3>2. Get(Over(m, plan'[c]), p) = cloud[p]
      <4>1. CASE p \in Differing(cloud, m)
        BY <4>1, OverGet DEF Choose
      <4>2. CASE p \notin Differing(cloud, m)
        <5>1. p \in DOMAIN m /\ m[p] = cloud[p]
          BY <2>1, <4>2 DEF Differing
        <5>2. p \notin DOMAIN plan'[c]
          BY <4>2 DEF Choose
        <5>3. QED BY <5>1, <5>2, OverGet DEF Get
      <4>3. QED BY <4>1, <4>2
    <3>3. QED BY <3>1, <3>2 DEF Target, Get
  <2>2. ASSUME NEW p \in Path, p \notin DOMAIN cloud PROVE Get(Target(c)', p) = {}
    <3>1. p \in removed
      BY <2>2 DEF Core, CloudInv
    <3>2. p \notin DOMAIN m => Get(Over(m, plan'[c]), p) = {}
      BY <2>2 DEF Get, Over, Choose, Differing
    <3>3. QED BY <3>1, <3>2 DEF Target, Get
  <2>3. QED BY <2>1, <2>2 DEF Get
<1>2. QED BY <1>1, LoadsSame DEF GraphPath, Path

\* The answer to a push leads to the pair of its manifest.
LEMMA PushTarget ==
  ASSUME NEW m, NEW d, GraphPath \subseteq DOMAIN m, Loads(m), NEW w,
         w = Choose(m, Differing(m, d))
  PROVE  Loads(Over(d, w))
<1>1. ASSUME NEW p \in GraphPath PROVE Get(Over(d, w), p) = Get(m, p)
  <2>1. CASE p \in Differing(m, d)
    BY <2>1, OverGet DEF Choose, Get
  <2>2. CASE p \notin Differing(m, d)
    <3>1. p \in DOMAIN d /\ m[p] = d[p]
      BY <2>2 DEF Differing
    <3>2. p \notin DOMAIN w
      BY <2>2 DEF Choose
    <3>3. QED BY <3>1, <3>2, OverGet DEF Get
  <2>3. QED BY <2>1, <2>2
<1>2. QED BY <1>1, LoadsSame

\* A manifest is read while nobody else is half way with the graph files, and
\* that of a push has both of them.
LEMMA ScanAlone ==
  ASSUME Core, InTurn, NEW c \in Call, Scan(c), ~mixed'
  PROVE  Loads(disk) /\ (op[c] = "push" => GraphPath \subseteq DOMAIN disk)
<1>1. mixed' = (mixed \/ linking # NoFiles
                      \/ (\E d \in Call \ {c} : pc[d] \in {"fetch", "remove"})
                      \/ (op[c] = "push" /\ ~({Nodes, Edges} \subseteq DOMAIN disk)))
  BY DEF Scan
<1>2. /\ linking = NoFiles
      /\ ~(\E d \in Call \ {c} : pc[d] \in {"fetch", "remove"})
      /\ ~(op[c] = "push" /\ ~({Nodes, Edges} \subseteq DOMAIN disk))
  BY <1>1, Zenon
<1>3. \A d \in Call : ~Wrote(d)
  BY <1>2 DEF Wrote, Scan
<1>4. QED BY <1>2, <1>3 DEF InTurn, GraphPath

\* A push that has its manifest has a pair that loads.
LEMMA ManifestLoads ==
  ASSUME Core, InTurn, NEW c \in Call, Scan(c), op[c] = "push", ~mixed',
         Copies(c, GraphPath)', GraphPath \subseteq todo'[c] \cup DOMAIN man'[c],
         pc'[c] = "ask"
  PROVE  GraphPath \subseteq DOMAIN man'[c] /\ Loads(man'[c])
<1>1. todo'[c] = {}
  BY DEF Copies
<1>2. \A p \in GraphPath : Get(man'[c], p) = Get(disk', p)
  BY <1>1 DEF Copies
<1>3. Loads(disk')
  BY ScanAlone DEF Scan, device
<1>4. QED BY <1>1, <1>2, <1>3, LoadsSame

\* A step of a call leaves what it knows itself true.
LEMMA OwnGraph ==
  ASSUME Core, TurnInv, InTurn, NEW c \in Call, SyncStep(c), ~mixed'
  PROVE  GraphCall(c)'
<1> USE DEF Core, TypeOK, SyncTypeOK, locals, replica
<1>0. Phase(c) /\ GraphCall(c)
  BY DEF PhaseInv, InTurn
<1>a. CASE pc'[c] \in Rest
  BY <1>a DEF GraphCall, Copying, Moving, Making, Rest
<1>b. CASE pc'[c] \notin Rest
  <2>1. Copying(c)' => Copies(c, GraphPath)'
    <3>1. CASE Copying(c)
      BY <1>0, <3>1, OwnCopies DEF GraphCall, GraphPath, Path
    <3>2. CASE Save(c)
      <4>1. Copies(c, GraphPath)
        BY <3>2 DEF Save, Copies, Making
      <4>2. QED BY <4>1, OwnCopies DEF GraphPath, Path
    <3>3. CASE ~Copying(c) /\ ~Save(c)
      <4>1. pc[c] # "scan" /\ ~(op[c] = "pull" /\ pc[c] \in {"ask", "fetch", "remove"})
        BY <3>3 DEF Copying, Moving, Making
      <4>2. ~Copying(c)'
        BY <1>b, <3>3, <4>1, Onward DEF Copying, Moving, Making, Scan, Ask, Fetch,
           Remove, Rest
      <4>3. QED BY <4>2
    <3>4. QED BY <3>1, <3>2, <3>3
  <2>2. Making(c)' /\ First(c)' \in GraphPath => Get(disk', First(c)') = {}
    <3>1. ASSUME NEW look, NEW make, EnsureFile(c, look, make), pc'[c] = make, look # make
          PROVE  First(c)' = First(c) /\ Get(disk', First(c)) = {}
      BY <3>1, FirstStays DEF EnsureFile, Find, Make, Goto, Get
    <3>2. CASE pc'[c] = "create"
      <4>1. EnsureFile(c, "ready", "create")
        BY <1>b, <3>2, Onward DEF Ready, Goto, Ask, Complete
      <4>2. QED BY <3>1, <3>2, <4>1
    <3>3. CASE pc'[c] = "recreate"
      <4>1. EnsureFile(c, "reindex", "recreate")
        BY <1>b, <3>3, Onward DEF Reindex, Finish, Goto, Ask, Complete
      <4>2. QED BY <3>1, <3>3, <4>1
    <3>4. QED BY <3>2, <3>3 DEF Making
  <2>3. op'[c] = "push" /\ pc'[c] \in {"scan", "ask"} /\ pc[c] # "ask" =>
          GraphPath \subseteq todo'[c] \cup DOMAIN man'[c]
    <3>1. CASE Save(c)
      BY <1>b, <3>1, Onward DEF Save, BeginScan, GraphPath, Path
    <3>2. CASE Scan(c)
      <4> DEFINE p == First(c)
      <4>1. /\ man' = [man EXCEPT ![c] = IF p \in DOMAIN disk THEN Put(@, p, disk[p])
                                                              ELSE @]
            /\ todo' = [todo EXCEPT ![c] = @ \ {p}]
            /\ pc[c] = "scan" /\ UNCHANGED op
        BY <3>2 DEF Scan
      <4> HIDE DEF p
      <4>2. op[c] = "push" => GraphPath \subseteq DOMAIN disk
        BY <3>2, ScanAlone
      <4>3. ASSUME op[c] = "push", NEW q \in GraphPath PROVE q \in todo'[c] \cup DOMAIN man'[c]
        <5>1. CASE q = p
          <6>1. man'[c] = Put(man[c], p, disk[p])
            BY <4>1, <4>2, <4>3, <5>1
          <6>2. QED BY <5>1, <6>1 DEF Put
        <5>2. CASE q # p
          <6>1. q \in todo[c] \cup DOMAIN man[c]
            BY <1>0, <4>1, <4>3 DEF GraphCall
          <6>2. DOMAIN man[c] \subseteq DOMAIN man'[c]
            BY <4>1 DEF Put
          <6>3. QED BY <4>1, <5>2, <6>1, <6>2
        <5>3. QED BY <5>1, <5>2
      <4>4. QED BY <4>1, <4>3
    <3>3. CASE pc'[c] \in {"scan", "ask"} /\ pc[c] # "ask" /\ ~Save(c) /\ ~Scan(c)
      BY <1>b, <3>3, Onward DEF Ask, Complete
    <3>4. QED BY <3>1, <3>2, <3>3
  <2>4. op'[c] = "push" /\ pc'[c] = "ask" => GraphPath \subseteq DOMAIN man'[c] /\ Loads(man'[c])
    <3>1. CASE Scan(c)
      <4>1. op'[c] = op[c] /\ pc[c] = "scan"
        BY <3>1 DEF Scan
      <4>2. Copying(c)
        BY <4>1 DEF Copying, Moving, Making
      <4>3. Copies(c, GraphPath)'
        BY <1>0, <4>2, OwnCopies DEF GraphCall, GraphPath, Path
      <4>4. QED BY <2>3, <3>1, <4>1, <4>3, ManifestLoads
    <3>2. CASE pc'[c] = "ask" /\ ~Scan(c)
      <4>1. Ask(c) /\ UNCHANGED <<pc, op, man>>
        BY <1>b, <3>2, Onward DEF Complete
      <4>2. QED BY <1>0, <3>2, <4>1 DEF GraphCall
    <3>3. QED BY <3>1, <3>2
  <2>5. pc'[c] \in {"fetch", "remove"} => Loads(Target(c)')
    <3>1. CASE Fetch(c) \/ Remove(c)
      <4>1. UNCHANGED <<man, plan, drop>>
        BY <1>b, <3>1, Onward DEF Ready, EnsureFile, Find, Make, Snapshot, Save, Scan,
           Ask, Fetch, Remove, Reindex, Upload, Complete
      <4>2. QED BY <1>0, <3>1, <4>1 DEF GraphCall, Target, Fetch, Remove
    <3>2. CASE Ask(c) /\ ~Retry(c) /\ op[c] = "pull"
      <4> DEFINE wanted == Choose(cloud, Differing(cloud, man[c]))
      <4>1. /\ plan'[c] = wanted /\ man'[c] = man[c]
            /\ drop'[c] = removed \cap DOMAIN man[c]
        BY <3>2, AskResult
      <4>2. QED BY <4>1, PullTarget DEF InTurn
    <3>3. CASE pc'[c] \in {"fetch", "remove"} /\ ~Fetch(c) /\ ~Remove(c)
      <4>1. Ask(c) /\ ~Retry(c) /\ op[c] = "pull"
        BY <1>b, <3>3, Onward DEF Ask, Complete
      <4>2. QED BY <3>2, <4>1
    <3>4. QED BY <3>1, <3>3
  <2>6. pc'[c] \in {"upload", "commit"} /\ at'[c] = cursor' =>
          Loads(Over(cloud', plan'[c]))
    <3>1. CASE Upload(c)
      <4>1. plan'[c] = plan[c] /\ at'[c] = at[c] /\ UNCHANGED <<cloud, cursor>>
        BY <1>b, <3>1, Onward DEF Ready, EnsureFile, Find, Make, Snapshot, Save, Scan,
           Ask, Fetch, Remove, Reindex, Upload, Complete
      <4>2. QED BY <1>0, <3>1, <4>1 DEF Upload, GraphCall
    <3>2. CASE Complete(c)
      <4>1. UNCHANGED <<pc, plan, at>> /\ pc[c] = "commit"
        BY <1>b, <3>2, Onward DEF Ready, EnsureFile, Find, Make, Snapshot, Save, Scan,
           Ask, Fetch, Remove, Reindex, Upload, Complete
      <4>2. CASE UNCHANGED <<cloud, cursor>>
        BY <1>0, <4>1, <4>2 DEF GraphCall
      <4>3. CASE Committed(c)
        BY <1>0, <4>1, <4>3, CommitGraph
      <4>4. QED BY <4>2, <4>3, CallAt DEF TurnInv
    <3>3. CASE Ask(c) /\ ~Retry(c) /\ op[c] = "push"
      <4>1. plan'[c] = Choose(man[c], Differing(man[c], cloud)) /\ cloud' = cloud
        BY <3>3, AskResult DEF Ask
      <4>2. Loads(man[c]) /\ GraphPath \subseteq DOMAIN man[c]
        BY <1>0, <3>3 DEF Ask, GraphCall
      <4>3. QED BY <4>1, <4>2, PushTarget
    <3>4. CASE pc'[c] \in {"upload", "commit"} /\ ~Upload(c) /\ ~Complete(c)
      <4>1. Ask(c) /\ ~Retry(c) /\ op[c] = "push"
        BY <1>b, <3>4, Onward DEF Ask
      <4>2. QED BY <3>3, <4>1
    <3>5. QED BY <3>1, <3>2, <3>4
  <2>7. op'[c] = "push" /\ pc'[c] = "scan" => GraphPath \subseteq todo'[c] \cup DOMAIN man'[c]
    <3>1. pc'[c] = "scan" => pc[c] # "ask"
      BY <1>b, Onward DEF Ready, Snapshot, Save, Scan, Ask, Complete
    <3>2. QED BY <2>3, <3>1
  <2>8. QED BY <2>1, <2>2, <2>4, <2>5, <2>6, <2>7 DEF GraphCall
<1>c. QED BY <1>a, <1>b

\* A pull that is through with its files has made them what it wanted.
LEMMA WriterDone ==
  ASSUME Core, NEW c \in Call, SyncStep(c), ~mixed', Wrote(c), ~Wrote(c)', GraphCall(c)
  PROVE  Loads(disk')
<1> USE DEF Core, TypeOK, SyncTypeOK, locals
<1>0. Phase(c)
  BY DEF PhaseInv
<1>1. CASE Fetch(c)
  <2>1. CASE Throw(c) /\ UNCHANGED disk /\ mixed' = (mixed \/ todo[c] # DOMAIN plan[c])
    <3>1. todo[c] # DOMAIN plan[c]
      BY <1>1 DEF Fetch, Wrote
    <3>2. QED BY <2>1, <3>1, Zenon
  <2>2. CASE ~(Throw(c) /\ UNCHANGED disk /\ mixed' = (mixed \/ todo[c] # DOMAIN plan[c]))
    <3>1. PICK p \in todo[c] :
            /\ todo' = [todo EXCEPT ![c] = IF @ = {p} THEN drop[c] ELSE @ \ {p}]
            /\ IF todo[c] = {p} THEN Goto(c, "remove") ELSE UNCHANGED pc
            /\ UNCHANGED <<plan, drop>>
      BY <1>1, <2>2 DEF Fetch
    <3>2. p \in DOMAIN plan[c] /\ pc[c] = "fetch"
      BY <1>0, <1>1 DEF Phase, Fetch
    <3>3. CASE todo[c] = {p}
      <4>1. pc'[c] = "remove" /\ plan'[c] # NoFiles
        BY <3>1, <3>2, <3>3 DEF Goto, NoFiles
      <4>2. QED BY <4>1 DEF Wrote
    <3>4. CASE todo[c] # {p}
      <4>1. pc'[c] = "fetch" /\ p \notin todo'[c] /\ p \in DOMAIN plan'[c]
        BY <3>1, <3>2, <3>4
      <4>2. QED BY <4>1 DEF Wrote
    <3>5. QED BY <3>3, <3>4
  <2>3. QED BY <2>1, <2>2
<1>2. CASE Remove(c)
  <2>1. CASE todo[c] = {} /\ UNCHANGED disk
    <3>1. Copying(c)
      BY <1>0, <1>2 DEF Remove, Copying, Moving, Making, Phase
    <3>2. \A p \in GraphPath : Get(disk, p) = Made(c, p)
      BY <1>2, <3>1 DEF Remove, GraphCall, Copies
    <3>3. \A p \in GraphPath : Get(Target(c), p) = Made(c, p)
      BY <1>2, <2>1, OverGet DEF Remove, Made, Target, Get, GraphPath, Path
    <3>4. Loads(Target(c))
      BY <1>2 DEF Remove, GraphCall
    <3>5. QED BY <2>1, <3>2, <3>3, <3>4, LoadsSame
  <2>2. CASE mixed' = TRUE
    BY <2>2
  <2>3. ASSUME NEW p \in todo[c], todo' = [todo EXCEPT ![c] = @ \ {p}],
               UNCHANGED <<pc, plan, drop>>
        PROVE  FALSE
    <3>1. p \in drop'[c] /\ p \notin todo'[c] /\ pc'[c] = "remove"
      BY <1>0, <1>2, <2>3 DEF Remove, Phase
    <3>2. QED BY <3>1 DEF Wrote
  <2>4. QED BY <1>2, <2>1, <2>2, <2>3 DEF Remove
<1>3. pc[c] \in {"fetch", "remove"}
  BY DEF Wrote
<1>4. QED BY <1>1, <1>2, <1>3 DEF SyncStep, Ready, EnsureFile, Find, Make,
   Snapshot, Save, Scan, Ask, Reindex, Upload, Complete

\* A step of a call keeps the turns.
LEMMA CallTurn ==
  ASSUME Core, TurnInv, NEW c \in Call, SyncStep(c), ~mixed'
  PROVE  InTurn'
<1> USE DEF Core, TypeOK
<1>0. InTurn /\ GraphCall(c)
  BY CallMixed DEF TurnInv, InTurn
<1>1. \A d \in Call \ {c} : Wrote(d)' = Wrote(d)
  BY Others DEF LocalsOf, Wrote
<1>2. UNCHANGED linking
  BY DEF SyncStep, Ready, Snapshot, Save, Scan, Ask, Fetch, Remove, Reindex, Upload,
         Complete, device
<1>3. \A d \in Call : GraphCall(d)'
  BY <1>0, OtherGraph, OwnGraph DEF InTurn
<1>4. Loads(cloud')
  <2>1. CASE UNCHANGED cloud
    BY <1>0, <2>1 DEF InTurn
  <2>2. CASE Committed(c) /\ at[c] = cursor /\ pc[c] = "commit"
    BY <1>0, <2>2 DEF Committed, GraphCall
  <2>3. QED BY <2>1, <2>2, CallAt DEF TurnInv
<1>5. linking # NoFiles => Get(disk', Nodes) = Get(disk, Nodes)
  BY <1>0, CallWrites DEF Crossed, GraphPath
<1>6. ASSUME linking = NoFiles, \A d \in Call : ~Wrote(d)' PROVE Loads(disk')
  <2>1. CASE Wrote(c)
    BY <1>0, <1>6, <2>1, WriterDone
  <2>2. CASE ~Wrote(c)
    <3>1. Loads(disk)
      BY <1>0, <1>1, <1>6, <2>2 DEF InTurn
    <3>2. \A p \in GraphPath : Get(disk', p) = Get(disk, p)
      BY <1>0, <1>6, CallWrites
    <3>3. QED BY <3>1, <3>2, LoadsSame
  <2>3. QED BY <2>1, <2>2
<1>7. QED BY <1>0, <1>2, <1>3, <1>4, <1>5, <1>6 DEF InTurn

\* What touches neither the graph files nor a call nor the cloud.
LEMMA StillCall ==
  ASSUME NEW c \in Call, UNCHANGED LocalsOf(c), UNCHANGED <<cloud, cursor>>,
         \A p \in GraphPath : Get(disk', p) = Get(disk, p)
  PROVE  (GraphCall(c) => GraphCall(c)') /\ Wrote(c)' = Wrote(c)
<1>1. UNCHANGED <<pc[c], op[c], man[c], todo[c], plan[c], drop[c], at[c]>>
  BY DEF LocalsOf
<1>2. First(c)' = First(c)
  BY <1>1, FirstStays
<1>3. Copies(c, GraphPath) => Copies(c, GraphPath)'
  BY OtherCopies
<1>4. Copying(c)' = Copying(c) /\ Making(c)' = Making(c) /\ Target(c)' = Target(c)
  BY <1>1 DEF Copying, Moving, Making, Target
<1>5. GraphCall(c) => GraphCall(c)'
  BY <1>1, <1>2, <1>3, <1>4 DEF GraphCall
<1>6. Wrote(c)' = Wrote(c)
  BY <1>1 DEF Wrote
<1>7. QED BY <1>5, <1>6

LEMMA StillTurn ==
  ASSUME TurnInv, UNCHANGED <<pc, locals, linking, replica, mixed>>,
         \A p \in GraphPath : Get(disk', p) = Get(disk, p)
  PROVE  TurnInv'
<1> USE DEF locals, replica
<1>1. \A c \in Call : UNCHANGED <<LocalsOf(c)>>
  BY DEF LocalsOf
<1>2. \A c \in Call : (GraphCall(c) => GraphCall(c)') /\ Wrote(c)' = Wrote(c)
  BY <1>1, StillCall
<1>3. Loads(disk) => Loads(disk')
  BY LoadsSame
<1>4. Get(disk', Nodes) = Get(disk, Nodes)
  BY DEF GraphPath
<1>5. InTurn => InTurn'
  BY <1>2, <1>3, <1>4 DEF InTurn
<1>6. QED BY <1>5 DEF TurnInv

\* The documents are none of the graph files.
LEMMA DocumentsTurn ==
  ASSUME TurnInv, NEW S, Documents(S), UNCHANGED <<pc, locals, linking, replica, mixed>>
  PROVE  TurnInv'
<1>1. \A p \in GraphPath : Get(disk', p) = Get(disk, p)
  BY PutGet, PathFacts DEF Documents, GraphPath
<1>2. QED BY <1>1, StillTurn

\* A call that starts has done nothing yet.
LEMMA StartTurn ==
  ASSUME Core, TurnInv, NEW c \in Call, NEW kind \in {"pull", "push"}, Start(c, kind)
  PROVE  TurnInv'
<1> USE DEF Core, TypeOK
<1>1. /\ \A d \in Call \ {c} : UNCHANGED LocalsOf(d)
      /\ pc'[c] \in {"ready", "snapshot"}
  BY StartPhase
<1>2. UNCHANGED <<disk, linking, cloud, cursor, at, mixed>>
  BY DEF Start, replica
<1>3. \A d \in Call \ {c} : (GraphCall(d) => GraphCall(d)') /\ Wrote(d)' = Wrote(d)
  BY <1>1, <1>2, StillCall
<1>4. GraphCall(c)' /\ ~Wrote(c)'
  BY <1>1 DEF Wrote, GraphCall, Copying, Moving, Making
<1>5. ~Wrote(c)
  BY DEF Start, Running, Rest, Wrote
<1>6. InTurn => InTurn'
  BY <1>2, <1>3, <1>4, <1>5 DEF InTurn
<1>7. QED BY <1>2, <1>6 DEF TurnInv

\* A graph write begins and ends with no call moving files.
LEMMA LinkTurn ==
  ASSUME Core, TurnInv, NEW f \in Fact, LinkNodes(f) \/ LinkEdges, ~mixed'
  PROVE  InTurn'
<1> USE DEF Core, TypeOK, SyncTypeOK, locals, replica
<1>1. mixed' = (mixed \/ \E c \in Call : Moving(c))
  BY DEF LinkNodes, LinkEdges
<1>2. ~mixed /\ ~(\E c \in Call : Moving(c))
  BY <1>1, Zenon
<1>3. InTurn
  BY <1>2 DEF TurnInv
<1>4. UNCHANGED <<pc, op, man, todo, plan, drop, at, cloud, cursor>>
  BY DEF LinkNodes, LinkEdges
<1>5. \A c \in Call : ~Wrote(c)' /\ ~Wrote(c)
  BY <1>2, <1>4 DEF Wrote, Moving, PhaseInv, Phase
<1>6. ASSUME NEW c \in Call PROVE GraphCall(c)'
  <2>1. ~Moving(c)' /\ ~Making(c)'
    BY <1>2, <1>4 DEF Moving, Making
  <2>2. GraphCall(c)
    BY <1>3 DEF InTurn
  <2>3. Target(c)' = Target(c)
    BY <1>4 DEF Target
  <2>4. QED BY <1>4, <2>1, <2>2, <2>3 DEF GraphCall, Copying
<1>7. CASE LinkNodes(f)
  <2> DEFINE maps == IF hydrated THEN cache ELSE Pair(disk)
  <2>1. Loads(maps) /\ linking = NoFiles
    BY <1>7 DEF LinkNodes
  <2> HIDE DEF maps
  <2>2. /\ linking' = [p \in {Nodes, Edges} |-> Get(maps, p) \cup {f}]
        /\ disk' = Put(disk, Nodes, linking'[Nodes])
    BY <1>7 DEF LinkNodes, maps
  <2>3. Loads(linking')
    BY <2>1, <2>2 DEF Loads, Get
  <2>4. Get(disk', Nodes) = linking'[Nodes]
    BY <2>2, PutGet
  <2>5. linking' # NoFiles
    BY <2>2 DEF NoFiles
  <2>6. QED BY <1>3, <1>4, <1>5, <1>6, <2>3, <2>4, <2>5 DEF InTurn
<1>8. CASE LinkEdges
  <2>1. linking # NoFiles /\ linking' = NoFiles /\ disk' = Put(disk, Edges, linking[Edges])
    BY <1>8 DEF LinkEdges
  <2>2. DOMAIN linking = {Nodes, Edges}
    BY <2>1 DEF LinkInv
  <2>3. Get(disk', Nodes) = linking[Nodes] /\ Get(disk', Edges) = linking[Edges]
    BY <1>3, <2>1, PutGet, PathFacts DEF InTurn
  <2>4. linking[Edges] \subseteq linking[Nodes]
    BY <1>3, <2>1, <2>2 DEF InTurn, Loads, Get
  <2>5. Loads(disk')
    BY <2>3, <2>4 DEF Loads
  <2>6. QED BY <1>3, <1>4, <1>5, <1>6, <2>1, <2>5 DEF InTurn
<1>9. QED BY <1>7, <1>8

\* Another device that commits a pair which loads outdates every cursor.
LEMMA ForeignTurn ==
  ASSUME Core, TurnInv, NEW f \in Remote, Elsewhere(f)
  PROVE  TurnInv'
<1> USE DEF Core, TypeOK, SyncTypeOK, locals, device
<1>1. /\ UNCHANGED <<disk, linking, pc, op, man, todo, plan, drop, at>>
      /\ cloud' = f /\ cursor' = cursor + 1 /\ mixed' = (mixed \/ ~Loads(f))
  BY DEF Elsewhere
<1>2. \A c \in Call : at'[c] <= cursor' /\ at'[c] # cursor'
  BY <1>1 DEF TurnInv
<1>3. ASSUME NEW c \in Call, GraphCall(c) PROVE GraphCall(c)'
  <2>1. UNCHANGED LocalsOf(c)
    BY DEF Elsewhere, LocalsOf
  <2>2. Copies(c, GraphPath) => Copies(c, GraphPath)'
    BY <1>1, <2>1, OtherCopies
  <2>3. Target(c)' = Target(c) /\ First(c)' = First(c)
    BY <1>1, FirstStays DEF Target
  <2>4. Copying(c)' = Copying(c) /\ Making(c)' = Making(c)
    BY <1>1 DEF Copying, Moving, Making
  <2>5. QED BY <1>1, <1>2, <1>3, <2>2, <2>3, <2>4 DEF GraphCall
<1>4. \A c \in Call : Wrote(c)' = Wrote(c)
  BY <1>1 DEF Wrote
<1>5. ASSUME ~mixed' PROVE InTurn'
  <2>1. ~mixed /\ Loads(cloud')
    BY <1>1, <1>5, Zenon
  <2>2. InTurn
    BY <2>1 DEF TurnInv
  <2>3. QED BY <1>1, <1>3, <1>4, <2>1, <2>2 DEF InTurn
<1>6. QED BY <1>2, <1>5 DEF TurnInv

\* A restart between two writes of a pair, and no other, leaves it half way.
LEMMA RestartTurn ==
  ASSUME Core, TurnInv, Restart
  PROVE  TurnInv'
<1> USE DEF Core, TypeOK, SyncTypeOK
<1>1. /\ \A c \in Call : pc'[c] = "idle" /\ at'[c] = 0
      /\ linking' = NoFiles /\ UNCHANGED <<disk, cloud, cursor>>
  BY DEF Restart, replica
<1>2. \A c \in Call : ~Wrote(c)' /\ GraphCall(c)'
  BY <1>1 DEF Wrote, GraphCall, Copying, Moving, Making
<1>3. ASSUME ~mixed' PROVE InTurn'
  <2>1. mixed' = (mixed \/ linking # NoFiles \/ \E c \in Call : pc[c] \in {"fetch", "remove"})
    BY DEF Restart
  <2>2. ~mixed /\ linking = NoFiles /\ ~(\E c \in Call : pc[c] \in {"fetch", "remove"})
    BY <1>3, <2>1, Zenon
  <2>3. Loads(disk) /\ Loads(cloud)
    BY <2>2 DEF TurnInv, InTurn, Wrote
  <2>4. QED BY <1>1, <1>2, <2>3 DEF InTurn
<1>4. \A c \in Call : at'[c] <= cursor'
  BY <1>1
<1>5. QED BY <1>3, <1>4 DEF TurnInv

LEMMA TurnStep ==
  ASSUME Core, TurnInv, [Next]_vars
  PROVE  TurnInv'
<1> USE DEF Core, TypeOK
<1>1. ASSUME NEW c \in Call, Step(c) PROVE TurnInv'
  <2>1. SyncStep(c) /\ SyncTypeOK
    BY <1>1 DEF Step
  <2>2. (\A d \in Call : at'[d] <= cursor') /\ (~mixed' => InTurn')
    BY <2>1, CallTurn, CallAt DEF TurnInv
  <2>3. QED BY <2>2 DEF TurnInv
<1>2. ASSUME NEW s \in Session, Prepare(s) \/ CompleteSession(s) \/ SessionStep(s)
      PROVE  TurnInv'
  <2>1. s \in Call
    BY SessionAssumption
  <2>2. CASE Start(s, "pull") \/ Start(s, "push")
    BY <2>1, <2>2, StartTurn
  <2>3. CASE UNCHANGED <<pc, locals, linking, replica, mixed, disk>>
    BY <2>3, StillTurn
  <2>4. CASE \E S : Documents(S) /\ UNCHANGED <<pc, locals, linking, replica, mixed>>
    BY <2>4, DocumentsTurn
  <2>5. QED BY <1>2, <2>2, <2>3, <2>4 DEF Prepare, CompleteSession,
     SessionStep, Prepared, Checkpoint, PushFailed, Pushed, AppendNotes,
     syncVars, device, history
<1>3. ASSUME NEW c \in Client, Sync(c) PROVE TurnInv'
  BY <1>3, StartTurn, SessionAssumption DEF Sync
<1>4. ASSUME NEW f \in Written, WriteRead(f) \/ WriteBack(f) PROVE TurnInv'
  <2>1. UNCHANGED <<pc, locals, linking, replica, mixed>>
    BY <1>4 DEF WriteRead, ReadNotes, WriteBack, WriteNotes, history
  <2>2. (\E S : Documents(S)) \/ UNCHANGED disk
    BY <1>4 DEF WriteRead, ReadNotes, WriteBack, WriteNotes
  <2>3. QED BY <2>1, <2>2, StillTurn, DocumentsTurn
<1>5. ASSUME NEW f \in Fact, LinkNodes(f) \/ LinkEdges PROVE TurnInv'
  <2>1. UNCHANGED <<at, cursor>>
    BY <1>5 DEF LinkNodes, LinkEdges, locals, replica
  <2>2. QED BY <1>5, <2>1, LinkTurn DEF TurnInv
<1>6. CASE (\E f \in Linked : Link(f)) \/ LinkDone
  BY <1>5, <1>6, SessionAssumption DEF Link, LinkDone
<1>7. CASE (\E f \in Remote : Foreign(f)) \/ Crash
  BY <1>7, ForeignTurn, RestartTurn DEF Foreign, Crash
<1>8. CASE UNCHANGED vars
  BY <1>8, StillTurn DEF vars, syncVars, device, history
<1>9. QED BY <1>1, <1>2, <1>3, <1>4, <1>6, <1>7, <1>8 DEF Next

\* The pair of graph files in the cloud loads, and the pair on disk does between
\* the writes of one writer, until a graph write meets a manifest, a pull or a
\* template under way, or another device commits a pair that does not load.
THEOREM FilesStayPaired == Spec => []MirrorLoads
<1> DEFINE I == Core /\ TurnInv
<1>1. Init => I
  <2> SUFFICES ASSUME Init PROVE TurnInv
    BY CoreInit
  <2> USE DEF Init, SyncInit
  <2>1. ~mixed => Loads(disk) /\ Loads(cloud)
    OBVIOUS
  <2>2. \A c \in Call : ~Wrote(c) /\ GraphCall(c) /\ at[c] <= cursor
    BY DEF Wrote, GraphCall, Copying, Moving, Making
  <2>3. QED BY <2>1, <2>2 DEF TurnInv, InTurn
<1>2. I /\ [Next]_vars => I'
  BY CoreStep, TurnStep
<1>3. I => MirrorLoads
  BY DEF TurnInv, InTurn, MirrorLoads, Wrote
<1>4. QED BY <1>1, <1>2, <1>3, PTL DEF Spec

-----------------------------------------------------------------------------
(* Every call ends: what SessionsAnswer needs beside fairness.             *)

\* How many of the three paths are in S.
Size(S) == (IF Notes \in S THEN 1 ELSE 0) + (IF Nodes \in S THEN 1 ELSE 0)
             + (IF Edges \in S THEN 1 ELSE 0)

\* The steps a call may still make, when it is at `step', has the paths of S to
\* treat there and has failed n times to reach the cloud.
Budget(step, S, n) ==
  CASE step = "ready"    -> 2 * Size(S) + 20 + 2 * Attempts
    [] step = "create"   -> 2 * Size(S) + 19 + 2 * Attempts
    [] step = "snapshot" -> 19 + 2 * Attempts
    [] step = "save"     -> 18 + 2 * Attempts
    [] step = "scan"     -> Size(S) + 14 + 2 * Attempts
    [] step = "ask"      -> (Attempts - n) + 14 + Attempts
    [] step = "fetch"    -> Size(S) + 11
    [] step = "remove"   -> Size(S) + 8
    [] step = "reindex"  -> 2 * Size(S) + 1
    [] step = "recreate" -> 2 * Size(S)
    [] step = "upload"   -> Size(S) + Attempts
    [] step = "commit"   -> Attempts - n
    [] OTHER             -> 0

Fuel(c) == Budget(pc[c], todo[c], tries[c])

LEMMA SizeFacts ==
  /\ \A S : Size(S) \in 0..3
  /\ \A S \in SUBSET Path : S # {} => Size(S) >= 1
  /\ \A S : \A p \in S \cap Path : Size(S \ {p}) = Size(S) - 1
BY PathFacts DEF Size, Path

\* A client of the cloud counts its attempts.
TriesInv == \A c \in Call : tries[c] < Attempts

\* What a call does to its own budget.
LEMMA OwnFuel ==
  ASSUME SyncTypeOK, TriesInv, NEW c \in Call, Phase(c), SyncStep(c), tries'[c] \in Nat,
         todo'[c] \in SUBSET Path
  PROVE  Fuel(c)' < Fuel(c) /\ tries'[c] < Attempts
<1> USE AttemptsAssumption DEF SyncTypeOK, locals, bounds
<1> DEFINE Less == Budget(pc'[c], todo'[c], tries'[c]) < Budget(pc[c], todo[c], tries[c])
<1> SUFFICES Less /\ tries'[c] < Attempts
  BY DEF Fuel
<1>0. /\ Attempts \in Nat \ {0} /\ tries[c] \in Nat /\ tries[c] < Attempts
      /\ todo[c] \in SUBSET Path
      /\ Size(todo[c]) \in 0..3 /\ Size(todo'[c]) \in 0..3
  BY SizeFacts DEF TriesInv
<1>f. ASSUME NEW step \in Rest, Finish(c, step), pc[c] \notin Rest,
             pc[c] = "recreate" => Size(todo[c]) >= 1
      PROVE  Less /\ tries'[c] < Attempts
  <2>1. pc'[c] = step /\ tries'[c] = 0
    BY <1>f DEF Finish, Goto, Clear
  <2>2. Budget(pc'[c], todo'[c], tries'[c]) = 0
    BY <1>f, <2>1 DEF Budget, Rest
  <2>3. Budget(pc[c], todo[c], tries[c]) > 0
    BY <1>0, <1>f DEF Budget, Rest, Steps
  <2>4. QED BY <2>1, <2>2, <2>3
<1>r. ASSUME Retry(c), pc[c] \in {"ask", "commit"} PROVE Less /\ tries'[c] < Attempts
  <2>1. CASE tries[c] + 1 < Attempts
    BY <1>0, <1>r, <2>1 DEF Retry, Budget
  <2>2. CASE ~(tries[c] + 1 < Attempts)
    BY <1>0, <1>f, <1>r, <2>2 DEF Retry, Throw, Rest
  <2>3. QED BY <2>1, <2>2
<1>e. ASSUME NEW look \in Steps, NEW make \in Steps, look # make,
             EnsureFile(c, look, make), pc[c] = make => todo[c] # {}
      PROVE  /\ tries'[c] = tries[c]
             /\ \/ /\ pc[c] \in {look, make} /\ pc'[c] = look
                   /\ Size(todo'[c]) = Size(todo[c]) - 1
                \/ pc[c] = look /\ pc'[c] = make /\ todo'[c] = todo[c]
  BY <1>e, EnsureResult, SizeFacts
<1>1. CASE Ready(c)
  <2>1. CASE EnsureFile(c, "ready", "create")
    <3>1. "ready" \in Steps /\ "create" \in Steps /\ (pc[c] = "create" => todo[c] # {})
      BY DEF Steps, Phase, Making
    <3>2. /\ tries'[c] = tries[c]
          /\ \/ /\ pc[c] \in {"ready", "create"} /\ pc'[c] = "ready"
                /\ Size(todo'[c]) = Size(todo[c]) - 1
             \/ pc[c] = "ready" /\ pc'[c] = "create" /\ todo'[c] = todo[c]
      BY <1>e, <2>1, <3>1
    <3>3. QED BY <1>0, <3>2 DEF Budget
  <2>2. CASE Throw(c) /\ pc[c] \in {"ready", "create"}
    BY <1>f, <2>2 DEF Throw, Rest
  <2>3. CASE Goto(c, "snapshot") /\ UNCHANGED tries /\ pc[c] = "ready"
    <3>1. pc'[c] = "snapshot"
      BY <2>3 DEF Goto
    <3>2. QED BY <1>0, <2>3, <3>1 DEF Budget
  <2>4. QED BY <1>1, <2>1, <2>2, <2>3 DEF Ready
<1>2. CASE Snapshot(c)
  <2>1. CASE Goto(c, "save") /\ UNCHANGED tries
    <3>1. pc'[c] = "save" /\ tries'[c] = tries[c] /\ pc[c] = "snapshot"
      BY <1>2, <2>1 DEF Snapshot, Goto
    <3>2. QED BY <1>0, <3>1 DEF Budget
  <2>2. CASE Throw(c)
    BY <1>2, <1>f, <2>2 DEF Snapshot, Throw, Rest
  <2>3. QED BY <1>2, <2>1, <2>2 DEF Snapshot
<1>3. CASE Save(c)
  <2>1. CASE BeginScan(c)
    <3>1. pc'[c] = "scan" /\ tries'[c] = tries[c] /\ pc[c] = "save"
      BY <1>3, <2>1 DEF Save, BeginScan, Goto
    <3>2. QED BY <1>0, <3>1 DEF Budget
  <2>2. CASE Throw(c)
    BY <1>3, <1>f, <2>2 DEF Save, Throw, Rest
  <2>3. QED BY <1>3, <2>1, <2>2 DEF Save
<1>4. CASE Scan(c)
  <2>1. PICK p \in todo[c] \cap Path :
          /\ todo'[c] = todo[c] \ {p}
          /\ IF todo[c] = {p} THEN Goto(c, "ask") ELSE UNCHANGED pc
    BY <1>4, FirstFacts DEF Scan, Phase
  <2>2. tries'[c] = tries[c] /\ pc[c] = "scan"
    BY <1>4 DEF Scan
  <2>3. Size(todo'[c]) = Size(todo[c]) - 1
    BY <2>1, SizeFacts
  <2>4. CASE todo[c] = {p}
    <3>1. pc'[c] = "ask"
      BY <2>1, <2>4 DEF Goto
    <3>2. Size(todo[c]) >= 1
      BY <1>0, <2>3
    <3>3. QED BY <1>0, <2>2, <3>1, <3>2 DEF Budget
  <2>5. CASE todo[c] # {p}
    <3>1. pc'[c] = "scan"
      BY <2>1, <2>2, <2>5
    <3>2. QED BY <1>0, <2>2, <2>3, <3>1 DEF Budget
  <2>6. QED BY <2>4, <2>5
<1>5. CASE Ask(c)
  <2>1. CASE Retry(c)
    BY <1>5, <1>r, <2>1 DEF Ask
  <2>2. CASE ~Retry(c)
    <3>1. pc'[c] \in {"upload", "commit", "fetch", "remove"}
      BY <1>5, <2>2, AskResult
    <3>2. tries'[c] = 0 /\ pc[c] = "ask"
      BY <1>5, <2>2 DEF Ask
    <3>3. QED BY <1>0, <3>1, <3>2 DEF Budget
  <2>3. QED BY <2>1, <2>2
<1>6. CASE Fetch(c)
  <2>1. CASE Throw(c)
    BY <1>0, <1>6, <1>f, <2>1 DEF Fetch, Throw, Rest
  <2>2. CASE ~Throw(c)
    <3>1. PICK p \in todo[c] \cap Path :
            /\ todo' = [todo EXCEPT ![c] = IF @ = {p} THEN drop[c] ELSE @ \ {p}]
            /\ IF todo[c] = {p} THEN Goto(c, "remove") ELSE UNCHANGED pc
            /\ UNCHANGED tries
      BY <1>0, <1>6, <2>2 DEF Fetch
    <3>2. pc[c] = "fetch" /\ Size(todo[c]) >= 1
      BY <1>0, <1>6, <3>1, SizeFacts DEF Fetch
    <3>3. CASE todo[c] = {p}
      <4>1. pc'[c] = "remove"
        BY <3>1, <3>3 DEF Goto
      <4>2. QED BY <1>0, <3>1, <3>2, <4>1 DEF Budget
    <3>4. CASE todo[c] # {p}
      <4>1. pc'[c] = "fetch" /\ Size(todo'[c]) = Size(todo[c]) - 1
        BY <3>1, <3>2, <3>4, SizeFacts
      <4>2. QED BY <1>0, <3>1, <3>2, <4>1 DEF Budget
    <3>5. QED BY <3>3, <3>4
  <2>3. QED BY <2>1, <2>2
<1>7. CASE Remove(c)
  <2>1. CASE Throw(c)
    BY <1>0, <1>7, <1>f, <2>1 DEF Remove, Throw, Rest
  <2>2. CASE todo[c] = {} /\ Goto(c, "reindex") /\ UNCHANGED tries
    <3>1. pc'[c] = "reindex" /\ tries'[c] = tries[c] /\ pc[c] = "remove"
      BY <1>7, <2>2 DEF Goto, Remove
    <3>2. QED BY <1>0, <3>1 DEF Budget
  <2>3. CASE ~Throw(c) /\ todo[c] # {}
    <3>1. PICK p \in todo[c] \cap Path : todo' = [todo EXCEPT ![c] = @ \ {p}]
      BY <1>0, <1>7, <2>3 DEF Remove
    <3>2. pc'[c] = "remove" /\ pc[c] = "remove" /\ tries'[c] = tries[c]
      BY <1>7, <2>3 DEF Remove
    <3>3. Size(todo'[c]) = Size(todo[c]) - 1
      BY <3>1, SizeFacts
    <3>4. QED BY <1>0, <3>2, <3>3 DEF Budget
  <2>4. QED BY <1>7, <2>1, <2>2, <2>3 DEF Remove
<1>8. CASE Reindex(c)
  <2>1. "reindex" \in Steps /\ "recreate" \in Steps /\ (pc[c] = "recreate" => todo[c] # {})
    BY DEF Steps, Phase, Making
  <2>2. CASE EnsureFile(c, "reindex", "recreate")
    <3>1. /\ tries'[c] = tries[c]
          /\ \/ /\ pc[c] \in {"reindex", "recreate"} /\ pc'[c] = "reindex"
                /\ Size(todo'[c]) = Size(todo[c]) - 1
             \/ pc[c] = "reindex" /\ pc'[c] = "recreate" /\ todo'[c] = todo[c]
      BY <1>e, <2>1, <2>2
    <3>2. QED BY <1>0, <3>1 DEF Budget
  <2>3. CASE Finish(c, "done") /\ pc[c] \in {"reindex", "recreate"}
    BY <1>0, <1>f, <2>1, <2>3, SizeFacts DEF Rest
  <2>4. QED BY <1>8, <2>2, <2>3 DEF Reindex
<1>9. CASE Upload(c)
  <2>1. CASE Throw(c)
    BY <1>0, <1>9, <1>f, <2>1 DEF Upload, Throw, Rest
  <2>2. CASE ~Throw(c)
    <3>1. PICK p \in todo[c] \cap Path :
            /\ todo' = [todo EXCEPT ![c] = @ \ {p}]
            /\ IF todo[c] = {p} THEN Goto(c, "commit") ELSE UNCHANGED pc
            /\ UNCHANGED tries
      BY <1>0, <1>9, <2>2 DEF Upload
    <3>2. pc[c] = "upload" /\ Size(todo'[c]) = Size(todo[c]) - 1
      BY <1>9, <3>1, SizeFacts DEF Upload
    <3>3. CASE todo[c] = {p}
      <4>1. pc'[c] = "commit"
        BY <3>1, <3>3 DEF Goto
      <4>2. QED BY <1>0, <3>1, <3>2, <4>1 DEF Budget
    <3>4. CASE todo[c] # {p}
      <4>1. pc'[c] = "upload"
        BY <3>1, <3>2, <3>4
      <4>2. QED BY <1>0, <3>1, <3>2, <4>1 DEF Budget
    <3>5. QED BY <3>3, <3>4
  <2>3. QED BY <2>1, <2>2
<1>10. CASE Complete(c)
  <2>1. CASE Finish(c, "done")
    BY <1>0, <1>10, <1>f, <2>1 DEF Complete, Rest
  <2>2. CASE Retry(c)
    BY <1>10, <1>r, <2>2 DEF Complete
  <2>3. QED BY <1>10, <2>1, <2>2 DEF Complete
<1>11. QED BY <1>2, <1>4, <1>5, <1>6, <1>7, <1>8, <1>9, <1>10, <1>1, <1>3 DEF SyncStep

\* What every step does to the budgets.
LEMMA FuelStep ==
  ASSUME Core, TriesInv, [Next]_vars
  PROVE  /\ TriesInv'
         /\ \A c \in Call : Step(c) => Fuel(c)' < Fuel(c)
         /\ \A c \in Call : Running(c) /\ Running(c)' => Fuel(c)' <= Fuel(c)
<1> USE DEF Core, TypeOK
<1>0. SyncTypeOK'
  BY CoreStep
<1>1. ASSUME NEW c \in Call, Step(c) PROVE Fuel(c)' < Fuel(c) /\ tries'[c] < Attempts
  <2>1. tries'[c] \in Nat /\ todo'[c] \in SUBSET Path
    BY <1>0 DEF SyncTypeOK
  <2>2. QED BY <1>1, <2>1, OwnFuel DEF Step, PhaseInv
<1>2. \A c \in Call : Fuel(c) \in Nat
  <2>1. SUFFICES ASSUME NEW c \in Call PROVE Fuel(c) \in Nat
    OBVIOUS
  <2>2. tries[c] \in Nat /\ tries[c] < Attempts /\ Size(todo[c]) \in 0..3
    BY SizeFacts DEF TriesInv, SyncTypeOK
  <2>3. QED BY <2>2, AttemptsAssumption DEF Fuel, Budget
<1> DEFINE Same(c) == UNCHANGED <<pc[c], todo[c], tries[c]>>
           Steady(c) == /\ tries'[c] < Attempts
                        /\ Running(c) /\ Running(c)' => Fuel(c)' <= Fuel(c)
<1>3. ASSUME NEW c \in Call, Same(c) PROVE Steady(c)
  <2>1. Fuel(c)' = Fuel(c)
    BY <1>3 DEF Fuel
  <2>2. QED BY <1>2, <1>3, <2>1 DEF TriesInv
<1>4. ASSUME UNCHANGED <<pc, locals>>, NEW c \in Call PROVE Steady(c)
  BY <1>3, <1>4 DEF locals
<1>5. ASSUME NEW d \in Call, NEW kind \in {"pull", "push"}, Start(d, kind), NEW c \in Call
      PROVE  Steady(c)
  <2>1. CASE c = d
    <3>1. ~Running(c) /\ tries'[c] = tries[c]
      BY <1>5, <2>1 DEF Start
    <3>2. QED BY <3>1 DEF TriesInv
  <2>2. CASE c # d
    <3>1. Same(c)
      BY <1>5, <2>2, StartPhase DEF LocalsOf
    <3>2. QED BY <3>1, <1>3
  <2>3. QED BY <2>1, <2>2
<1>6. ASSUME NEW c \in Call PROVE Steady(c)
  <2>1. ASSUME NEW d \in Call, Step(d) PROVE Steady(c)
    <3>1. CASE c = d
      <4>1. Fuel(c)' < Fuel(c) /\ tries'[c] < Attempts
        BY <1>1, <2>1, <3>1
      <4>2. Fuel(c)' \in Nat
        <5>1. tries'[c] \in Nat /\ tries'[c] < Attempts /\ Size(todo'[c]) \in 0..3
          BY <1>0, <4>1, SizeFacts DEF SyncTypeOK
        <5>2. QED BY <5>1, AttemptsAssumption DEF Fuel, Budget
      <4>3. QED BY <1>2, <4>1, <4>2
    <3>2. CASE c # d
      <4>1. SyncStep(d)
        BY <2>1 DEF Step
      <4>2. Same(c)
        BY <3>2, <4>1, Others DEF LocalsOf
      <4>3. QED BY <4>2, <1>3
    <3>3. QED BY <3>1, <3>2
  <2>2. ASSUME NEW s \in Session, Prepare(s) \/ CompleteSession(s) \/ SessionStep(s)
        PROVE  Steady(c)
    <3>1. s \in Call
      BY SessionAssumption
    <3>2. CASE Prepare(s)
      BY <1>5, <3>1, <3>2 DEF Prepare
    <3>3. CASE Checkpoint(s)
      BY <1>4, <1>5, <3>1, <3>3 DEF Checkpoint
    <3>4. CASE Prepared(s) \/ CompleteSession(s) \/ PushFailed(s) \/ Pushed(s)
      BY <1>4, <3>4 DEF Prepared, CompleteSession, PushFailed, Pushed, syncVars
    <3>5. QED BY <2>2, <3>2, <3>3, <3>4 DEF SessionStep
  <2>3. ASSUME NEW d \in Client, Sync(d) PROVE Steady(c)
    BY <2>3, <1>5, SessionAssumption DEF Sync
  <2>4. CASE \/ \E f \in Written : WriteRead(f) \/ WriteBack(f)
             \/ \E f \in Linked : Link(f)
             \/ LinkDone
             \/ \E f \in Remote : Foreign(f)
             \/ UNCHANGED vars
    BY <2>4, <1>4 DEF WriteRead, ReadNotes, WriteBack, WriteNotes, Link, LinkNodes,
                      LinkDone, LinkEdges, Foreign, Elsewhere, vars, syncVars
  <2>5. CASE Crash
    <3>1. pc'[c] = "idle" /\ tries'[c] = 0
      BY <2>5 DEF Crash, Restart
    <3>2. QED BY <3>1, AttemptsAssumption DEF Running, Rest
  <2>6. QED BY <2>1, <2>2, <2>3, <2>4, <2>5 DEF Next
<1>7. QED BY <1>1, <1>6 DEF TriesInv

\* A call has a budget of steps, every step of its own spends some of it, and
\* nothing else in the process or in the cloud ever adds to it.
CallsSpend ==
  [][\A c \in Call : /\ Step(c) => Fuel(c)' < Fuel(c)
                     /\ Running(c) /\ Running(c)' => Fuel(c)' <= Fuel(c)]_vars
WithinBudget == \A c \in Call : Fuel(c) \in 0..(26 + 2 * Attempts)

\* A pull or a push makes at most 26 steps and two for each attempt the client of
\* the cloud allows, however many requests are lost or refused and whatever other
\* calls, the user and other devices do meanwhile.
THEOREM CallsAreFinite == Spec => []WithinBudget /\ CallsSpend
<1> DEFINE I == Core /\ TriesInv
<1>1. Init => I
  <2>1. Init => Core
    BY CoreInit
  <2>2. Init => TriesInv
    BY AttemptsAssumption DEF Init, SyncInit, TriesInv
  <2>3. QED BY <2>1, <2>2
<1>2. I /\ [Next]_vars => I'
  BY CoreStep, FuelStep
<1>3. I => WithinBudget
  <2>1. SUFFICES ASSUME I, NEW c \in Call PROVE Fuel(c) \in 0..(26 + 2 * Attempts)
    BY DEF WithinBudget
  <2>2. tries[c] \in Nat /\ tries[c] < Attempts /\ Size(todo[c]) \in 0..3
    BY <2>1, SizeFacts DEF TriesInv, Core, TypeOK, SyncTypeOK
  <2>3. Fuel(c) \in Nat
    BY <2>2, AttemptsAssumption DEF Fuel, Budget
  <2>4. Fuel(c) <= 26 + 2 * Attempts
    BY <2>2, AttemptsAssumption DEF Fuel, Budget
  <2>5. 26 + 2 * Attempts \in Nat
    BY AttemptsAssumption
  <2>6. QED BY <2>3, <2>4, <2>5
<1>4. I /\ [Next]_vars =>
        [\A c \in Call : /\ Step(c) => Fuel(c)' < Fuel(c)
                         /\ Running(c) /\ Running(c)' => Fuel(c)' <= Fuel(c)]_vars
  BY FuelStep
<1>5. QED BY <1>1, <1>2, <1>3, <1>4, PTL DEF Spec, CallsSpend

\* The step of a call that has files to treat finds one; a session whose store
\* is saved finds its call at rest, so that it can push; and a push that is over
\* has an outcome.
GoesOn ==
  /\ \A c \in Call :
       pc[c] \in {"create", "scan", "fetch", "recreate", "upload"} => todo[c] # {}
  /\ \A s \in Session : /\ Running(s) => stage[s] \in {"preparing", "pushing"}
                        /\ stage[s] = "pushing" => pc[s] # "idle"

\* No call and no session waits for something that nobody does.
THEOREM NobodyStuck == Spec => []GoesOn
<1> DEFINE Waits(s) == /\ Running(s) => stage[s] \in {"preparing", "pushing"}
                       /\ stage[s] = "pushing" => pc[s] # "idle"
           I == Core /\ \A s \in Session : Waits(s)
<1>1. Init => I
  BY CoreInit, SessionAssumption DEF Init, SyncInit, Running, Rest
<1>2. ASSUME I, [Next]_vars, NEW s \in Session PROVE Waits(s)'
  <2> USE <1>2 DEF Core, TypeOK, SyncTypeOK, Running, Rest
  <2>0. s \in Call
    BY SessionAssumption
  <2>a. CASE pc'[s] = pc[s] /\ stage'[s] = stage[s]
    BY <2>a
  <2>1. ASSUME NEW c \in Call, Step(c) PROVE Waits(s)'
    <3>1. stage' = stage /\ SyncStep(c)
      BY <2>1 DEF Step
    <3>2. CASE c # s
      BY <2>0, <3>1, <3>2, <2>a, Others DEF LocalsOf
    <3>3. CASE c = s
      <4>1. Running(s)
        BY <3>1, <3>3 DEF SyncStep, Ready, EnsureFile, Find, Make, Snapshot, Save, Scan,
           Ask, Fetch, Remove, Reindex, Upload, Complete
      <4>2. pc'[s] # "idle"
        <5>1. ASSUME Throw(s) \/ Finish(s, "done") PROVE pc'[s] # "idle"
          BY <2>0, <5>1, FinishOthers DEF Throw
        <5>2. ASSUME Retry(s) PROVE pc'[s] # "idle"
          BY <2>0, <4>1, <5>1, <5>2 DEF Retry
        <5>3. CASE Ready(s) \/ Snapshot(s) \/ Save(s) \/ Scan(s)
          BY <2>0, <5>1, <5>3 DEF Ready, EnsureFile, Find, Make, Snapshot, Save,
             BeginScan, Scan, Goto
        <5>4. CASE Ask(s)
          BY <2>0, <5>2, <5>4, AskResult
        <5>5. CASE Fetch(s) \/ Remove(s) \/ Reindex(s) \/ Upload(s)
          BY <2>0, <5>1, <5>5 DEF Fetch, Remove, Reindex, EnsureFile, Find, Make,
             Upload, Goto
        <5>6. CASE Complete(s)
          BY <5>1, <5>2, <5>6 DEF Complete
        <5>7. QED BY <3>1, <3>3, <5>3, <5>4, <5>5, <5>6 DEF SyncStep
      <4>3. stage'[s] \in {"preparing", "pushing"}
        BY <3>1, <4>1
      <4>4. QED BY <4>2, <4>3
    <3>4. QED BY <3>2, <3>3
  <2>2. ASSUME NEW r \in Session, Prepare(r) \/ CompleteSession(r) \/ SessionStep(r)
        PROVE  Waits(s)'
    <3>1. r \in Call
      BY SessionAssumption
    <3>2. CASE Prepare(r)
      BY <2>0, <3>1, <3>2, StartPhase DEF Prepare, Enter, LocalsOf
    <3>3. CASE Checkpoint(r)
      <4>1. CASE Start(r, "push")
        BY <2>0, <3>1, <3>3, <4>1, StartPhase DEF Checkpoint, Enter, LocalsOf
      <4>2. CASE ~Start(r, "push")
        BY <3>3, <4>2 DEF Checkpoint, Enter
      <4>3. QED BY <4>1, <4>2
    <3>4. CASE Prepared(r)
      BY <3>4 DEF Prepared, Enter, syncVars
    <3>5. CASE CompleteSession(r)
      BY <3>5 DEF CompleteSession, Enter
    <3>6. CASE PushFailed(r)
      BY <3>6 DEF PushFailed, Enter
    <3>7. CASE Pushed(r)
      BY <3>7 DEF Pushed, Enter
    <3>8. QED BY <2>2, <3>2, <3>3, <3>4, <3>5, <3>6, <3>7 DEF SessionStep
  <2>3. ASSUME NEW d \in Client, Sync(d) PROVE Waits(s)'
    <3>1. d \in Call /\ d # s
      BY SessionAssumption
    <3>2. QED BY <2>0, <2>3, <3>1, <2>a, StartPhase DEF Sync, sessionVars, LocalsOf
  <2>4. CASE \/ \E f \in Written : WriteRead(f) \/ WriteBack(f)
             \/ \E f \in Linked : Link(f)
             \/ LinkDone
             \/ \E f \in Remote : Foreign(f)
             \/ UNCHANGED vars
    BY <2>4, <2>a DEF WriteRead, ReadNotes, WriteBack, WriteNotes, Link, LinkNodes,
                      LinkDone, LinkEdges, Foreign, Elsewhere, vars, syncVars, sessionVars
  <2>5. CASE Crash
    BY <2>0, <2>5 DEF Crash, Restart, Completing
  <2>6. QED BY <2>1, <2>2, <2>3, <2>4, <2>5 DEF Next
<1>3. I /\ [Next]_vars => I'
  BY <1>2, CoreStep
<1>4. I => GoesOn
  BY DEF GoesOn, Core, PhaseInv, Phase, Making
<1>5. QED BY <1>1, <1>3, <1>4, PTL DEF Spec
=============================================================================
