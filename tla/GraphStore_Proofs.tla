-------------------------- MODULE GraphStore_Proofs --------------------------
(***************************************************************************)
(* Proofs about the graph store and the consolidation pass over it: their  *)
(* types; that edges keep their nodes in memory; that the pair of files is *)
(* the old one or the new one when no call is under way, and loads; that a *)
(* merge keeps the facts about third nodes; and that two undisturbed passes*)
(* leave nothing to merge or to retire.                                    *)
(***************************************************************************)
EXTENDS Consolidation, TLAPS, WellFoundedInduction, FiniteSetTheorems

-----------------------------------------------------------------------------
(* The maps.                                                               *)

\* The operators on one map keep it a map.
LEMMA UpsertTable ==
  ASSUME NEW U, NEW f, Table(f, U), NEW S \in SUBSET U
  PROVE  /\ Table(Upsert(f, S), U) /\ DOMAIN Upsert(f, S) = DOMAIN f \cup S
         /\ Table(Retire(f, S), U) /\ DOMAIN Retire(f, S) = DOMAIN f \cup S
BY DEF Table, Upsert, Retire, Status

LEMMA WithoutTable ==
  ASSUME NEW U, NEW f, Table(f, U), NEW S
  PROVE  Table(Without(f, S), U) /\ DOMAIN Without(f, S) = DOMAIN f \ S
BY DEF Table, Without

\* A graph is its two maps.
LEMMA NoGraphLoads == IsGraph(NoGraph) /\ Loadable(NoGraph)
BY DEF IsGraph, Loadable, NoGraph, Table

LEMMA NodesOf ==
  ASSUME NEW g, IsGraph(g), NEW f, Table(f, Node)
  PROVE  /\ IsGraph([g EXCEPT !.nodes = f])
         /\ [g EXCEPT !.nodes = f].nodes = f /\ [g EXCEPT !.nodes = f].edges = g.edges
BY DEF IsGraph

LEMMA EdgesOf ==
  ASSUME NEW g, IsGraph(g), NEW f, Table(f, Edge)
  PROVE  /\ IsGraph([g EXCEPT !.edges = f])
         /\ [g EXCEPT !.edges = f].edges = f /\ [g EXCEPT !.edges = f].nodes = g.nodes
BY DEF IsGraph

\* More nodes, or fewer edges, cannot take an end away.
LEMMA LoadableGrows ==
  ASSUME NEW g, NEW h, Loadable(g), DOMAIN g.nodes \subseteq DOMAIN h.nodes,
         \A e \in DOMAIN h.edges : e \in DOMAIN g.edges \/ Ends(e) \subseteq DOMAIN h.nodes
  PROVE  Loadable(h)
BY DEF Loadable

\* An edge that moves is an edge, no longer touches the absorbed node, and
\* stands for what it stood for.
LEMMA RewireEdge ==
  ASSUME NEW e \in Edge, NEW s \in Node, NEW t \in Node, s # t
  PROVE  /\ Rewire(e, s, t) \in Edge /\ s \notin Ends(Rewire(e, s, t))
         /\ Origin(Rewire(e, s, t)) = Origin(e)
<1>1. Origin(e) \in SUBSET Triple /\ Origin(e) # {}
  <2> DEFINE r == [from |-> e.from, to |-> e.to, type |-> e.type]
  <2>1. r \in Triple /\ e.key \in SUBSET Triple
    BY DEF Edge, Triple
  <2>2. Origin(e) = IF e.key = {} THEN {r} ELSE e.key
    BY DEF Origin
  <2> HIDE DEF r
  <2>3. QED BY <2>1, <2>2
<1>2. Rewire(e, s, t).key = Origin(e)
  BY DEF Rewire
<1>3. Rewire(e, s, t) \in Edge
  BY <1>1 DEF Rewire, Edge
<1>4. s \notin Ends(Rewire(e, s, t))
  BY DEF Rewire, Ends
<1>5. QED BY <1>1, <1>2, <1>3, <1>4 DEF Origin

LEMMA MovedGraph ==
  ASSUME NEW g, IsGraph(g), NEW s \in Node, NEW t \in Node, s # t
  PROVE  /\ IsGraph(Moved(g, s, t)) /\ Moved(g, s, t).nodes = g.nodes
         /\ DOMAIN Moved(g, s, t).edges
              = (DOMAIN g.edges \ Touching(g, s)) \cup {Rewire(e, s, t) : e \in Kept(g, s, t)}
         /\ Touching(Moved(g, s, t), s) = {}
<1> DEFINE stay == DOMAIN g.edges \ Touching(g, s)
           image == {Rewire(e, s, t) : e \in Kept(g, s, t)}
           from(x) == CHOOSE e \in Kept(g, s, t) : Rewire(e, s, t) = x
           f == [x \in stay \cup image |-> IF x \in image THEN g.edges[from(x)] ELSE g.edges[x]]
<1>1. Table(g.edges, Edge) /\ Kept(g, s, t) \subseteq DOMAIN g.edges
  BY DEF IsGraph, Kept, Touching
<1>2. image \subseteq Edge /\ \A x \in image : s \notin Ends(x)
  BY <1>1, RewireEdge DEF Table
<1>3. ASSUME NEW x \in image PROVE from(x) \in Kept(g, s, t)
  BY <1>3
<1>4. stay \subseteq Edge
  BY <1>1 DEF Table
<1>5. DOMAIN f = stay \cup image
  OBVIOUS
<1>6. \A x \in stay \cup image : f[x] \in Status
  <2> HIDE DEF from
  <2>1. ASSUME NEW x \in image PROVE f[x] \in Status
    BY <1>1, <1>3, <2>1 DEF Table
  <2>2. ASSUME NEW x \in stay, x \notin image PROVE f[x] \in Status
    BY <1>1, <2>2 DEF Table
  <2>3. QED BY <2>1, <2>2
<1>7. Table(f, Edge)
  <2> HIDE DEF stay, image, from
  <2>1. f \in [stay \cup image -> Status]
    BY <1>6
  <2>2. QED BY <1>2, <1>4, <1>5, <2>1 DEF Table
<1>8. Moved(g, s, t) = [g EXCEPT !.edges = f]
  BY DEF Moved
<1> HIDE DEF f
<1>9. /\ IsGraph(Moved(g, s, t)) /\ Moved(g, s, t).nodes = g.nodes
      /\ Moved(g, s, t).edges = f
  BY <1>7, <1>8, EdgesOf
<1>10. \A e \in stay \cup image : s \notin Ends(e)
  BY <1>2 DEF Touching
<1>11. QED BY <1>5, <1>9, <1>10 DEF Touching

-----------------------------------------------------------------------------
(* What every mutator does.                                                *)

\* It hydrates and changes the maps into a graph that loads when the old one
\* did; a merge that yields leaves no edge to the node it has yet to delete.
Mutation(c, g, step) ==
  /\ Change(c, g, step) /\ IsGraph(g)
  /\ Loadable(Loaded) => Loadable(g)
  /\ \/ step \in {"idle", "export"} /\ UNCHANGED gap
     \/ step = "drop" /\ \E s \in Node : /\ gap' = [gap EXCEPT ![c] = s]
                                         /\ Touching(g, s) = {}

Mutates(c) == \E g, step : Mutation(c, g, step)

LEMMA LoadedGraph ==
  ASSUME TypeOK PROVE IsGraph(Loaded)
BY DEF TypeOK, Loaded

LEMMA NodesMutate ==
  ASSUME TypeOK, NEW c \in Call, NEW S \in SUBSET Node,
         UpsertNodes(c, S) \/ RetireNodes(c, S)
  PROVE  Mutates(c)
<1> DEFINE G == Loaded
<1>1. IsGraph(G) /\ Table(G.nodes, Node)
  BY LoadedGraph DEF IsGraph
<1>2. CASE UpsertNodes(c, S)
  <2> DEFINE h == [G EXCEPT !.nodes = Upsert(@, S)]
  <2>1. IsGraph(h) /\ DOMAIN h.nodes = DOMAIN G.nodes \cup S /\ h.edges = G.edges
    BY <1>1, UpsertTable, NodesOf
  <2>2. Loadable(G) => Loadable(h)
    BY <2>1, LoadableGrows
  <2>3. Change(c, h, "export") /\ UNCHANGED gap
    BY <1>2 DEF UpsertNodes
  <2> HIDE DEF h
  <2>4. QED BY <2>1, <2>2, <2>3 DEF Mutates, Mutation
<1>3. CASE RetireNodes(c, S)
  <2> DEFINE h == [G EXCEPT !.nodes = Retire(@, S)]
  <2>1. IsGraph(h) /\ DOMAIN h.nodes = DOMAIN G.nodes \cup S /\ h.edges = G.edges
    BY <1>1, UpsertTable, NodesOf
  <2>2. Loadable(G) => Loadable(h)
    BY <2>1, LoadableGrows
  <2>3. Change(c, h, "export") /\ UNCHANGED gap
    BY <1>3 DEF RetireNodes
  <2> HIDE DEF h
  <2>4. QED BY <2>1, <2>2, <2>3 DEF Mutates, Mutation
<1>4. QED BY <1>2, <1>3

LEMMA EdgesMutate ==
  ASSUME TypeOK, NEW c \in Call, NEW S \in SUBSET Edge,
         UpsertEdges(c, S) \/ RetireEdges(c, S) \/ DeleteEdges(c, S)
  PROVE  Mutates(c)
<1> DEFINE G == Loaded
<1>1. IsGraph(G) /\ Table(G.edges, Edge)
  BY LoadedGraph DEF IsGraph
<1>2. CASE Change(c, G, "idle") /\ UNCHANGED gap
  BY <1>1, <1>2 DEF Mutates, Mutation
<1>3. CASE Linked(G, S) /\ UpsertEdges(c, S)
  <2> DEFINE h == [G EXCEPT !.edges = Upsert(@, S)]
  <2>1. IsGraph(h) /\ DOMAIN h.edges = DOMAIN G.edges \cup S /\ h.nodes = G.nodes
    BY <1>1, UpsertTable, EdgesOf
  <2>2. Loadable(G) => Loadable(h)
    BY <1>3, <2>1, LoadableGrows DEF Linked
  <2>3. Change(c, h, "export") /\ UNCHANGED gap
    BY <1>3 DEF UpsertEdges
  <2> HIDE DEF h
  <2>4. QED BY <2>1, <2>2, <2>3 DEF Mutates, Mutation
<1>4. CASE Linked(G, S) /\ RetireEdges(c, S)
  <2> DEFINE h == [G EXCEPT !.edges = Retire(@, S)]
  <2>1. IsGraph(h) /\ DOMAIN h.edges = DOMAIN G.edges \cup S /\ h.nodes = G.nodes
    BY <1>1, UpsertTable, EdgesOf
  <2>2. Loadable(G) => Loadable(h)
    BY <1>4, <2>1, LoadableGrows DEF Linked
  <2>3. Change(c, h, "export") /\ UNCHANGED gap
    BY <1>4 DEF RetireEdges
  <2> HIDE DEF h
  <2>4. QED BY <2>1, <2>2, <2>3 DEF Mutates, Mutation
<1>5. CASE DeleteEdges(c, S)
  <2> DEFINE h == [G EXCEPT !.edges = Without(@, S)]
  <2>1. IsGraph(h) /\ DOMAIN h.edges = DOMAIN G.edges \ S /\ h.nodes = G.nodes
    BY <1>1, WithoutTable, EdgesOf
  <2>2. Loadable(G) => Loadable(h)
    BY <2>1, LoadableGrows
  <2>3. Change(c, h, "export") /\ UNCHANGED gap
    BY <1>5 DEF DeleteEdges
  <2> HIDE DEF h
  <2>4. QED BY <2>1, <2>2, <2>3 DEF Mutates, Mutation
<1>6. QED BY <1>2, <1>3, <1>4, <1>5 DEF UpsertEdges, RetireEdges

LEMMA DeleteMutates ==
  ASSUME TypeOK, NEW c \in Call, NEW n \in Node, DeleteNode(c, n)
  PROVE  Mutates(c)
<1> DEFINE G == Loaded
           h == Deleted(G, n)
<1>1. IsGraph(G) /\ Table(G.nodes, Node) /\ Table(G.edges, Edge)
  BY LoadedGraph DEF IsGraph
<1>2. IsGraph(h) /\ (Loadable(G) => Loadable(h))
  <2>1. CASE n \in DOMAIN G.nodes
    <3>1. h = [nodes |-> Without(G.nodes, {n}), edges |-> Without(G.edges, Touching(G, n))]
      BY <2>1 DEF Deleted
    <3>2. IsGraph(h) /\ DOMAIN h.nodes = DOMAIN G.nodes \ {n}
          /\ DOMAIN h.edges = DOMAIN G.edges \ Touching(G, n)
      BY <1>1, <3>1, WithoutTable DEF IsGraph
    <3>3. QED BY <3>2 DEF Loadable, Touching
  <2>2. CASE n \notin DOMAIN G.nodes
    BY <1>1, <2>2 DEF Deleted
  <2>3. QED BY <2>1, <2>2
<1>3. Change(c, h, "export") /\ UNCHANGED gap
  BY DEF DeleteNode
<1> HIDE DEF h
<1>4. QED BY <1>2, <1>3 DEF Mutates, Mutation

LEMMA MergeMutates ==
  ASSUME TypeOK, NEW c \in Call, NEW s \in Node, NEW t \in Node, s # t, MergeNodes(c, s, t)
  PROVE  Mutates(c)
<1> DEFINE G == Loaded
<1>1. IsGraph(G) /\ Table(G.edges, Edge)
  BY LoadedGraph DEF IsGraph
<1>2. CASE Change(c, G, "idle") /\ UNCHANGED gap
  BY <1>1, <1>2 DEF Mutates, Mutation
<1>3. CASE DeleteNode(c, s)
  BY <1>3, DeleteMutates
<1>4. CASE Change(c, Unlinked(G, s), "idle") /\ UNCHANGED gap
  <2> DEFINE h == Unlinked(G, s)
  <2>1. IsGraph(h) /\ DOMAIN h.edges = DOMAIN G.edges \ Touching(G, s) /\ h.nodes = G.nodes
    BY <1>1, WithoutTable, EdgesOf DEF Unlinked
  <2>2. Loadable(G) => Loadable(h)
    BY <2>1, LoadableGrows
  <2> HIDE DEF h
  <2>3. Change(c, h, "idle")
    BY <1>4 DEF h
  <2>4. QED BY <1>4, <2>1, <2>2, <2>3 DEF Mutates, Mutation
<1>5. CASE Movable(G, s, t) /\ Change(c, Moved(G, s, t), "drop") /\ gap' = [gap EXCEPT ![c] = s]
  <2> DEFINE h == Moved(G, s, t)
  <2>1. /\ IsGraph(h) /\ h.nodes = G.nodes /\ Touching(h, s) = {}
        /\ DOMAIN h.edges = (DOMAIN G.edges \ Touching(G, s))
                              \cup {Rewire(e, s, t) : e \in Kept(G, s, t)}
    BY <1>1, MovedGraph
  <2>2. \A e \in DOMAIN h.edges : e \in DOMAIN G.edges \/ Ends(e) \subseteq DOMAIN h.nodes
    BY <1>5, <2>1 DEF Movable
  <2>3. Loadable(G) => Loadable(h)
    BY <2>1, <2>2, LoadableGrows
  <2> HIDE DEF h
  <2>4. Change(c, h, "drop")
    BY <1>5 DEF h
  <2>5. QED BY <1>5, <2>1, <2>3, <2>4 DEF Mutates, Mutation
<1>6. QED BY <1>2, <1>3, <1>4, <1>5 DEF MergeNodes

LEMMA RequestMutates ==
  ASSUME TypeOK, NEW c \in Call, Request(c)
  PROVE  Mutates(c)
<1>1. IsGraph(Loaded) /\ Linkable \subseteq Edge
  BY LoadedGraph, LinkAssumption
<1>2. DOMAIN Loaded.nodes \subseteq Node /\ DOMAIN Loaded.edges \subseteq Edge
  BY <1>1 DEF IsGraph, Table
<1>3. ASSUME NEW g \in Stored, ImportSnapshot(c, g) PROVE Mutates(c)
  BY <1>3, StoredAssumption DEF ImportSnapshot, Mutates, Mutation
<1>4. ASSUME NEW n \in Node, UpsertNodes(c, {n}) \/ RetireNodes(c, {n}) PROVE Mutates(c)
  <2>1. {n} \in SUBSET Node
    OBVIOUS
  <2>2. QED BY <1>4, <2>1, NodesMutate
<1>5. ASSUME NEW e \in Edge, UpsertEdges(c, {e}) \/ DeleteEdges(c, {e}) PROVE Mutates(c)
  <2>1. {e} \in SUBSET Edge
    OBVIOUS
  <2>2. QED BY <1>5, <2>1, EdgesMutate
<1>6. QED BY <1>1, <1>2, <1>3, <1>4, <1>5, DeleteMutates, MergeMutates DEF Request

-----------------------------------------------------------------------------
(* Typing.                                                                 *)

LEMMA MutationType ==
  ASSUME TypeOK, NEW c \in Call, calls' \in Nat, Mutates(c)
  PROVE  TypeOK'
<1>1. PICK g, step : Mutation(c, g, step)
  BY DEF Mutates
<1>2. gap' \in [Call -> {None} \cup Node] /\ step \in Steps
  BY <1>1 DEF TypeOK, Mutation, Steps
<1>3. overlapped' \in BOOLEAN
  BY <1>1 DEF Mutation, Change
<1>4. QED BY <1>1, <1>2, <1>3 DEF TypeOK, Mutation, Change

\* A call that returns forgets its snapshot.
LEMMA LocalsType ==
  ASSUME TypeOK, NEW c \in Call, NEW g, IsGraph(g), NEW f, Table(f, Node), Locals(c, g, f)
  PROVE  /\ DOMAIN snap' = Call /\ DOMAIN old' = Call
         /\ \A d \in Call : IsGraph(snap'[d]) /\ Table(old'[d], Node)
BY DEF TypeOK, Locals

LEMMA ReturnType ==
  ASSUME TypeOK, NEW c \in Call, Return(c)
  PROVE  /\ DOMAIN snap' = Call /\ DOMAIN old' = Call
         /\ \A d \in Call : IsGraph(snap'[d]) /\ Table(old'[d], Node)
         /\ pc' \in [Call -> Steps]
<1>1. Table(<<>>, Node)
  BY DEF Table
<1>2. QED BY <1>1, NoGraphLoads, LocalsType DEF Return, TypeOK, Goto, Steps

LEMMA CallType ==
  ASSUME TypeOK, NEW c \in Call, StoreStep(c)
  PROVE  TypeOK'
<1> USE DEF TypeOK, store, control, history, Goto, Steps
<1>0. \A n : trouble' = trouble + n /\ n \in {0, 1} => trouble' \in Nat
  OBVIOUS
<1>1. CASE DropSource(c)
  <2>1. IsGraph(mem')
    <3> DEFINE f == Without(mem.nodes, {gap[c]})
    <3>1. Table(f, Node)
      BY WithoutTable DEF IsGraph
    <3>2. mem' = [mem EXCEPT !.nodes = f]
      BY <1>1 DEF DropSource
    <3> HIDE DEF f
    <3>3. QED BY <3>1, <3>2, NodesOf
  <2>2. QED BY <1>1, <2>1 DEF DropSource
<1>2. CASE ExportSnapshot(c)
  <2>1. Table(<<>>, Node)
    BY DEF Table
  <2>2. QED BY <1>2, <2>1, LocalsType DEF ExportSnapshot
<1>3. CASE ReadOldNodes(c)
  <2>1. trouble' \in Nat
    BY <1>3 DEF ReadOldNodes, Outcome, Failures
  <2>2. CASE Return(c)
    BY <1>3, <2>1, <2>2, ReturnType DEF ReadOldNodes
  <2>3. CASE Goto(c, "nodes") /\ Locals(c, snap[c], disk.nodes)
    <3>1. Table(disk.nodes, Node)
      BY DEF IsGraph
    <3>2. QED BY <1>3, <2>1, <2>3, <3>1, LocalsType DEF ReadOldNodes
  <2>4. QED BY <1>3, <2>2, <2>3 DEF ReadOldNodes
<1>4. CASE WriteNodes(c)
  <2>1. PICK ok \in BOOLEAN :
          /\ Outcome(ok)
          /\ IF ok THEN Goto(c, "edges") /\ UNCHANGED <<snap, old>> ELSE Return(c)
          /\ disk' = [disk EXCEPT !.nodes = IF ok THEN snap[c].nodes ELSE @]
    BY <1>4 DEF WriteNodes
  <2>2. trouble' \in Nat
    BY <2>1 DEF Outcome, Failures
  <2>3. Table(snap[c].nodes, Node) /\ Table(disk.nodes, Node)
    BY DEF IsGraph
  <2>4. IsGraph(disk')
    BY <2>1, <2>3, NodesOf
  <2>5. QED BY <1>4, <2>1, <2>2, <2>4, ReturnType DEF WriteNodes
<1>5. CASE WriteEdges(c)
  <2>1. PICK ok \in BOOLEAN :
          /\ Outcome(ok)
          /\ IF ok THEN Return(c) ELSE Goto(c, "rollback") /\ UNCHANGED <<snap, old>>
          /\ disk' = [disk EXCEPT !.edges = IF ok THEN snap[c].edges ELSE @]
          /\ durable' = IF ok THEN snap[c] ELSE durable
          /\ torn' = (torn /\ ~ok)
    BY <1>5 DEF WriteEdges
  <2>2. trouble' \in Nat /\ torn' \in BOOLEAN
    BY <2>1 DEF Outcome, Failures
  <2>3. Table(snap[c].edges, Edge) /\ Table(disk.edges, Edge)
    BY DEF IsGraph
  <2>4. IsGraph(disk') /\ IsGraph(durable')
    BY <2>1, <2>3, EdgesOf
  <2>5. QED BY <1>5, <2>1, <2>2, <2>4, ReturnType DEF WriteEdges
<1>6. CASE Rollback(c)
  <2>1. PICK ok \in BOOLEAN :
          /\ Outcome(ok)
          /\ disk' = [disk EXCEPT !.nodes = IF ok THEN old[c] ELSE @]
          /\ durable' = IF ok THEN durable ELSE [durable EXCEPT !.nodes = snap[c].nodes]
          /\ torn' = (torn \/ (~ok /\ HalfDropped(c)))
    BY <1>6 DEF Rollback
  <2>2. trouble' \in Nat
    BY <2>1 DEF Outcome, Failures
  <2>3. torn' \in BOOLEAN
    BY <2>1
  <2>4. Table(snap[c].nodes, Node) /\ Table(disk.nodes, Node) /\ Table(old[c], Node)
    BY DEF IsGraph
  <2>5. IsGraph(disk') /\ IsGraph(durable')
    BY <2>1, <2>4, NodesOf
  <2>6. QED BY <1>6, <2>2, <2>3, <2>5, ReturnType DEF Rollback
<1>7. QED BY <1>1, <1>2, <1>3, <1>4, <1>5, <1>6 DEF StoreStep

LEMMA CrashType ==
  ASSUME TypeOK, Crash
  PROVE  TypeOK'
<1>1. Table(<<>>, Node)
  BY DEF Table
<1>2. torn' \in BOOLEAN
  BY DEF Crash
<1>3. trouble' \in Nat
  BY DEF TypeOK, Crash, Failures
<1>4. QED BY <1>1, <1>2, <1>3, NoGraphLoads DEF TypeOK, Crash, Steps

-----------------------------------------------------------------------------
(* The steps of the pass.                                                  *)

\* Two nodes that merge are two.
PlanInv == PlanTypeOK /\ \A m \in merges : m[1] # m[2]

\* A merge is of two nodes, whichever of them named the other.
LEMMA MergeEnds ==
  ASSUME NEW m \in Node \X Node, m[1] # m[2]
  PROVE  Earlier(m) \in Node /\ Later(m) \in Node /\ Earlier(m) # Later(m)
BY DEF Earlier, Later

LEMMA AliasOf ==
  ASSUME NEW S, NEW aka, NEW P \in AliasMerges(S, aka)
  PROVE  P \subseteq S \X S /\ \A m \in P : m[1] # m[2]
BY DEF AliasMerges

LEMMA LabelOf ==
  ASSUME NEW S
  PROVE  LabelMerges(S) \subseteq S \X S /\ \A m \in LabelMerges(S) : m[1] # m[2]
BY DEF LabelMerges

\* A consolidation step is a mutation of the store, or leaves it alone.
LEMMA PassMutates ==
  ASSUME PlanInv, PassStep
  PROVE  (Mutates(Worker) /\ UNCHANGED calls) \/ UNCHANGED vars
<1> USE DEF PlanInv, PlanTypeOK
<1>1. Worker \in Call
  BY DEF Call
<1>2. CASE Merge
  <2>1. PICK m \in merges : MergeNodes(Worker, Later(m), Earlier(m))
    BY <1>2 DEF Merge
  <2>2. Earlier(m) \in Node /\ Later(m) \in Node /\ Earlier(m) # Later(m)
    BY MergeEnds
  <2>3. QED BY <1>1, <1>2, <2>1, <2>2, MergeMutates DEF Merge
<1>3. CASE DeprecateEdges
  BY <1>1, <1>3, EdgesMutate DEF DeprecateEdges
<1>4. CASE DeprecateNodes
  BY <1>1, <1>4, NodesMutate DEF DeprecateNodes
<1>5. CASE QueryEdges \/ MergesDone \/ FetchEdges \/ FetchNodes \/ PassDone
  BY <1>5 DEF QueryEdges, MergesDone, FetchEdges, FetchNodes, PassDone
<1>6. QED BY <1>2, <1>3, <1>4, <1>5 DEF PassStep

\* The records of a query are records of the map.
LEMMA PageOf ==
  ASSUME NEW S, NEW T \in Pages(S) PROVE T \subseteq S
BY DEF Pages

LEMMA PlanStep ==
  ASSUME PlanInv, TypeOK', [Next]_all
  PROVE  PlanInv'
<1> USE DEF PlanInv, PlanTypeOK, plan, Enter, Phases, UnchangedPlan
<1>1. CASE QueryNodes
  <2>1. PICK S \in Pages(DOMAIN Loaded.nodes), aka \in Aka :
          LET seen == S \cap Active(Loaded.nodes)
          IN  /\ \E P \in AliasMerges(seen, aka) :
                   /\ merges' = P \cup LabelMerges(seen \ Absorbed(P))
                   /\ settled' = IF P = {} THEN settled ELSE 0
              /\ quiet' = /\ seen = Active(Loaded.nodes)
                          /\ \A c \in Client : pc[c] = "idle"
    BY <1>1 DEF QueryNodes
  <2> DEFINE seen == S \cap Active(Loaded.nodes)
  <2>20. PICK P \in AliasMerges(seen, aka) :
          /\ merges' = P \cup LabelMerges(seen \ Absorbed(P))
          /\ settled' = IF P = {} THEN settled ELSE 0
    BY <2>1
  <2>2. S \subseteq Node
    <3>1. DOMAIN Loaded.nodes \subseteq Node
      BY LoadedGraph DEF IsGraph, Table
    <3>2. QED BY <3>1, PageOf
  <2>3. merges' \subseteq Node \X Node /\ \A m \in merges' : m[1] # m[2]
    <3>1. seen \X seen \subseteq Node \X Node
      BY <2>2
    <3>2. QED BY <2>20, <3>1, AliasOf, LabelOf
  <2>4. quiet' \in BOOLEAN /\ settled' \in Nat
    BY <2>1, <2>20
  <2>5. passes' \in Nat /\ phase' = "edges" /\ UNCHANGED <<facts, ends>>
    BY <1>1 DEF QueryNodes
  <2>6. QED BY <2>3, <2>4, <2>5
<1>2. CASE QueryEdges
  <2>1. PICK S \in Pages(DOMAIN mem.edges) :
          LET seen == S \cap Active(mem.edges)
          IN  facts' = RetiredFacts(seen) \cup (S \ seen) /\ ends' = Superseded(seen)
    BY <1>2 DEF QueryEdges
  <2>2. S \subseteq Edge
    <3>1. DOMAIN mem.edges \subseteq Edge
      BY DEF TypeOK, IsGraph, Table
    <3>2. QED BY <3>1, PageOf
  <2>3. facts' \subseteq Edge /\ ends' \subseteq Node
    BY <2>1, <2>2 DEF RetiredFacts, Superseded, Edge
  <2>4. quiet' \in BOOLEAN
    BY <1>2 DEF QueryEdges
  <2>5. QED BY <1>2, <2>3, <2>4 DEF QueryEdges
<1>3. CASE Merge \/ MergesDone \/ FetchEdges \/ DeprecateEdges \/ FetchNodes \/ DeprecateNodes
  BY <1>3 DEF Merge, MergesDone, FetchEdges, DeprecateEdges, FetchNodes, DeprecateNodes
<1>4. CASE PassDone
  BY <1>4 DEF PassDone
<1>5. CASE ClientRequest \/ CrashAll
  <2>1. quiet' = FALSE /\ settled' = 0 /\ UNCHANGED passes
    BY <1>5 DEF ClientRequest, CrashAll, Disturb
  <2>2. \/ UNCHANGED <<phase, merges, facts, ends>>
        \/ phase' = "none" /\ merges' = {} /\ facts' = {} /\ ends' = {}
    BY <1>5 DEF ClientRequest, CrashAll
  <2>3. QED BY <2>1, <2>2
<1>6. ASSUME NEW c \in Call, CallStep(c) PROVE PlanInv'
  <2>1. quiet' \in BOOLEAN
    BY <1>6 DEF CallStep
  <2>2. QED BY <1>6, <2>1 DEF CallStep
<1>7. CASE UNCHANGED all
  BY <1>7 DEF all
<1>8. QED BY <1>1, <1>2, <1>3, <1>4, <1>5, <1>6, <1>7 DEF Next, PassStep, StoreCall

\* What a step of the whole does to the store: one of five things.
Hydrates == /\ CanLoad /\ mem' = Loaded /\ hydrated' = TRUE
            /\ UNCHANGED <<disk, control, history, calls, trouble>>

LEMMA StepKinds ==
  ASSUME PlanInv, [Next]_all
  PROVE  \/ \E c \in Call : Mutates(c) /\ calls' \in Nat
         \/ \E c \in Call : StoreStep(c)
         \/ Crash
         \/ Hydrates
         \/ UNCHANGED vars
<1> USE DEF PlanInv, PlanTypeOK
<1>1. CASE QueryNodes
  BY <1>1 DEF QueryNodes, Hydrates
<1>2. CASE PassStep
  BY <1>2, PassMutates DEF Call, TypeOK
<1>3. CASE ClientRequest
  <2>1. PICK c \in Client : Request(c)
    BY <1>3 DEF ClientRequest
  <2>2. c \in Call /\ calls' \in Nat
    BY <2>1 DEF Call, TypeOK, Request
  <2>3. QED BY <2>1, <2>2, RequestMutates
<1>4. CASE StoreCall \/ CrashAll
  BY <1>4 DEF StoreCall, CallStep, CrashAll
<1>5. CASE UNCHANGED all
  BY <1>5 DEF all
<1>6. QED BY <1>1, <1>2, <1>3, <1>4, <1>5 DEF Next

LEMMA PlanInvStep ==
  ASSUME PlanInv, [Next]_all
  PROVE  PlanInv'
<1>1. TypeOK
  BY DEF PlanInv, PlanTypeOK
<1>2. CASE Hydrates \/ UNCHANGED vars
  <2>1. TypeOK'
    BY <1>1, <1>2, LoadedGraph DEF TypeOK, Hydrates, vars, store, control, history
  <2>2. QED BY <2>1, PlanStep
<1>3. CASE \/ \E c \in Call : Mutates(c) /\ calls' \in Nat
           \/ \E c \in Call : StoreStep(c)
           \/ Crash
  BY <1>1, <1>3, MutationType, CallType, CrashType, PlanStep
<1>4. QED BY <1>2, <1>3, StepKinds

LEMMA PlanInvInit ==
  ASSUME InitAll PROVE PlanInv
<1>1. IsGraph(disk)
  BY StoredAssumption DEF InitAll, Init
<1>2. Table(<<>>, Node)
  BY DEF Table
<1>3. QED BY <1>1, <1>2, NoGraphLoads DEF InitAll, Init, PlanInv, PlanTypeOK, TypeOK, Steps, Phases

\* The store and the pass keep their types.
THEOREM TypeCorrect == Spec => []PlanTypeOK
<1>1. PlanInv => PlanTypeOK
  BY DEF PlanInv
<1>2. QED BY <1>1, PlanInvInit, PlanInvStep, PTL DEF Spec

-----------------------------------------------------------------------------
(* The graph and its files, while calls do not overlap.                    *)

Persisting == {"read", "nodes", "edges", "rollback"}
Half == {"edges", "rollback"}
Alone == \A c, d \in Call : pc[c] # "idle" /\ pc[d] # "idle" => c = d

\* What a call may rely on at each of its steps.
Turn(c) ==
  /\ pc[c] = "drop" => gap[c] \in Node /\ Touching(mem, gap[c]) = {}
  /\ pc[c] \in Persisting => Loadable(snap[c])
  /\ pc[c] = "nodes" => old[c] = durable.nodes
  /\ pc[c] \in Half => /\ disk = [nodes |-> snap[c].nodes, edges |-> durable.edges]
                       /\ old[c] = durable.nodes

InTurn ==
  /\ Alone /\ Loadable(mem)
  /\ \A c \in Call : Turn(c)
  /\ (\A c \in Call : pc[c] \notin Half) => disk = durable
  /\ ~torn => Loadable(durable)

StoreInv == (~hydrated => AtRest) /\ (~overlapped => InTurn)

LEMMA Halves ==
  ASSUME NEW g, IsGraph(g), NEW h, IsGraph(h)
  PROVE  /\ [g EXCEPT !.nodes = h.nodes] = [nodes |-> h.nodes, edges |-> g.edges]
         /\ [g EXCEPT !.edges = h.edges] = [nodes |-> g.nodes, edges |-> h.edges]
         /\ g = [nodes |-> g.nodes, edges |-> g.edges]
BY DEF IsGraph

\* A mutation leaves a graph that loads, and nobody else under way.
LEMMA MutationTurn ==
  ASSUME TypeOK, StoreInv, NEW c \in Call, Mutates(c)
  PROVE  StoreInv'
<1>1. PICK g, step : Mutation(c, g, step)
  BY DEF Mutates
<1>2. /\ pc[c] = "idle" /\ mem' = g /\ hydrated' = TRUE /\ pc' = [pc EXCEPT ![c] = step]
      /\ CanLoad /\ UNCHANGED <<disk, snap, old, durable, torn>>
  BY <1>1 DEF Mutation, Change
<1>3. ASSUME ~overlapped' PROVE InTurn'
  <2>1. overlapped' = (overlapped \/ Busy(c))
    BY <1>1 DEF Mutation, Change
  <2>2. ~overlapped /\ ~Busy(c)
    BY <1>3, <2>1, Zenon
  <2>3. InTurn /\ \A d \in Call : pc[d] = "idle"
    BY <1>2, <2>2 DEF StoreInv, Busy
  <2>4. \A d \in Call \ {c} : pc'[d] = "idle"
    BY <1>2, <2>3 DEF TypeOK
  <2>5. pc'[c] = step /\ step \in {"idle", "export", "drop"}
    BY <1>1, <1>2 DEF TypeOK, Mutation
  <2>6. Loadable(mem')
    <3>1. Loadable(Loaded)
      BY <1>2, <2>3 DEF InTurn, CanLoad, Loaded
    <3>2. QED BY <1>1, <1>2, <3>1 DEF Mutation
  <2>7. step = "drop" => gap'[c] \in Node /\ Touching(mem', gap'[c]) = {}
    BY <1>1, <1>2 DEF TypeOK, Mutation
  <2>8. Alone'
    BY <2>4 DEF Alone
  <2>9. ASSUME NEW d \in Call PROVE Turn(d)'
    BY <2>4, <2>5, <2>7 DEF Turn, Persisting, Half
  <2>10. disk' = durable' /\ (~torn' => Loadable(durable'))
    BY <1>2, <2>3 DEF InTurn, Half
  <2>11. QED BY <2>6, <2>8, <2>9, <2>10 DEF InTurn
<1>4. QED BY <1>2, <1>3 DEF StoreInv

\* Only the call under way matters.
LEMMA CallAlone ==
  ASSUME TypeOK, InTurn, NEW c \in Call, pc[c] # "idle", NEW step,
         pc' = [pc EXCEPT ![c] = step]
  PROVE  /\ Alone' /\ pc'[c] = step
         /\ \A d \in Call \ {c} : pc[d] = "idle" /\ pc'[d] = "idle" /\ Turn(d)'
<1>1. \A d \in Call \ {c} : pc[d] = "idle"
  BY DEF InTurn, Alone
<1>2. pc'[c] = step /\ \A d \in Call \ {c} : pc'[d] = "idle"
  BY <1>1 DEF TypeOK
<1>3. QED BY <1>1, <1>2 DEF Alone, Turn, Persisting, Half

LEMMA CallTurn ==
  ASSUME TypeOK, InTurn, NEW c \in Call, StoreStep(c)
  PROVE  InTurn'
<1> USE DEF TypeOK, store, control, history, Goto
<1>0. Turn(c) /\ (\A d \in Call \ {c} : pc[d] = "idle")
  BY DEF InTurn, Alone, StoreStep, DropSource, ExportSnapshot, ReadOldNodes, WriteNodes,
         WriteEdges, Rollback
<1>1. CASE DropSource(c)
  <2>1. pc[c] = "drop" /\ pc' = [pc EXCEPT ![c] = "export"]
        /\ UNCHANGED <<disk, snap, old, durable, torn>>
    BY <1>1 DEF DropSource
  <2>2. Loadable(mem')
    <3> DEFINE f == Without(mem.nodes, {gap[c]})
    <3>0. Table(mem.nodes, Node)
      BY DEF IsGraph
    <3>1. Table(f, Node) /\ DOMAIN f = DOMAIN mem.nodes \ {gap[c]}
      BY <3>0, WithoutTable
    <3>2. mem' = [mem EXCEPT !.nodes = f]
      BY <1>1 DEF DropSource
    <3> HIDE DEF f
    <3>3. mem'.edges = mem.edges /\ DOMAIN mem'.nodes = DOMAIN mem.nodes \ {gap[c]}
      BY <3>1, <3>2, NodesOf
    <3>4. QED BY <1>0, <2>1, <3>3 DEF InTurn, Loadable, Turn, Touching
  <2>3. Alone' /\ pc'[c] = "export" /\ \A d \in Call \ {c} : Turn(d)' /\ pc'[d] = "idle"
    BY <2>1, CallAlone
  <2>4. Turn(c)'
    BY <2>3 DEF Turn, Persisting, Half
  <2>5. disk = durable
    BY <1>0, <2>1 DEF InTurn, Half
  <2>6. QED BY <2>1, <2>2, <2>3, <2>4, <2>5 DEF InTurn
<1>2. CASE ExportSnapshot(c)
  <2>1. /\ pc[c] = "export" /\ pc' = [pc EXCEPT ![c] = "read"] /\ snap'[c] = mem
        /\ UNCHANGED <<disk, mem, durable, torn>>
    BY <1>2 DEF ExportSnapshot, Locals
  <2>2. Alone' /\ pc'[c] = "read" /\ \A d \in Call \ {c} : Turn(d)' /\ pc'[d] = "idle"
    BY <2>1, CallAlone
  <2>3. Turn(c)'
    BY <2>1, <2>2 DEF InTurn, Turn, Persisting, Half
  <2>4. disk = durable
    BY <1>0, <2>1 DEF InTurn, Half
  <2>5. QED BY <2>1, <2>2, <2>3, <2>4 DEF InTurn
<1>3. ASSUME Return(c), pc[c] # "idle", UNCHANGED mem, disk' = durable',
             ~torn' => Loadable(durable')
      PROVE  InTurn'
  <2>1. pc' = [pc EXCEPT ![c] = "idle"]
    BY <1>3 DEF Return
  <2>2. Alone' /\ pc'[c] = "idle" /\ \A d \in Call \ {c} : Turn(d)'
    BY <1>3, <2>1, CallAlone
  <2>3. Turn(c)'
    BY <2>2 DEF Turn, Persisting, Half
  <2>4. QED BY <1>3, <2>2, <2>3 DEF InTurn
<1>4. CASE ReadOldNodes(c)
  <2>1. pc[c] = "read" /\ UNCHANGED <<disk, mem, durable, torn>>
    BY <1>4 DEF ReadOldNodes
  <2>2. disk = durable /\ (~torn => Loadable(durable)) /\ Loadable(snap[c])
    BY <1>0, <2>1 DEF InTurn, Half, Turn, Persisting
  <2>3. CASE Return(c)
    BY <1>3, <2>1, <2>2, <2>3
  <2>4. CASE Goto(c, "nodes") /\ Locals(c, snap[c], disk.nodes)
    <3>1. Alone' /\ pc'[c] = "nodes" /\ \A d \in Call \ {c} : Turn(d)' /\ pc'[d] = "idle"
      BY <2>1, <2>4, CallAlone
    <3>2. snap'[c] = snap[c] /\ old'[c] = disk.nodes
      BY <2>4 DEF Locals
    <3>3. Turn(c)'
      BY <2>1, <2>2, <3>1, <3>2 DEF Turn, Persisting, Half
    <3>4. QED BY <2>1, <2>2, <3>1, <3>3 DEF InTurn
  <2>5. QED BY <1>4, <2>3, <2>4 DEF ReadOldNodes
<1>5. CASE WriteNodes(c)
  <2>1. PICK ok \in BOOLEAN :
          /\ IF ok THEN Goto(c, "edges") /\ UNCHANGED <<snap, old>> ELSE Return(c)
          /\ disk' = [disk EXCEPT !.nodes = IF ok THEN snap[c].nodes ELSE @]
    BY <1>5 DEF WriteNodes
  <2>2. pc[c] = "nodes" /\ UNCHANGED <<mem, durable, torn>>
    BY <1>5 DEF WriteNodes
  <2>3. disk = durable /\ Loadable(snap[c]) /\ old[c] = durable.nodes
        /\ (~torn => Loadable(durable))
    BY <1>0, <2>2 DEF InTurn, Half, Turn, Persisting
  <2>4. CASE ~ok
    <3>1. disk' = disk
      BY <2>1, <2>4, Halves
    <3>2. QED BY <1>3, <2>1, <2>2, <2>3, <2>4, <3>1
  <2>5. CASE ok
    <3>1. disk' = [nodes |-> snap[c].nodes, edges |-> durable.edges]
      BY <2>1, <2>3, <2>5, Halves
    <3>2. Alone' /\ pc'[c] = "edges" /\ \A d \in Call \ {c} : Turn(d)' /\ pc'[d] = "idle"
      BY <2>1, <2>2, <2>5, CallAlone
    <3>3. UNCHANGED <<snap, old>>
      BY <2>1, <2>5
    <3>4. Turn(c)'
      BY <2>2, <2>3, <3>1, <3>2, <3>3 DEF Turn, Persisting, Half
    <3>5. QED BY <2>2, <2>3, <3>2, <3>4 DEF InTurn, Half
  <2>6. QED BY <2>4, <2>5
<1>6. CASE WriteEdges(c)
  <2>1. PICK ok \in BOOLEAN :
          /\ IF ok THEN Return(c) ELSE Goto(c, "rollback") /\ UNCHANGED <<snap, old>>
          /\ disk' = [disk EXCEPT !.edges = IF ok THEN snap[c].edges ELSE @]
          /\ durable' = IF ok THEN snap[c] ELSE durable
          /\ torn' = (torn /\ ~ok)
    BY <1>6 DEF WriteEdges
  <2>2. pc[c] = "edges" /\ UNCHANGED mem
    BY <1>6 DEF WriteEdges
  <2>3. /\ disk = [nodes |-> snap[c].nodes, edges |-> durable.edges]
        /\ Loadable(snap[c]) /\ old[c] = durable.nodes
    BY <1>0, <2>2 DEF Turn, Half, Persisting
  <2>4. CASE ok
    <3>0. /\ disk' = [disk EXCEPT !.edges = snap[c].edges]
          /\ IsGraph(disk) /\ IsGraph(snap[c])
      BY <2>1, <2>4
    <3>1. disk' = snap[c]
      <4>1. disk' = [nodes |-> disk.nodes, edges |-> snap[c].edges]
        BY <3>0, Halves
      <4>2. snap[c] = [nodes |-> snap[c].nodes, edges |-> snap[c].edges]
        BY <3>0, Halves
      <4>3. disk.nodes = snap[c].nodes
        BY <2>3
      <4>4. QED BY <4>1, <4>2, <4>3
    <3>2. durable' = snap[c]
      BY <2>1, <2>4
    <3>3. QED BY <1>3, <2>1, <2>2, <2>3, <2>4, <3>1, <3>2
  <2>5. CASE ~ok
    <3>1. disk' = disk /\ durable' = durable /\ torn' = torn /\ UNCHANGED <<snap, old>>
      BY <2>1, <2>5, Halves
    <3>2. Alone' /\ pc'[c] = "rollback" /\ \A d \in Call \ {c} : Turn(d)' /\ pc'[d] = "idle"
      BY <2>1, <2>2, <2>5, CallAlone
    <3>3. Turn(c)'
      BY <2>3, <3>1, <3>2 DEF Turn, Persisting, Half
    <3>4. QED BY <2>2, <3>1, <3>2, <3>3 DEF InTurn, Half
  <2>6. QED BY <2>4, <2>5
<1>7. CASE Rollback(c)
  <2>1. PICK ok \in BOOLEAN :
          /\ disk' = [disk EXCEPT !.nodes = IF ok THEN old[c] ELSE @]
          /\ durable' = IF ok THEN durable ELSE [durable EXCEPT !.nodes = snap[c].nodes]
          /\ torn' = (torn \/ (~ok /\ HalfDropped(c)))
    BY <1>7 DEF Rollback
  <2>2. pc[c] = "rollback" /\ Return(c) /\ UNCHANGED mem
    BY <1>7 DEF Rollback
  <2>3. /\ disk = [nodes |-> snap[c].nodes, edges |-> durable.edges]
        /\ old[c] = durable.nodes /\ (~torn => Loadable(durable))
    BY <1>0, <2>2 DEF InTurn, Turn, Half
  <2>4. CASE ok
    <3>0. disk' = [disk EXCEPT !.nodes = durable.nodes] /\ IsGraph(disk) /\ IsGraph(durable)
      BY <2>1, <2>3, <2>4
    <3>1. disk' = durable /\ durable' = durable
      <4>1. disk' = [nodes |-> durable.nodes, edges |-> disk.edges]
        BY <3>0, Halves
      <4>2. durable = [nodes |-> durable.nodes, edges |-> durable.edges]
        BY <3>0, Halves
      <4>3. disk.edges = durable.edges
        BY <2>3
      <4>4. QED BY <2>1, <2>4, <4>1, <4>2, <4>3
    <3>2. ~torn' => ~torn
      BY <2>1, Zenon
    <3>3. QED BY <1>3, <2>2, <2>3, <3>1, <3>2
  <2>5. CASE ~ok
    <3>1. disk' = disk /\ durable' = [nodes |-> snap[c].nodes, edges |-> durable.edges]
      BY <2>1, <2>3, <2>5, Halves
    <3>2. ~torn' => ~torn /\ ~HalfDropped(c)
      BY <2>1, <2>5, Zenon
    <3>3. ~torn' => Loadable(durable')
      BY <2>2, <2>3, <3>1, <3>2 DEF HalfDropped, Loadable
    <3>4. QED BY <1>3, <2>2, <2>3, <3>1, <3>3
  <2>6. QED BY <2>4, <2>5
<1>8. QED BY <1>1, <1>2, <1>4, <1>5, <1>6, <1>7 DEF StoreStep

\* A process that dies leaves a pair that loads unless it was dropping nodes.
LEMMA CrashTurn ==
  ASSUME TypeOK, InTurn, Crash
  PROVE  InTurn'
<1>1. /\ mem' = NoGraph /\ pc' = [c \in Call |-> "idle"] /\ durable' = disk /\ disk' = disk
      /\ torn' = (torn \/ \E c \in Call : HalfDropped(c))
  BY DEF Crash
<1>2. ~torn' => ~torn /\ \A c \in Call : ~HalfDropped(c)
  BY <1>1, Zenon
<1>3. ASSUME ~torn' PROVE Loadable(disk)
  <2>1. CASE \A c \in Call : pc[c] \notin Half
    BY <1>2, <1>3, <2>1 DEF InTurn
  <2>2. ASSUME NEW c \in Call, pc[c] \in Half PROVE Loadable(disk)
    <3>1. disk = [nodes |-> snap[c].nodes, edges |-> durable.edges]
      BY <2>2 DEF InTurn, Turn
    <3>2. DOMAIN durable.nodes \subseteq DOMAIN snap[c].nodes /\ Loadable(durable)
      BY <1>2, <1>3, <2>2 DEF HalfDropped, Half, InTurn
    <3>3. QED BY <3>1, <3>2 DEF Loadable
  <2>3. QED BY <2>1, <2>2
<1>4. QED BY <1>1, <1>3, NoGraphLoads DEF InTurn, Alone, Turn, Persisting, Half

LEMMA StoreInvStep ==
  ASSUME PlanInv, StoreInv, [Next]_all
  PROVE  StoreInv'
<1>0. TypeOK
  BY DEF PlanInv, PlanTypeOK
<1>1. ASSUME NEW c \in Call, Mutates(c) PROVE StoreInv'
  BY <1>0, <1>1, MutationTurn
<1>2. ASSUME NEW c \in Call, StoreStep(c) PROVE StoreInv'
  <2>1. UNCHANGED <<hydrated, overlapped>> /\ pc[c] # "idle"
    BY <1>2 DEF StoreStep, DropSource, ExportSnapshot, ReadOldNodes, WriteNodes, WriteEdges,
                Rollback, store, history
  <2>2. hydrated
    BY <2>1 DEF StoreInv, AtRest
  <2>3. QED BY <1>0, <1>2, <2>1, <2>2, CallTurn DEF StoreInv
<1>3. CASE Crash
  <2>1. AtRest' /\ UNCHANGED overlapped
    BY <1>3 DEF Crash, AtRest
  <2>2. QED BY <1>0, <1>3, <2>1, CrashTurn DEF StoreInv
<1>4. CASE Hydrates
  <2>1. UNCHANGED <<disk, pc, gap, snap, old, durable, overlapped, torn>> /\ hydrated' = TRUE
    BY <1>4 DEF Hydrates, control, history
  <2>2. CASE hydrated
    <3>1. mem' = mem
      BY <1>4, <2>2 DEF Hydrates, Loaded
    <3>2. QED BY <2>1, <3>1 DEF StoreInv, InTurn, Alone, Turn
  <2>3. CASE ~hydrated
    <3>1. AtRest /\ Loadable(mem')
      BY <1>4, <2>3 DEF Hydrates, Loaded, CanLoad, StoreInv
    <3>2. ASSUME NEW c \in Call PROVE Turn(c)'
      BY <2>1, <3>1 DEF AtRest, Turn, Persisting, Half
    <3>3. QED BY <2>1, <3>1, <3>2 DEF StoreInv, InTurn, Alone
  <2>4. QED BY <2>2, <2>3
<1>5. CASE UNCHANGED vars
  BY <1>5 DEF vars, store, control, history, StoreInv, AtRest, InTurn, Alone, Turn
<1>6. QED BY <1>1, <1>2, <1>3, <1>4, <1>5, StepKinds

LEMMA StoreInvInit ==
  ASSUME InitAll PROVE StoreInv
<1>1. Loadable(disk)
  BY StoredAssumption DEF InitAll, Init
<1>2. QED BY <1>1, NoGraphLoads DEF InitAll, Init, StoreInv, AtRest, InTurn, Alone, Turn,
             Persisting, Half

\* No edge in memory lacks a node while calls do not overlap.
THEOREM EdgesKeepNodes == Spec => []EndsExist
<1>1. StoreInv => EndsExist
  BY DEF StoreInv, InTurn, EndsExist
<1>2. QED BY <1>1, PlanInvInit, PlanInvStep, StoreInvInit, StoreInvStep, PTL DEF Spec

\* The files load when no call is under way, whatever failed or died, unless a
\* persist that dropped nodes stopped between its two writes.
THEOREM PairLoads == Spec => []FilesLoad
<1>1. StoreInv => FilesLoad
  BY DEF StoreInv, InTurn, FilesLoad, AtRest, Half
<1>2. QED BY <1>1, PlanInvInit, PlanInvStep, StoreInvInit, StoreInvStep, PTL DEF Spec

\* The files are the old pair or the new one when no call is under way.
THEOREM AllOrNothing == Spec => []OldOrNew
<1>1. StoreInv => OldOrNew
  BY DEF StoreInv, InTurn, OldOrNew, AtRest, Half
<1>2. QED BY <1>1, PlanInvInit, PlanInvStep, StoreInvInit, StoreInvStep, PTL DEF Spec

-----------------------------------------------------------------------------
(* Merges.                                                                 *)

\* The edges that a merge moves stand for the facts they stood for.
LEMMA MovedFacts ==
  ASSUME NEW g, IsGraph(g), NEW s \in Node, NEW t \in Node, s # t, NEW e \in DOMAIN g.edges
  PROVE  Ends(e) = {s, t} \/ Origin(e) \in Facts(Moved(g, s, t))
<1>1. e \in Edge
  BY DEF IsGraph, Table
<1>2. DOMAIN Moved(g, s, t).edges
        = (DOMAIN g.edges \ Touching(g, s)) \cup {Rewire(d, s, t) : d \in Kept(g, s, t)}
  BY MovedGraph
<1>3. CASE e \notin Touching(g, s)
  <2>1. e \in DOMAIN Moved(g, s, t).edges
    BY <1>2, <1>3
  <2>2. QED BY <2>1 DEF Facts
<1>4. CASE e \in Kept(g, s, t)
  <2>1. Rewire(e, s, t) \in DOMAIN Moved(g, s, t).edges
    BY <1>2, <1>4
  <2>2. Origin(Rewire(e, s, t)) = Origin(e)
    BY <1>1, RewireEdge
  <2>3. QED BY <2>1, <2>2 DEF Facts
<1>5. CASE e \in Touching(g, s) /\ e \notin Kept(g, s, t)
  <2>1. s \in Ends(e) /\ t \in Ends(e)
    BY <1>5 DEF Touching, Kept
  <2>2. QED BY <2>1 DEF Ends
<1>6. QED BY <1>3, <1>4, <1>5

\* A merge that yields was asked for by somebody, and moved the edges.
LEMMA MergeKeeps ==
  ASSUME TypeOK, NEW c \in Call, NEW s \in Node, NEW t \in Node, s # t,
         MergeNodes(c, s, t), NEW d \in Call, pc[d] = "idle", pc'[d] = "drop"
  PROVE  gap'[d] = s /\ mem' = Moved(Loaded, s, t)
<1>1. CASE Change(c, Moved(Loaded, s, t), "drop") /\ gap' = [gap EXCEPT ![c] = s]
  BY <1>1 DEF TypeOK, Change
<1>2. CASE Change(c, Unlinked(Loaded, s), "idle") \/ Change(c, Loaded, "idle")
           \/ DeleteNode(c, s)
  BY <1>2 DEF TypeOK, Change, DeleteNode
<1>3. QED BY <1>1, <1>2 DEF MergeNodes

\* Nothing else takes a call there.
LEMMA OnlyMergesYield ==
  ASSUME PlanInv, [Next]_all, NEW d \in Call, pc[d] = "idle", pc'[d] = "drop"
  PROVE  \E c \in Call, s, t \in Node : s # t /\ MergeNodes(c, s, t)
<1> USE DEF PlanInv, PlanTypeOK, TypeOK
<1>1. ASSUME NEW c \in Call, NEW g, NEW step, step # "drop", Change(c, g, step) PROVE FALSE
  BY <1>1 DEF Change
<1>2. CASE Merge
  <2>1. PICK m \in merges : MergeNodes(Worker, Later(m), Earlier(m))
    BY <1>2 DEF Merge
  <2>2. Earlier(m) \in Node /\ Later(m) \in Node /\ Earlier(m) # Later(m)
    BY MergeEnds
  <2>3. QED BY <2>1, <2>2 DEF Call
<1>3. CASE PassStep /\ ~Merge
  BY <1>1, <1>3 DEF PassStep, QueryEdges, MergesDone, FetchEdges, DeprecateEdges, FetchNodes,
     DeprecateNodes, PassDone, RetireEdges, RetireNodes, vars, control, Call
<1>4. ASSUME NEW c \in Client, Request(c)
      PROVE  \E s, t \in Node : s # t /\ MergeNodes(c, s, t)
  <2>1. c \in Call
    BY DEF Call
  <2>2. QED BY <1>1, <1>4, <2>1 DEF Request, UpsertNodes, RetireNodes, DeleteNode, UpsertEdges,
                                    DeleteEdges, ImportSnapshot
<1>5. ASSUME NEW c \in Call, StoreStep(c) PROVE FALSE
  BY <1>5 DEF StoreStep, DropSource, ExportSnapshot, ReadOldNodes, WriteNodes, WriteEdges,
              Rollback, Return, Goto
<1>6. CASE QueryNodes \/ CrashAll \/ UNCHANGED all
  BY <1>6 DEF QueryNodes, CrashAll, Crash, all, vars, control
<1>7. CASE ClientRequest
  BY <1>4, <1>7 DEF ClientRequest, Call
<1>8. QED BY <1>2, <1>3, <1>5, <1>6, <1>7 DEF Next, StoreCall, CallStep

\* A merge loses no fact about a third node.
THEOREM MergesLoseNothing == Spec => MergeKeepsFacts
<1> DEFINE A == \A s \in Node : MergeStarts(s) =>
                  \E t \in Node \ {s} : \A e \in DOMAIN Loaded.edges :
                    Ends(e) = {s, t} \/ Origin(e) \in Facts(mem')
<1>1. PlanInv /\ [Next]_all => [A]_all
  <2> SUFFICES ASSUME PlanInv, [Next]_all, NEW n \in Node, MergeStarts(n)
               PROVE  \E t \in Node \ {n} : \A e \in DOMAIN Loaded.edges :
                        Ends(e) = {n, t} \/ Origin(e) \in Facts(mem')
    OBVIOUS
  <2>0. TypeOK /\ IsGraph(Loaded)
    BY LoadedGraph DEF PlanInv, PlanTypeOK
  <2>1. PICK d \in Call : pc[d] = "idle" /\ pc'[d] = "drop" /\ gap'[d] = n
    BY DEF MergeStarts
  <2>2. PICK c \in Call, s \in Node, t \in Node : s # t /\ MergeNodes(c, s, t)
    BY <2>1, OnlyMergesYield
  <2>3. n = s /\ mem' = Moved(Loaded, s, t)
    BY <2>0, <2>1, <2>2, MergeKeeps
  <2>4. QED BY <2>0, <2>2, <2>3, MovedFacts
<1>2. QED BY <1>1, PlanInvInit, PlanInvStep, PTL DEF Spec, MergeKeepsFacts
-----------------------------------------------------------------------------
(* What two passes achieve.  First the plan as a function of the graph.    *)

\* A set of node ids has a smallest one.
LEMMA Least ==
  ASSUME NEW A \in SUBSET Nat, A # {}
  PROVE  \E m \in A : \A n \in A : m <= n
<1> DEFINE R == {p \in Nat \X Nat : p[1] < p[2]}
<1>1. IsWellFoundedOn(R, Nat)
  BY NatLessThanWellFounded DEF OpToRel
<1>2. \A m, n \in Nat : m < n => <<m, n>> \in R
  <2> SUFFICES ASSUME NEW m \in Nat, NEW n \in Nat, m < n PROVE <<m, n>> \in R
    OBVIOUS
  <2>1. <<m, n>> \in Nat \X Nat /\ <<m, n>>[1] < <<m, n>>[2]
    OBVIOUS
  <2>2. QED BY <2>1, Zenon
<1> HIDE DEF R
<1>3. PICK m \in A : \A n \in A : ~(<<n, m>> \in R)
  BY <1>1, WFMin
<1>4. ASSUME NEW n \in A PROVE m <= n
  <2>1. ~(n < m) /\ m \in Nat /\ n \in Nat
    BY <1>2, <1>3
  <2>2. QED BY <2>1
<1>5. QED BY <1>4

\* One node per label
Distinct(A) == \A m, n \in A : labelOf[m] = labelOf[n] => m = n

\* Of two active nodes under one label, some merge of the plan absorbs one.
Planned(A, M) ==
  \A m, n \in A : m # n /\ labelOf[m] = labelOf[n] => \E p \in M : Later(p) \in {m, n}

LEMMA NoLabelMerges ==
  ASSUME NEW A, Distinct(A), NEW B \in SUBSET A PROVE LabelMerges(B) = {}
BY DEF Distinct, LabelMerges

LEMMA LabelsPlanned ==
  ASSUME NEW A \in SUBSET Node, NEW P
  PROVE  Planned(A, P \cup LabelMerges(A \ Absorbed(P)))
<1> SUFFICES ASSUME NEW m \in A, NEW n \in A, m # n, labelOf[m] = labelOf[n]
             PROVE  \E p \in P \cup LabelMerges(A \ Absorbed(P)) : Later(p) \in {m, n}
  BY DEF Planned
<1>1. CASE m \in Absorbed(P) \/ n \in Absorbed(P)
  BY <1>1 DEF Absorbed
<1>2. CASE m \notin Absorbed(P) /\ n \notin Absorbed(P)
  <2> DEFINE B == A \ Absorbed(P)
             C == {k \in B : labelOf[k] = labelOf[m]}
  <2>1. C \in SUBSET Nat /\ C # {} /\ B \subseteq Nat
    BY <1>2, NodeAssumption
  <2>2. PICK t \in C : \A k \in C : t <= k
    <3> HIDE DEF C
    <3>1. QED BY <2>1, Least
  <2>3. PICK s \in {m, n} : s # t
    OBVIOUS
  <2>4. s \in B /\ t \in B /\ labelOf[s] = labelOf[m] /\ labelOf[t] = labelOf[m] /\ t <= s
    BY <1>2, <2>2, <2>3
  <2>5. \A k \in B : labelOf[k] = labelOf[t] => t <= k
    BY <2>2, <2>4
  <2>6. <<t, s>> \in B \X B /\ <<t, s>>[1] = t /\ <<t, s>>[2] = s
    BY <2>4
  <2>7. <<t, s>> \in LabelMerges(B)
    BY <2>3, <2>4, <2>5, <2>6 DEF LabelMerges
  <2>8. Later(<<t, s>>) = s
    BY <2>1, <2>3, <2>4 DEF Later
  <2>9. QED BY <2>3, <2>7, <2>8
<1>3. QED BY <1>1, <1>2

\* A merge that was made leaves the rest of the plan for the rest of the nodes.
LEMMA StillPlanned ==
  ASSUME NEW A, NEW M, Planned(A, M), NEW m \in M
  PROVE  Planned(A \ {Later(m)}, M \ {m})
BY DEF Planned

\* Retiring what the plan names leaves no fact to retire; no retirement makes one.
LEMMA RetiredAll ==
  ASSUME NEW A \in SUBSET Edge
  PROVE  /\ Superseded(A \ RetiredFacts(A)) = Superseded(A)
         /\ RetiredFacts(A \ RetiredFacts(A)) = {}
<1>1. \A e \in RetiredFacts(A) : e.type # Supersedes
  BY DEF RetiredFacts
<1>2. Superseded(A \ RetiredFacts(A)) = Superseded(A)
  BY <1>1 DEF Superseded
<1>3. QED BY <1>2 DEF RetiredFacts

LEMMA FewerFacts ==
  ASSUME NEW B, NEW A \in SUBSET B
  PROVE  /\ Superseded(A) \subseteq Superseded(B)
         /\ RetiredFacts(A) \subseteq RetiredFacts(B)
BY DEF Superseded, RetiredFacts

LEMMA ActiveLess ==
  ASSUME NEW f, NEW S
  PROVE  /\ Active(Retire(f, S)) = Active(f) \ S
         /\ Active(Without(f, S)) = Active(f) \ S
BY DEF Active, Retire, Without

-----------------------------------------------------------------------------
(* The passes.                                                             *)

\* A pass that sees everything is under way, or one has ended since the graph
\* was last disturbed.
Calm == (quiet /\ phase # "none") \/ settled # 0

Nodes == Active(mem.nodes)
Edges == Active(mem.edges)

\* The pass is then the only caller, and it merges in its merge phase only.
OnlyPass ==
  /\ Calm => hydrated /\ \A c \in Client : pc[c] = "idle"
  /\ IF pc[Worker] = "drop" THEN phase = "merge" ELSE gap[Worker] = None
  /\ phase \notin {"edges", "merge"} => merges = {}

\* The plan has a merge for every pair that is still to merge.
DupInv ==
  /\ quiet /\ phase \in {"edges", "merge"} => Planned(Nodes \ {gap[Worker]}, merges)
  /\ quiet /\ phase \notin {"none", "edges", "merge"} => Distinct(Nodes)
  /\ settled # 0 => merges = {} /\ Distinct(Nodes)

\* In a pass without merges it has every fact and node that is still to retire.
RetireInv ==
  settled # 0 /\ ~overlapped =>
    /\ quiet /\ phase \in {"merge", "facts", "fetched"} =>
         facts \cap Edges = RetiredFacts(Edges) /\ ends = Superseded(Edges)
    /\ quiet /\ phase = "fetched" => facts \subseteq DOMAIN mem.edges
    /\ quiet /\ phase \in {"ends", "found", "last"} => RetiredFacts(Edges) = {}
    /\ quiet /\ phase = "ends" => ends = Superseded(Edges)
    /\ quiet /\ phase = "found" => ends = Superseded(Edges) \cap DOMAIN mem.nodes
    /\ quiet /\ phase = "last" => Superseded(Edges) \cap Nodes = {}
    /\ settled # 1 => RetiredFacts(Edges) = {} /\ Superseded(Edges) \cap Nodes = {}

CleanInv == OnlyPass /\ DupInv /\ RetireInv

\* The steps of a store call that has changed the maps
LEMMA CallGoesOn ==
  ASSUME TypeOK, NEW c \in Call, StoreStep(c)
  PROVE  /\ pc[c] # "idle" /\ UNCHANGED <<hydrated, overlapped>>
         /\ \A d \in Call \ {c} : pc'[d] = pc[d] /\ gap'[d] = gap[d]
         /\ \/ /\ pc[c] = "drop" /\ pc'[c] # "drop" /\ gap'[c] = None
               /\ mem' = [mem EXCEPT !.nodes = Without(@, {gap[c]})]
            \/ pc[c] # "drop" /\ pc'[c] # "drop" /\ UNCHANGED <<mem, gap>>
<1> USE DEF TypeOK
<1>1. CASE DropSource(c)
  BY <1>1 DEF DropSource, history
<1>2. CASE ~DropSource(c)
  BY <1>2 DEF StoreStep, ExportSnapshot, ReadOldNodes, WriteNodes, WriteEdges, Rollback,
              Return, Goto, store, history
<1>3. QED BY <1>1, <1>2

\* A mutator touches its own call, which has nothing to drop unless it merges.
LEMMA OwnCall ==
  ASSUME TypeOK, NEW c \in Call, Mutates(c)
  PROVE  /\ hydrated' = TRUE /\ pc[c] = "idle"
         /\ \A d \in Call \ {c} : pc'[d] = pc[d] /\ gap'[d] = gap[d]
         /\ pc'[c] # "drop" => gap'[c] = gap[c]
<1>1. PICK g, step : Mutation(c, g, step)
  BY DEF Mutates
<1>2. QED BY <1>1 DEF Mutation, Change, TypeOK

LEMMA OnlyPassNext ==
  ASSUME PlanInv, OnlyPass, [Next]_all
  PROVE  OnlyPass'
<1>0. /\ TypeOK /\ Worker \in Call /\ Client \subseteq Call /\ Worker \notin Client
      /\ phase \in Phases
  BY CallAssumption DEF PlanInv, PlanTypeOK, Call
<1> USE <1>0 DEF OnlyPass, Calm, Enter
<1>1. CASE QueryNodes
  BY <1>1 DEF QueryNodes, Idle, control
<1>2. CASE QueryEdges \/ MergesDone \/ FetchEdges \/ FetchNodes \/ PassDone
  <2>1. UNCHANGED <<pc, gap, hydrated>> /\ phase # "none"
    BY <1>2 DEF QueryEdges, MergesDone, FetchEdges, FetchNodes, PassDone, vars, store, control
  <2>2. CASE QueryEdges
    BY <2>1, <2>2 DEF QueryEdges
  <2>3. CASE MergesDone
    BY <2>1, <2>3 DEF MergesDone, UnchangedPlan, plan, Idle
  <2>4. CASE FetchEdges \/ FetchNodes
    BY <2>1, <2>4 DEF FetchEdges, FetchNodes
  <2>5. CASE PassDone
    BY <2>1, <2>5 DEF PassDone, Idle
  <2>6. QED BY <1>2, <2>2, <2>3, <2>4, <2>5
<1>3. CASE Merge
  <2>1. Mutates(Worker) \/ UNCHANGED vars
    BY <1>3, PassMutates DEF PassStep
  <2>2. /\ phase = "merge" /\ phase' = "merge" /\ pc[Worker] = "idle" /\ UNCHANGED settled
        /\ quiet' => quiet
    BY <1>3 DEF Merge, Idle
  <2>3. CASE Mutates(Worker)
    BY <2>2, <2>3, OwnCall
  <2>4. CASE UNCHANGED vars
    BY <2>2, <2>4 DEF vars, store, control
  <2>5. QED BY <2>1, <2>3, <2>4
<1>4. CASE DeprecateEdges \/ DeprecateNodes
  <2>1. /\ phase \in {"fetched", "found"} /\ phase' \in {"ends", "last"}
        /\ UNCHANGED <<merges, quiet, settled>>
    BY <1>4 DEF DeprecateEdges, DeprecateNodes, UnchangedPlan, plan
  <2>2. CASE UNCHANGED vars
    BY <2>1, <2>2 DEF vars, store, control
  <2>3. ASSUME NEW g, NEW step, step # "drop", Change(Worker, g, step), UNCHANGED gap
        PROVE  OnlyPass'
    <3>1. /\ hydrated' = TRUE /\ pc[Worker] = "idle" /\ pc'[Worker] # "drop"
          /\ \A c \in Client : pc'[c] = pc[c]
      BY <2>3 DEF Change, TypeOK
    <3>2. QED BY <2>1, <2>3, <3>1
  <2>4. QED BY <1>4, <2>2, <2>3 DEF DeprecateEdges, DeprecateNodes, RetireEdges, RetireNodes
<1>5. CASE ClientRequest
  <2>1. PICK c \in Client : Request(c)
    BY <1>5 DEF ClientRequest
  <2>2. c \in Call /\ c # Worker /\ Mutates(c)
    BY <2>1, RequestMutates
  <2>3. pc'[Worker] = pc[Worker] /\ gap'[Worker] = gap[Worker]
    BY <2>2, OwnCall
  <2>4. quiet' = FALSE /\ settled' = 0 /\ UNCHANGED <<phase, merges>>
    BY <1>5 DEF ClientRequest, Disturb, plan
  <2>5. QED BY <2>3, <2>4
<1>6. ASSUME NEW c \in Call, CallStep(c) PROVE OnlyPass'
  <2>1. UNCHANGED <<phase, merges, settled>> /\ (quiet' => quiet) /\ StoreStep(c)
    BY <1>6 DEF CallStep, plan
  <2>2. CASE c = Worker
    <3>1. \A d \in Client : pc'[d] = pc[d]
      BY <2>1, <2>2, CallGoesOn
    <3>2. pc'[Worker] # "drop" /\ gap'[Worker] = None /\ UNCHANGED hydrated
      BY <2>1, <2>2, CallGoesOn
    <3>3. QED BY <2>1, <3>1, <3>2
  <2>3. CASE c # Worker
    <3>1. c \in Client /\ pc[c] # "idle"
      BY <2>1, <2>3, CallGoesOn DEF Call
    <3>2. pc'[Worker] = pc[Worker] /\ gap'[Worker] = gap[Worker]
      BY <2>1, <2>3, CallGoesOn
    <3>3. QED BY <2>1, <3>1, <3>2
  <2>4. QED BY <2>2, <2>3
<1>7. CASE CrashAll
  BY <1>7 DEF CrashAll, Crash, Disturb
<1>8. CASE UNCHANGED all
  BY <1>8 DEF all, vars, store, control, plan
<1>9. QED BY <1>1, <1>2, <1>3, <1>4, <1>5, <1>6, <1>7, <1>8 DEF Next, PassStep, StoreCall

\* Fewer active records leave no more to do.
LEMMA LessToDo ==
  ASSUME Nodes \in SUBSET Node, Nodes' \subseteq Nodes, Edges' \subseteq Edges
  PROVE  /\ Distinct(Nodes) => Distinct(Nodes)'
         /\ RetiredFacts(Edges) = {} => RetiredFacts(Edges)' = {}
         /\ Superseded(Edges) \cap Nodes = {} => Superseded(Edges)' \cap Nodes' = {}
<1>1. RetiredFacts(Edges)' = RetiredFacts(Edges') /\ Superseded(Edges)' = Superseded(Edges')
  BY DEF RetiredFacts, Superseded
<1>2. Distinct(Nodes) => Distinct(Nodes)'
  BY DEF Distinct
<1>3. QED BY <1>1, <1>2, FewerFacts

LEMMA ActiveTypes ==
  ASSUME TypeOK
  PROVE  Nodes \in SUBSET Node /\ Edges \in SUBSET Edge /\ None \notin Nodes
BY NodeAssumption DEF TypeOK, IsGraph, Table, Nodes, Edges, Active

\* A calm pass finds in the maps what it left there, and nobody else changes them.
LEMMA CalmMaps ==
  ASSUME PlanInv, OnlyPass, Calm
  PROVE  hydrated /\ Loaded = mem /\ (pc[Worker] # "drop" => Nodes \ {gap[Worker]} = Nodes)
<1>1. TypeOK
  BY DEF PlanInv, PlanTypeOK
<1>2. QED BY <1>1, ActiveTypes DEF OnlyPass, Loaded

\* Reading and deciding
LEMMA ReadClean ==
  ASSUME PlanInv, PlanInv', CleanInv, OnlyPass', Calm', QueryNodes \/ QueryEdges
  PROVE  DupInv' /\ RetireInv'
<1>0. TypeOK /\ TypeOK' /\ settled \in Nat
  BY DEF PlanInv, PlanTypeOK
<1>1. Nodes \in SUBSET Node /\ Nodes' \in SUBSET Node
  <2>1. Nodes' \in SUBSET Node
    BY <1>0 DEF TypeOK, IsGraph, Table, Nodes, Active
  <2>2. QED BY <1>0, <2>1, ActiveTypes
<1>2. CASE QueryNodes
  <2>1. PICK S \in Pages(DOMAIN Loaded.nodes), aka \in Aka :
          LET seen == S \cap Active(Loaded.nodes)
          IN  /\ \E P \in AliasMerges(seen, aka) :
                   /\ merges' = P \cup LabelMerges(seen \ Absorbed(P))
                   /\ settled' = IF P = {} THEN settled ELSE 0
              /\ quiet' = /\ seen = Active(Loaded.nodes)
                          /\ \A c \in Client : pc[c] = "idle"
    BY <1>2 DEF QueryNodes
  <2> DEFINE seen == S \cap Active(Loaded.nodes)
  <2>20. PICK P \in AliasMerges(seen, aka) :
          /\ merges' = P \cup LabelMerges(seen \ Absorbed(P))
          /\ settled' = IF P = {} THEN settled ELSE 0
    BY <2>1
  <2>2. /\ mem' = Loaded /\ gap' = gap /\ phase' = "edges" /\ pc[Worker] = "idle"
        /\ UNCHANGED overlapped
        /\ settled' # 0 => P = {} /\ settled' = settled
    BY <1>2, <2>20 DEF QueryNodes, Enter, control, history, Idle
  <2>3. Nodes' = Active(Loaded.nodes)
    BY <2>2 DEF Nodes
  <2>4. quiet' => Planned(Nodes', merges')
    BY <1>1, <2>1, <2>3, <2>20, LabelsPlanned
  <2>5. gap[Worker] = None /\ None \notin Nodes'
    BY <1>1, <2>2, NodeAssumption DEF CleanInv, OnlyPass
  <2>6. settled' # 0 => mem' = mem
    BY <2>2, CalmMaps DEF CleanInv, Calm
  <2>7. ASSUME settled' # 0 PROVE merges' = {} /\ Distinct(Nodes')
    <3>1. P = {} /\ Nodes' = Nodes /\ Distinct(Nodes)
      BY <2>2, <2>6, <2>7 DEF CleanInv, DupInv, Nodes
    <3>2. LabelMerges(seen \ Absorbed(P)) = {}
      BY <2>3, <3>1, NoLabelMerges
    <3>3. QED BY <2>20, <3>1, <3>2
  <2>8. DupInv'
    <3>1. Distinct(Nodes') => Distinct(Nodes)'
      BY DEF Distinct
    <3>2. quiet' => Planned(Nodes' \ {gap'[Worker]}, merges')
      BY <2>2, <2>4, <2>5
    <3>3. Planned(Nodes' \ {gap'[Worker]}, merges') => Planned(Nodes \ {gap[Worker]}, merges)'
      BY DEF Planned
    <3>4. QED BY <2>2, <2>7, <3>1, <3>2, <3>3 DEF DupInv
  <2>9. RetireInv'
    BY <2>2, <2>6 DEF CleanInv, RetireInv, Nodes, Edges
  <2>10. QED BY <2>8, <2>9
<1>3. CASE QueryEdges
  <2>1. PICK S \in Pages(DOMAIN mem.edges) :
          LET seen == S \cap Active(mem.edges)
          IN  /\ facts' = RetiredFacts(seen) \cup (S \ seen) /\ ends' = Superseded(seen)
              /\ quiet' = (quiet /\ seen = Active(mem.edges))
    BY <1>3 DEF QueryEdges
  <2>2. /\ UNCHANGED <<mem, gap, overlapped, settled, merges>>
        /\ phase = "edges" /\ phase' = "merge" /\ (quiet' => quiet)
    BY <1>3 DEF QueryEdges, Enter, vars, store, control, history
  <2>3. quiet' => facts' \cap Edges = RetiredFacts(Edges) /\ ends' = Superseded(Edges)
    BY <2>1 DEF Edges, RetiredFacts
  <2>4. DupInv'
    BY <2>2 DEF CleanInv, DupInv, Nodes
  <2>5. RetireInv'
    <3>1. UNCHANGED <<Nodes, Edges>> /\ RetiredFacts(Edges)' = RetiredFacts(Edges)
          /\ Superseded(Edges)' = Superseded(Edges)
      BY <2>2 DEF Nodes, Edges, RetiredFacts, Superseded
    <3>2. QED BY <2>2, <2>3, <3>1 DEF CleanInv, RetireInv
  <2>6. QED BY <2>4, <2>5
<1>4. QED BY <1>2, <1>3

\* Merging
LEMMA MergeClean ==
  ASSUME PlanInv, PlanInv', CleanInv, OnlyPass', Calm', Merge
  PROVE  DupInv' /\ RetireInv'
<1>0. TypeOK /\ TypeOK' /\ Worker \in Call
  BY DEF PlanInv, PlanTypeOK, Call
<1>1. PICK m \in merges :
        MergeNodes(Worker, Later(m), Earlier(m)) /\ merges' = merges \ {m}
  BY DEF Merge
<1> DEFINE s == Later(m)
           t == Earlier(m)
<1>2. /\ phase = "merge" /\ phase' = "merge" /\ pc[Worker] = "idle" /\ UNCHANGED settled
      /\ quiet' => quiet /\ pc'[Worker] # "idle"
  BY DEF Merge, Idle
<1>3. settled = 0
  BY <1>1 DEF CleanInv, DupInv
<1>4. quiet' /\ quiet /\ pc'[Worker] # "idle" /\ Calm
  BY <1>2, <1>3 DEF Calm
<1>5. Loaded = mem /\ Nodes \ {gap[Worker]} = Nodes /\ Nodes \in SUBSET Node /\ gap[Worker] = None
  BY <1>0, <1>2, <1>4, CalmMaps, ActiveTypes DEF CleanInv, OnlyPass
<1>6. Planned(Nodes, merges)
  BY <1>2, <1>4, <1>5 DEF CleanInv, DupInv
<1>7. Planned(Nodes \ {s}, merges')
  BY <1>1, <1>6, StillPlanned
<1>8. s \in DOMAIN mem.nodes
  <2>1. ASSUME Change(Worker, Loaded, "idle") PROVE FALSE
    BY <1>0, <1>4, <2>1 DEF Change, TypeOK
  <2>2. QED BY <1>1, <1>5, <2>1 DEF MergeNodes
<1>9. Nodes' \ {gap'[Worker]} = Nodes \ {s}
  <2>1. ASSUME NEW g, NEW step, Change(Worker, g, step)
        PROVE  mem' = g /\ pc'[Worker] = step
    BY <1>0, <2>1 DEF Change, TypeOK
  <2>2. CASE DeleteNode(Worker, s)
    <3>1. gap' = gap /\ mem' = Deleted(mem, s)
      BY <1>5, <2>1, <2>2 DEF DeleteNode
    <3>2. mem'.nodes = Without(mem.nodes, {s})
      BY <1>8, <3>1 DEF Deleted
    <3>3. Nodes' = Nodes \ {s}
      BY <3>2, ActiveLess DEF Nodes
    <3>4. None \notin Nodes
      BY <1>5, NodeAssumption
    <3>5. QED BY <1>5, <3>1, <3>3, <3>4
  <2>3. CASE Change(Worker, Moved(mem, s, t), "drop") /\ gap' = [gap EXCEPT ![Worker] = s]
    <3>1. mem'.nodes = mem.nodes
      <4>1. mem' = Moved(mem, s, t) /\ IsGraph(mem)
        BY <1>0, <2>1, <2>3 DEF TypeOK
      <4>2. QED BY <4>1 DEF Moved, IsGraph
    <3>2. gap'[Worker] = s
      BY <1>0, <2>3 DEF TypeOK
    <3>3. QED BY <3>1, <3>2 DEF Nodes
  <2>4. QED BY <1>1, <1>4, <1>5, <2>1, <2>2, <2>3 DEF MergeNodes
<1>10. DupInv'
  <2>1. Planned(Nodes' \ {gap'[Worker]}, merges') => Planned(Nodes \ {gap[Worker]}, merges)'
    BY DEF Planned
  <2>2. QED BY <1>2, <1>3, <1>7, <1>9, <2>1 DEF DupInv
<1>11. QED BY <1>2, <1>3, <1>10 DEF RetireInv

\* The rest of the plan, apart from the retirements
LEMMA PlanClean ==
  ASSUME PlanInv, PlanInv', CleanInv, OnlyPass', Calm',
         MergesDone \/ FetchEdges \/ FetchNodes \/ PassDone
  PROVE  DupInv' /\ RetireInv'
<1>0. TypeOK /\ settled \in Nat
  BY DEF PlanInv, PlanTypeOK
<1>1. UNCHANGED <<mem, gap, pc, overlapped>> /\ UNCHANGED <<Nodes, Edges>>
  BY DEF MergesDone, FetchEdges, FetchNodes, PassDone, vars, store, control, history, Nodes, Edges
<1>2. CASE MergesDone
  <2>1. /\ phase = "merge" /\ phase' = "facts" /\ merges = {} /\ pc[Worker] = "idle"
        /\ UNCHANGED <<merges, facts, ends, quiet, settled>>
    BY <1>2 DEF MergesDone, Enter, UnchangedPlan, plan, Idle
  <2>2. quiet => Distinct(Nodes)
    <3>1. quiet => Calm
      BY <2>1 DEF Calm
    <3>2. quiet => Planned(Nodes, {})
      BY <2>1, <3>1, CalmMaps DEF CleanInv, DupInv
    <3>3. QED BY <3>2 DEF Planned, Distinct
  <2>3. QED BY <1>1, <2>1, <2>2 DEF CleanInv, DupInv, RetireInv
<1>3. CASE FetchEdges
  <2>1. /\ phase = "facts" /\ phase' = "fetched" /\ facts' = facts \cap DOMAIN mem.edges
        /\ UNCHANGED <<merges, ends, quiet, settled>>
    BY <1>3 DEF FetchEdges, Enter
  <2>2. RetiredFacts(Edges) \subseteq DOMAIN mem.edges
    BY DEF RetiredFacts, Edges, Active
  <2>3. QED BY <1>1, <2>1, <2>2 DEF CleanInv, DupInv, RetireInv
<1>4. CASE FetchNodes
  <2>1. /\ phase = "ends" /\ phase' = "found" /\ ends' = ends \cap DOMAIN mem.nodes
        /\ UNCHANGED <<merges, facts, quiet, settled>>
    BY <1>4 DEF FetchNodes, Enter
  <2>2. QED BY <1>1, <2>1 DEF CleanInv, DupInv, RetireInv
<1>5. CASE PassDone
  <2>1. /\ phase = "last" /\ phase' = "none" /\ UNCHANGED merges
        /\ settled' = IF quiet THEN settled + 1 ELSE 0
    BY <1>5 DEF PassDone, Enter
  <2>2. quiet /\ (settled # 0 => settled' # 1) /\ settled' # 0 /\ (settled = 0 => settled' = 1)
    BY <1>0, <2>1 DEF Calm
  <2>3. DupInv'
    BY <1>1, <2>1, <2>2 DEF CleanInv, OnlyPass, DupInv
  <2>4. RetireInv'
    BY <1>1, <2>1, <2>2 DEF CleanInv, RetireInv
  <2>5. QED BY <2>3, <2>4
<1>6. QED BY <1>2, <1>3, <1>4, <1>5

\* The retirements
LEMMA RetireClean ==
  ASSUME PlanInv, PlanInv', StoreInv, CleanInv, OnlyPass', Calm',
         DeprecateEdges \/ DeprecateNodes
  PROVE  DupInv' /\ RetireInv'
<1>0. TypeOK /\ settled \in Nat /\ Worker \in Call
  BY DEF PlanInv, PlanTypeOK, Call
<1>1. /\ phase \in {"fetched", "found"} /\ phase' \in {"ends", "last"}
      /\ phase = "fetched" <=> phase' = "ends"
      /\ UNCHANGED <<merges, facts, ends, quiet, settled>>
  BY DEF DeprecateEdges, DeprecateNodes, UnchangedPlan, plan, Enter
<1>2. Calm /\ Loaded = mem /\ Nodes \in SUBSET Node /\ Edges \in SUBSET Edge
  BY <1>0, <1>1, CalmMaps, ActiveTypes DEF Calm, CleanInv
<1>3. ASSUME NEW g, NEW step, Change(Worker, g, step)
      PROVE  mem' = g /\ (overlapped => overlapped')
  BY <1>3 DEF Change
<1>4. CASE DeprecateEdges
  <2>1. \/ UNCHANGED <<mem, overlapped>> /\ facts = {}
        \/ UNCHANGED mem /\ ~Linked(mem, facts) /\ (overlapped => overlapped')
        \/ /\ mem' = [mem EXCEPT !.edges = Retire(@, facts)]
           /\ overlapped => overlapped'
    BY <1>2, <1>3, <1>4 DEF DeprecateEdges, RetireEdges, vars, store, history
  <2>2. Nodes' = Nodes
    BY <1>0, <2>1 DEF Nodes, TypeOK, IsGraph
  <2>3. Edges' = Edges \/ Edges' = Edges \ facts
    BY <1>0, <2>1, ActiveLess DEF Edges, TypeOK, IsGraph
  <2>4. ASSUME settled # 0, quiet, ~overlapped
        PROVE  Edges' = Edges \ RetiredFacts(Edges) /\ ends = Superseded(Edges)
    <3>1. phase = "fetched" /\ facts \cap Edges = RetiredFacts(Edges) /\ ends = Superseded(Edges)
      BY <1>4, <2>4 DEF DeprecateEdges, CleanInv, RetireInv
    <3>2. Loadable(mem)
      BY <2>4 DEF StoreInv, InTurn
    <3>3. Linked(mem, facts)
      <4>1. facts \subseteq DOMAIN mem.edges
        BY <2>4, <3>1 DEF CleanInv, RetireInv
      <4>2. QED BY <3>2, <4>1 DEF Linked, Loadable
    <3>4. CASE facts = {} /\ UNCHANGED mem
      BY <3>1, <3>4 DEF Edges
    <3>5. CASE mem' = [mem EXCEPT !.edges = Retire(@, facts)]
      <4>1. Edges' = Edges \ facts
        BY <1>0, <3>5, ActiveLess DEF Edges, TypeOK, IsGraph
      <4>2. QED BY <3>1, <4>1
    <3>6. QED BY <2>1, <3>1, <3>3, <3>4, <3>5
  <2>5. phase' = "ends" /\ phase = "fetched"
    BY <1>1, <1>4 DEF DeprecateEdges
  <2>6. DupInv'
    BY <1>1, <2>2, <2>5 DEF CleanInv, DupInv
  <2>7. RetireInv'
    <3>1. ASSUME settled # 0, quiet, ~overlapped
          PROVE  RetiredFacts(Edges') = {} /\ Superseded(Edges') = Superseded(Edges)
      BY <1>2, <2>4, <3>1, RetiredAll
    <3>2. /\ RetiredFacts(Edges) = {} => RetiredFacts(Edges') = {}
          /\ Superseded(Edges') \subseteq Superseded(Edges)
      BY <2>3, FewerFacts
    <3>3. overlapped => overlapped'
      BY <2>1
    <3>4. QED BY <1>1, <2>2, <2>4, <2>5, <3>1, <3>2, <3>3 DEF CleanInv, RetireInv
  <2>8. QED BY <2>6, <2>7
<1>5. CASE DeprecateNodes
  <2>1. \/ UNCHANGED <<mem, overlapped>> /\ ends = {}
        \/ /\ mem' = [mem EXCEPT !.nodes = Retire(@, ends)]
           /\ overlapped => overlapped'
    BY <1>2, <1>3, <1>5 DEF DeprecateNodes, RetireNodes, vars, store, history
  <2>2. Edges' = Edges
    BY <1>0, <2>1 DEF Edges, TypeOK, IsGraph
  <2>3. Nodes' = Nodes \ ends
    BY <1>0, <2>1, ActiveLess DEF Nodes, TypeOK, IsGraph
  <2>4. phase' = "last" /\ phase = "found"
    BY <1>1, <1>5 DEF DeprecateNodes
  <2>5. Distinct(Nodes) => Distinct(Nodes)'
    BY <1>2, <2>2, <2>3, LessToDo
  <2>6. DupInv'
    BY <1>1, <2>4, <2>5 DEF CleanInv, DupInv
  <2>7. RetireInv'
    <3>1. ASSUME settled # 0, quiet, ~overlapped
          PROVE  Superseded(Edges) \cap Nodes' = {}
      <4>1. ends = Superseded(Edges) \cap DOMAIN mem.nodes
        BY <2>4, <3>1 DEF CleanInv, RetireInv
      <4>2. Nodes \subseteq DOMAIN mem.nodes
        BY DEF Nodes, Active
      <4>3. QED BY <2>3, <4>1, <4>2
    <3>2. overlapped => overlapped'
      BY <2>1
    <3>3. QED BY <1>1, <2>2, <2>3, <2>4, <3>1, <3>2 DEF CleanInv, RetireInv
  <2>8. QED BY <2>6, <2>7
<1>6. QED BY <1>4, <1>5

\* The end of a store call of the pass
LEMMA CallClean ==
  ASSUME PlanInv, PlanInv', CleanInv, OnlyPass', Calm', NEW c \in Call, CallStep(c)
  PROVE  DupInv' /\ RetireInv'
<1>0. TypeOK /\ Worker \in Call
  BY DEF PlanInv, PlanTypeOK, Call
<1>1. UNCHANGED <<phase, merges, facts, ends, settled>> /\ (quiet' => quiet) /\ StoreStep(c)
  BY DEF CallStep, plan
<1>2. Calm
  BY <1>1 DEF Calm
<1>3. c = Worker /\ UNCHANGED overlapped
  BY <1>0, <1>1, <1>2, CallGoesOn DEF CleanInv, OnlyPass, Call
<1>4. Nodes \in SUBSET Node /\ None \notin Nodes
  BY <1>0, ActiveTypes
<1>5. CASE pc[c] = "drop"
  <2>1. mem' = [mem EXCEPT !.nodes = Without(@, {gap[c]})] /\ gap'[c] = None
    BY <1>0, <1>1, <1>5, CallGoesOn
  <2>2. Nodes' = Nodes \ {gap[Worker]} /\ Edges' = Edges
    BY <1>0, <1>3, <2>1, ActiveLess DEF Nodes, Edges, TypeOK, IsGraph
  <2>3. Nodes' \ {gap'[Worker]} = Nodes'
    BY <1>3, <1>4, <2>1, <2>2
  <2>4. phase = "merge"
    BY <1>3, <1>5 DEF CleanInv, OnlyPass
  <2>5. /\ Distinct(Nodes) => Distinct(Nodes)'
        /\ Superseded(Edges) \cap Nodes = {} => Superseded(Edges)' \cap Nodes' = {}
    BY <1>4, <2>2, LessToDo
  <2>6. DupInv'
    BY <1>1, <2>2, <2>3, <2>4, <2>5 DEF CleanInv, DupInv
  <2>7. RetireInv'
    BY <1>1, <1>3, <2>2, <2>4, <2>5 DEF CleanInv, RetireInv
  <2>8. QED BY <2>6, <2>7
<1>6. CASE pc[c] # "drop"
  <2>1. UNCHANGED <<mem, gap>>
    BY <1>0, <1>1, <1>6, CallGoesOn
  <2>2. QED BY <1>1, <1>3, <2>1 DEF CleanInv, DupInv, RetireInv, Nodes, Edges
<1>7. QED BY <1>5, <1>6

LEMMA CleanInvStep ==
  ASSUME PlanInv, StoreInv, CleanInv, [Next]_all
  PROVE  CleanInv'
<1>1. PlanInv' /\ OnlyPass'
  BY PlanInvStep, OnlyPassNext DEF CleanInv
<1>2. CASE ~Calm'
  BY <1>1, <1>2 DEF CleanInv, Calm, DupInv, RetireInv
<1>3. CASE Calm' /\ PassStep
  BY <1>1, <1>3, ReadClean, MergeClean, PlanClean, RetireClean DEF PassStep, CleanInv
<1>4. CASE Calm' /\ (QueryNodes \/ StoreCall)
  BY <1>1, <1>4, ReadClean, CallClean DEF StoreCall, CleanInv
<1>5. CASE ClientRequest \/ CrashAll
  BY <1>1, <1>2, <1>5 DEF ClientRequest, CrashAll, Disturb, Calm
<1>6. CASE UNCHANGED all
  BY <1>1, <1>6 DEF all, vars, store, control, history, plan, CleanInv, DupInv, RetireInv,
                    Nodes, Edges
<1>7. QED BY <1>2, <1>3, <1>4, <1>5, <1>6 DEF Next

LEMMA CleanInvInit ==
  ASSUME InitAll PROVE CleanInv
BY DEF InitAll, Init, Call, CleanInv, OnlyPass, Calm, DupInv, RetireInv

\* Two passes that saw the whole graph, alone and without failure, leave no two
\* active nodes of one label and no active fact about a superseded node.
THEOREM TwoPassesSettle == Spec => []CleanAfterTwoPasses
<1>1. PlanInv /\ CleanInv => CleanAfterTwoPasses
  <2> SUFFICES ASSUME PlanInv, CleanInv, settled >= 2, ~overlapped PROVE Settled(mem)
    BY DEF CleanAfterTwoPasses
  <2>1. settled # 0 /\ settled # 1 /\ Nodes \in SUBSET Node
    BY ActiveTypes DEF PlanInv, PlanTypeOK
  <2>2. /\ Distinct(Nodes) /\ RetiredFacts(Edges) = {}
        /\ Superseded(Edges) \cap Nodes = {}
    BY <2>1 DEF CleanInv, DupInv, RetireInv
  <2>4. ASSUME NEW d \in Edges, NEW e \in Edges, d.type = Supersedes
        PROVE  d.to \notin Nodes /\ (d.to \in Ends(e) => e.type = Supersedes)
    <3>1. d.to \in Superseded(Edges)
      BY <2>4 DEF Superseded
    <3>2. QED BY <2>2, <3>1 DEF RetiredFacts
  <2>5. QED BY <2>2, <2>4 DEF Settled, Distinct, Nodes, Edges
<1>2. QED BY <1>1, PlanInvInit, PlanInvStep, StoreInvInit, StoreInvStep, CleanInvInit,
             CleanInvStep, PTL DEF Spec

-----------------------------------------------------------------------------
(* Calls and passes are finite.                                            *)

\* The steps a call of the store has before it, itself included.
Left(c) == CASE pc[c] = "drop"     -> 6
             [] pc[c] = "export"   -> 5
             [] pc[c] = "read"     -> 4
             [] pc[c] = "nodes"    -> 3
             [] pc[c] = "edges"    -> 2
             [] pc[c] = "rollback" -> 1
             [] OTHER              -> 0

\* Every step of a call brings it nearer to its end, and no other step, of
\* whatever caller, takes it further from it.
CallsSpend ==
  [][\A c \in Call : /\ StoreStep(c) => Left(c)' < Left(c)
                     /\ pc[c] # "idle" => Left(c)' <= Left(c)]_all

LEMMA StepSpends ==
  ASSUME TypeOK, NEW c \in Call, StoreStep(c)
  PROVE  Left(c)' < Left(c) /\ pc' = [pc EXCEPT ![c] = pc'[c]]
BY DEF TypeOK, StoreStep, DropSource, ExportSnapshot, ReadOldNodes, WriteNodes, WriteEdges,
       Rollback, Return, Goto, Left, Steps

\* A call of the store makes at most six steps, with or without failures and
\* whatever other calls do; CallsSettle is this, and fairness.
THEOREM CallsAreShort == Spec => CallsSpend
<1>1. ASSUME PlanInv, [Next]_all, NEW c \in Call, pc[c] # "idle"
      PROVE  Left(c)' <= Left(c)
  <2>1. Left(c) \in Nat
    BY DEF Left
  <2>2. CASE \E d \in Call : Mutates(d) /\ calls' \in Nat
    BY <1>1, <2>2, <2>1 DEF Mutates, Mutation, Change, Left, PlanInv, PlanTypeOK, TypeOK
  <2>3. CASE \E d \in Call : StoreStep(d)
    <3>1. PICK d \in Call : StoreStep(d)
      BY <2>3
    <3>2. CASE d = c
      BY <1>1, <2>1, <3>1, <3>2, StepSpends DEF PlanInv, PlanTypeOK, Left
    <3>3. CASE d # c
      <4>1. pc'[c] = pc[c]
        BY <1>1, <3>1, <3>3, StepSpends DEF PlanInv, PlanTypeOK, TypeOK
      <4>2. QED BY <2>1, <4>1 DEF Left
    <3>4. QED BY <3>2, <3>3
  <2>4. CASE Crash
    BY <1>1, <2>1, <2>4 DEF Crash, Left
  <2>5. CASE Hydrates \/ UNCHANGED vars
    BY <1>1, <2>1, <2>5 DEF Hydrates, vars, control, Left
  <2>6. QED BY <1>1, <2>2, <2>3, <2>4, <2>5, StepKinds
<1>2. ASSUME PlanInv, [Next]_all
      PROVE  \A c \in Call : /\ StoreStep(c) => Left(c)' < Left(c)
                             /\ pc[c] # "idle" => Left(c)' <= Left(c)
  BY <1>1, <1>2, StepSpends DEF PlanInv, PlanTypeOK
<1>3. QED BY <1>2, PlanInvInit, PlanInvStep, PTL DEF Spec, CallsSpend

\* The maps and what is copied from them stay finite.
FiniteGraph(g) == IsFiniteSet(DOMAIN g.nodes) /\ IsFiniteSet(DOMAIN g.edges)
FiniteStore ==
  /\ FiniteGraph(disk) /\ FiniteGraph(mem)
  /\ \A c \in Call : FiniteGraph(snap[c]) /\ IsFiniteSet(DOMAIN old[c])
FiniteInv ==
  /\ FiniteStore
  /\ phase = "found" => IsFiniteSet(ends)
  /\ phase = "fetched" => IsFiniteSet(facts)

LEMMA FiniteWithin ==
  ASSUME NEW S, NEW T, NEW U, IsFiniteSet(S), IsFiniteSet(T), U \subseteq S \cup T
  PROVE  IsFiniteSet(U)
<1>1. IsFiniteSet(S \cup T)
  BY FS_Union
<1>2. U \in SUBSET (S \cup T)
  OBVIOUS
<1>3. QED BY <1>1, <1>2, FS_Subset

LEMMA FiniteGrowth ==
  ASSUME NEW g, FiniteGraph(g), NEW S, IsFiniteSet(S), NEW h,
         \/ /\ DOMAIN h.nodes \subseteq DOMAIN g.nodes \cup S
            /\ DOMAIN h.edges \subseteq DOMAIN g.edges
         \/ /\ DOMAIN h.nodes \subseteq DOMAIN g.nodes
            /\ DOMAIN h.edges \subseteq DOMAIN g.edges \cup S
  PROVE  FiniteGraph(h)
<1>1. IsFiniteSet(DOMAIN g.nodes) /\ IsFiniteSet(DOMAIN g.edges)
  BY DEF FiniteGraph
<1>2. /\ DOMAIN h.nodes \subseteq DOMAIN g.nodes \cup S
      /\ DOMAIN h.edges \subseteq DOMAIN g.edges \cup S
  OBVIOUS
<1>3. IsFiniteSet(DOMAIN h.nodes)
  BY <1>1, <1>2, FiniteWithin
<1>4. IsFiniteSet(DOMAIN h.edges)
  BY <1>1, <1>2, FiniteWithin
<1>5. QED BY <1>3, <1>4 DEF FiniteGraph

\* The edges a merge moves are no more than they were.
LEMMA FiniteImage ==
  ASSUME NEW g, IsFiniteSet(DOMAIN g.edges), NEW s, NEW t
  PROVE  IsFiniteSet({Rewire(e, s, t) : e \in Kept(g, s, t)})
<1> DEFINE K == Kept(g, s, t)
           I == {Rewire(e, s, t) : e \in K}
           f == [e \in K |-> Rewire(e, s, t)]
<1>1. K \in SUBSET DOMAIN g.edges
  BY DEF Kept, Touching
<1>2. IsFiniteSet(K)
  BY <1>1, FS_Subset
<1>3. f \in Surjection(K, I)
  BY DEF Surjection
<1> HIDE DEF f, K, I
<1>4. IsFiniteSet(I)
  BY <1>2, <1>3, FS_Surjection
<1>5. QED BY <1>4 DEF I, K

\* What a mutator leaves in the maps was there, or is what it was given.
LEMMA NodesFinite ==
  ASSUME TypeOK, FiniteGraph(Loaded), NEW c \in Call, NEW S \in SUBSET Node, IsFiniteSet(S),
         UpsertNodes(c, S) \/ RetireNodes(c, S)
  PROVE  FiniteGraph(mem')
<1> DEFINE G == Loaded
           up == [G EXCEPT !.nodes = Upsert(@, S)]
           re == [G EXCEPT !.nodes = Retire(@, S)]
<1>1. IsGraph(G) /\ Table(G.nodes, Node)
  BY LoadedGraph DEF IsGraph
<1>2. /\ DOMAIN up.nodes = DOMAIN G.nodes \cup S /\ up.edges = G.edges
      /\ DOMAIN re.nodes = DOMAIN G.nodes \cup S /\ re.edges = G.edges
  BY <1>1, UpsertTable, NodesOf
<1>3. mem' \in {up, re}
  BY DEF UpsertNodes, RetireNodes, Change
<1> HIDE DEF up, re
<1>4. QED BY <1>2, <1>3, FiniteGrowth

LEMMA EdgesFinite ==
  ASSUME TypeOK, FiniteGraph(Loaded), NEW c \in Call, NEW S \in SUBSET Edge, IsFiniteSet(S),
         UpsertEdges(c, S) \/ RetireEdges(c, S) \/ DeleteEdges(c, S)
  PROVE  FiniteGraph(mem')
<1> DEFINE G == Loaded
           up == [G EXCEPT !.edges = Upsert(@, S)]
           re == [G EXCEPT !.edges = Retire(@, S)]
           de == [G EXCEPT !.edges = Without(@, S)]
<1>1. IsGraph(G) /\ Table(G.edges, Edge)
  BY LoadedGraph DEF IsGraph
<1>2. /\ DOMAIN up.edges = DOMAIN G.edges \cup S /\ up.nodes = G.nodes
      /\ DOMAIN re.edges = DOMAIN G.edges \cup S /\ re.nodes = G.nodes
      /\ DOMAIN de.edges = DOMAIN G.edges \ S /\ de.nodes = G.nodes
  <2>1. DOMAIN up.edges = DOMAIN G.edges \cup S /\ up.nodes = G.nodes
    BY <1>1, UpsertTable, EdgesOf
  <2>2. DOMAIN re.edges = DOMAIN G.edges \cup S /\ re.nodes = G.nodes
    BY <1>1, UpsertTable, EdgesOf
  <2>3. DOMAIN de.edges = DOMAIN G.edges \ S /\ de.nodes = G.nodes
    BY <1>1, WithoutTable, EdgesOf
  <2>4. QED BY <2>1, <2>2, <2>3
<1>3. mem' \in {G, up, re, de}
  <2>1. CASE UpsertEdges(c, S)
    BY <2>1 DEF UpsertEdges, Change
  <2>2. CASE RetireEdges(c, S)
    BY <2>2 DEF RetireEdges, Change
  <2>3. CASE DeleteEdges(c, S)
    BY <2>3 DEF DeleteEdges, Change
  <2>4. QED BY <2>1, <2>2, <2>3
<1> HIDE DEF up, re, de
<1>4. QED BY <1>2, <1>3, FiniteGrowth

LEMMA DeleteFinite ==
  ASSUME TypeOK, FiniteGraph(Loaded), NEW c \in Call, NEW n \in Node, DeleteNode(c, n)
  PROVE  FiniteGraph(mem')
<1>1. IsGraph(Loaded) /\ Table(Loaded.nodes, Node) /\ Table(Loaded.edges, Edge)
  BY LoadedGraph DEF IsGraph
<1>2. mem' = Deleted(Loaded, n)
  BY DEF DeleteNode, Change
<1>3. /\ DOMAIN Without(Loaded.nodes, {n}) \subseteq DOMAIN Loaded.nodes
      /\ DOMAIN Without(Loaded.edges, Touching(Loaded, n)) \subseteq DOMAIN Loaded.edges
  BY DEF Without
<1>4. /\ DOMAIN mem'.nodes \subseteq DOMAIN Loaded.nodes
      /\ DOMAIN mem'.edges \subseteq DOMAIN Loaded.edges
  BY <1>2, <1>3 DEF Deleted
<1>5. QED BY <1>4, FS_EmptySet, FiniteGrowth

LEMMA MergeFinite ==
  ASSUME TypeOK, FiniteGraph(Loaded), NEW c \in Call, NEW s \in Node, NEW t \in Node, s # t,
         MergeNodes(c, s, t)
  PROVE  FiniteGraph(mem')
<1> DEFINE I == {Rewire(e, s, t) : e \in Kept(Loaded, s, t)}
<1>1. IsGraph(Loaded) /\ Table(Loaded.edges, Edge)
  BY LoadedGraph DEF IsGraph
<1>2. IsFiniteSet(I)
  BY FiniteImage DEF FiniteGraph
<1>3. CASE mem' = Loaded
  BY <1>3
<1>4. CASE DeleteNode(c, s)
  BY <1>4, DeleteFinite
<1>5. CASE mem' = Unlinked(Loaded, s)
  <2> DEFINE h == Unlinked(Loaded, s)
  <2>1. h.nodes = Loaded.nodes /\ DOMAIN h.edges = DOMAIN Loaded.edges \ Touching(Loaded, s)
    BY <1>1, WithoutTable, EdgesOf DEF Unlinked
  <2> HIDE DEF h
  <2>2. mem' = h
    BY <1>5 DEF h
  <2>3. QED BY <2>1, <2>2, FS_EmptySet, FiniteGrowth
<1>6. CASE mem' = Moved(Loaded, s, t)
  <2>1. /\ mem'.nodes = Loaded.nodes
        /\ DOMAIN mem'.edges = (DOMAIN Loaded.edges \ Touching(Loaded, s)) \cup I
    BY <1>1, <1>6, MovedGraph
  <2>2. DOMAIN mem'.edges \subseteq DOMAIN Loaded.edges \cup I
    BY <2>1
  <2> HIDE DEF I
  <2>3. QED BY <1>2, <2>1, <2>2, FiniteGrowth
<1>7. QED BY <1>3, <1>4, <1>5, <1>6 DEF MergeNodes, Change

\* A request of a client adds one record, takes some away, or imports a graph.
LEMMA RequestFinite ==
  ASSUME TypeOK, FiniteGraph(Loaded), NEW c \in Call, Request(c)
  PROVE  FiniteGraph(mem')
<1>1. DOMAIN Loaded.nodes \subseteq Node /\ DOMAIN Loaded.edges \subseteq Edge
  BY LoadedGraph DEF IsGraph, Table
<1>2. ASSUME NEW g \in Stored, ImportSnapshot(c, g) PROVE FiniteGraph(mem')
  BY <1>2, StoredAssumption DEF ImportSnapshot, Change, FiniteGraph
<1>3. ASSUME NEW n \in Node, UpsertNodes(c, {n}) \/ RetireNodes(c, {n})
      PROVE  FiniteGraph(mem')
  <2>1. {n} \in SUBSET Node /\ IsFiniteSet({n})
    BY FS_Singleton
  <2>2. QED BY <1>3, <2>1, NodesFinite
<1>4. ASSUME NEW e \in Edge, UpsertEdges(c, {e}) \/ DeleteEdges(c, {e})
      PROVE  FiniteGraph(mem')
  <2>1. {e} \in SUBSET Edge /\ IsFiniteSet({e})
    BY FS_Singleton
  <2>2. QED BY <1>4, <2>1, EdgesFinite
<1>5. Linkable \subseteq Edge
  BY LinkAssumption
<1>6. QED BY <1>1, <1>2, <1>3, <1>4, <1>5, DeleteFinite, MergeFinite DEF Request

\* A call of the store copies finite maps and files.
LEMMA CallFinite ==
  ASSUME TypeOK, FiniteStore, NEW c \in Call, StoreStep(c)
  PROVE  FiniteStore'
<1> USE DEF FiniteStore, FiniteGraph
<1>0. IsFiniteSet(DOMAIN <<>>) /\ FiniteGraph(NoGraph)
  BY FS_EmptySet DEF NoGraph
<1>1. CASE DropSource(c)
  <2>1. DOMAIN Without(mem.nodes, {gap[c]}) \in SUBSET DOMAIN mem.nodes
    BY DEF Without
  <2>2. IsFiniteSet(DOMAIN Without(mem.nodes, {gap[c]}))
    BY <2>1, FS_Subset
  <2>3. /\ mem'.nodes = Without(mem.nodes, {gap[c]}) /\ mem'.edges = mem.edges
    BY <1>1 DEF DropSource, TypeOK, IsGraph
  <2>4. QED BY <1>1, <2>2, <2>3 DEF DropSource
<1>2. CASE ExportSnapshot(c)
  BY <1>0, <1>2 DEF ExportSnapshot, Locals, TypeOK, store
<1>3. CASE ReadOldNodes(c)
  BY <1>0, <1>3 DEF ReadOldNodes, Locals, Return, TypeOK, store
<1>4. CASE WriteNodes(c)
  <2>1. disk' \in {disk, [disk EXCEPT !.nodes = snap[c].nodes]}
    BY <1>4 DEF WriteNodes, TypeOK, IsGraph
  <2>2. FiniteGraph(disk')
    BY <2>1 DEF TypeOK, IsGraph
  <2>3. QED BY <1>0, <1>4, <2>2 DEF WriteNodes, Locals, Return, TypeOK
<1>5. CASE WriteEdges(c)
  <2>1. disk' \in {disk, [disk EXCEPT !.edges = snap[c].edges]}
    BY <1>5 DEF WriteEdges, TypeOK, IsGraph
  <2>2. FiniteGraph(disk')
    BY <2>1 DEF TypeOK, IsGraph
  <2>3. QED BY <1>0, <1>5, <2>2 DEF WriteEdges, Locals, Return, TypeOK
<1>6. CASE Rollback(c)
  <2>1. disk' \in {disk, [disk EXCEPT !.nodes = old[c]]}
    BY <1>6 DEF Rollback, TypeOK, IsGraph
  <2>2. FiniteGraph(disk')
    BY <2>1 DEF TypeOK, IsGraph
  <2>3. QED BY <1>0, <1>6, <2>2 DEF Rollback, Locals, Return, TypeOK
<1>7. QED BY <1>1, <1>2, <1>3, <1>4, <1>5, <1>6 DEF StoreStep

LEMMA FiniteInit == InitAll => FiniteInv
<1>1. IsFiniteSet(DOMAIN <<>>) /\ FiniteGraph(NoGraph)
  BY FS_EmptySet DEF NoGraph, FiniteGraph
<1>2. QED BY <1>1, StoredAssumption DEF InitAll, Init, FiniteInv, FiniteStore, FiniteGraph

LEMMA FiniteStep ==
  ASSUME PlanInv, FiniteInv, [Next]_all
  PROVE  FiniteInv'
<1> USE DEF PlanInv, PlanTypeOK
<1>1. FiniteGraph(Loaded)
  BY DEF FiniteInv, FiniteStore, Loaded
<1>2. ASSUME FiniteGraph(mem'), UNCHANGED <<disk, snap, old>>
      PROVE  FiniteStore'
  BY <1>2 DEF FiniteInv, FiniteStore
<1>3. Worker \in Call
  BY DEF Call
<1>4. CASE QueryNodes
  <2>1. FiniteGraph(mem') /\ UNCHANGED <<disk, snap, old>>
    BY <1>1, <1>4 DEF QueryNodes, control
  <2>2. QED BY <1>2, <1>4, <2>1 DEF QueryNodes, Enter, FiniteInv
<1>5. CASE UNCHANGED vars /\ (QueryEdges \/ MergesDone \/ PassDone)
  <2>1. UNCHANGED <<disk, mem, snap, old>>
    BY <1>5 DEF vars, store, control
  <2>2. FiniteStore'
    BY <2>1 DEF FiniteInv, FiniteStore
  <2>3. QED BY <1>5, <2>2 DEF FiniteInv, QueryEdges, MergesDone, PassDone, Enter
<1>6. CASE FetchEdges \/ FetchNodes
  <2>1. UNCHANGED <<disk, mem, snap, old>>
    BY <1>6 DEF FetchEdges, FetchNodes, vars, store, control
  <2>2. FiniteStore'
    BY <2>1 DEF FiniteInv, FiniteStore
  <2>3. /\ IsFiniteSet(facts \cap DOMAIN mem.edges)
        /\ IsFiniteSet(ends \cap DOMAIN mem.nodes)
    <3>1. IsFiniteSet(DOMAIN mem.edges) /\ IsFiniteSet(DOMAIN mem.nodes)
      BY DEF FiniteInv, FiniteStore, FiniteGraph
    <3>2. /\ facts \cap DOMAIN mem.edges \in SUBSET DOMAIN mem.edges
          /\ ends \cap DOMAIN mem.nodes \in SUBSET DOMAIN mem.nodes
      OBVIOUS
    <3>3. QED BY <3>1, <3>2, FS_Subset
  <2>4. QED BY <1>6, <2>2, <2>3 DEF FiniteInv, FetchEdges, FetchNodes, Enter
<1>7. CASE Merge
  <2>1. PICK m \in merges : MergeNodes(Worker, Later(m), Earlier(m))
    BY <1>7 DEF Merge
  <2>2. Earlier(m) \in Node /\ Later(m) \in Node /\ Earlier(m) # Later(m)
    BY MergeEnds
  <2>3. FiniteGraph(mem')
    BY <1>1, <1>3, <2>1, <2>2, MergeFinite
  <2>4. UNCHANGED <<disk, snap, old>>
    BY <2>1 DEF MergeNodes, DeleteNode, Change
  <2>5. QED BY <1>2, <1>7, <2>3, <2>4 DEF Merge, FiniteInv
<1>8. CASE DeprecateEdges
  <2>1. CASE UNCHANGED vars
    BY <1>8, <2>1 DEF vars, store, control, DeprecateEdges, Enter, FiniteInv, FiniteStore
  <2>2. CASE RetireEdges(Worker, facts)
    <3>1. IsFiniteSet(facts)
      BY <1>8 DEF DeprecateEdges, FiniteInv
    <3>2. FiniteGraph(mem')
      BY <1>1, <1>3, <2>2, <3>1, EdgesFinite
    <3>3. UNCHANGED <<disk, snap, old>>
      BY <2>2 DEF RetireEdges, Change
    <3>4. QED BY <1>2, <1>8, <3>2, <3>3 DEF DeprecateEdges, Enter, FiniteInv
  <2>3. QED BY <1>8, <2>1, <2>2 DEF DeprecateEdges
<1>9. CASE DeprecateNodes
  <2>1. CASE UNCHANGED vars
    BY <1>9, <2>1 DEF vars, store, control, DeprecateNodes, Enter, FiniteInv, FiniteStore
  <2>2. CASE RetireNodes(Worker, ends)
    <3>1. IsFiniteSet(ends)
      BY <1>9 DEF DeprecateNodes, FiniteInv
    <3>2. FiniteGraph(mem')
      BY <1>1, <1>3, <2>2, <3>1, NodesFinite
    <3>3. UNCHANGED <<disk, snap, old>>
      BY <2>2 DEF RetireNodes, Change
    <3>4. QED BY <1>2, <1>9, <3>2, <3>3 DEF DeprecateNodes, Enter, FiniteInv
  <2>3. QED BY <1>9, <2>1, <2>2 DEF DeprecateNodes
<1>10. CASE ClientRequest
  <2>1. PICK c \in Client : Request(c)
    BY <1>10 DEF ClientRequest
  <2>2. FiniteGraph(mem')
    BY <1>1, <2>1, RequestFinite DEF Call
  <2>3. UNCHANGED <<disk, snap, old>>
    BY <2>1 DEF Request, UpsertNodes, RetireNodes, DeleteNode, UpsertEdges, DeleteEdges,
                MergeNodes, ImportSnapshot, Change
  <2>4. QED BY <1>2, <1>10, <2>2, <2>3 DEF ClientRequest, plan, FiniteInv
<1>11. CASE StoreCall
  <2>1. PICK c \in Call : CallStep(c)
    BY <1>11 DEF StoreCall
  <2>2. FiniteStore'
    BY <2>1, CallFinite DEF CallStep, FiniteInv
  <2>3. QED BY <2>1, <2>2 DEF CallStep, plan, FiniteInv
<1>12. CASE CrashAll
  <2>1. IsFiniteSet(DOMAIN <<>>) /\ FiniteGraph(NoGraph)
    BY FS_EmptySet DEF NoGraph, FiniteGraph
  <2>2. FiniteStore'
    BY <1>12, <2>1 DEF CrashAll, Crash, FiniteInv, FiniteStore
  <2>3. QED BY <1>12, <2>2 DEF CrashAll, FiniteInv
<1>13. CASE UNCHANGED all
  BY <1>13 DEF all, vars, store, control, plan, FiniteInv, FiniteStore
<1>14. QED BY <1>4, <1>5, <1>6, <1>7, <1>8, <1>9, <1>10, <1>11, <1>12, <1>13
       DEF Next, PassStep, QueryEdges, MergesDone, PassDone

\* A query of a finite map returns a page, and no more than it may.
LEMMA PageFits ==
  ASSUME NEW S, IsFiniteSet(S), NEW T \in Pages(S)
  PROVE  IsFiniteSet(T) /\ Cardinality(T) \in 0..QueryLimit
<1>1. T \in SUBSET S /\ Cardinality(T) <= QueryLimit
  BY DEF Pages
<1>2. IsFiniteSet(T)
  BY <1>1, FS_Subset
<1>3. QED BY <1>1, <1>2, FS_CardinalityType, LimitAssumption

\* A plan has at most a merge for each ordered pair of nodes of a page.
Most == QueryLimit * QueryLimit

LEMMA FewMerges ==
  ASSUME NEW S, IsFiniteSet(S), Cardinality(S) \in 0..QueryLimit, NEW M \in SUBSET (S \X S)
  PROVE  IsFiniteSet(M) /\ Cardinality(M) <= Most
<1> DEFINE n == Cardinality(S)
<1>1. QueryLimit \in Nat /\ n \in Nat /\ n <= QueryLimit
  BY LimitAssumption
<1>2. IsFiniteSet(S \X S) /\ Cardinality(S \X S) = n * n
  BY FS_Product
<1>3. n * n <= QueryLimit * QueryLimit
  <2> HIDE DEF n
  <2>1. n * n <= n * QueryLimit
    BY <1>1
  <2>2. n * QueryLimit <= QueryLimit * QueryLimit
    BY <1>1
  <2>3. n * n \in Nat /\ n * QueryLimit \in Nat /\ QueryLimit * QueryLimit \in Nat
    BY <1>1
  <2>4. QED BY <2>1, <2>2, <2>3
<1>4. IsFiniteSet(M) /\ Cardinality(M) <= n * n
  BY <1>2, FS_Subset
<1>5. Cardinality(M) \in Nat /\ n * n \in Nat /\ QueryLimit * QueryLimit \in Nat
  BY <1>1, <1>4, FS_CardinalityType
<1> HIDE DEF n
<1>6. QED BY <1>3, <1>4, <1>5 DEF Most

LEMMA MostNat == Most \in Nat
BY LimitAssumption DEF Most

\* What a pass has before it, a merge counting for one.
Work == CASE phase = "edges"   -> Cardinality(merges) + 7
          [] phase = "merge"   -> Cardinality(merges) + 6
          [] phase = "facts"   -> 5
          [] phase = "fetched" -> 4
          [] phase = "ends"    -> 3
          [] phase = "found"   -> 2
          [] phase = "last"    -> 1
          [] OTHER             -> 0
WithinLimit == Work \in 0..(Most + 7)
PassSpends == [][/\ PassStep => Work' < Work
                 /\ phase # "none" => Work' <= Work]_all

MergesInv == IsFiniteSet(merges) /\ Cardinality(merges) <= Most

LEMMA MergesStep ==
  ASSUME PlanInv, FiniteInv, MergesInv, [Next]_all
  PROVE  MergesInv' /\ (PassStep => Work' < Work) /\ (phase # "none" => Work' <= Work)
<1> USE DEF PlanInv, PlanTypeOK, MergesInv, Enter
<1> DEFINE n == Cardinality(merges)
<1>0. n \in Nat /\ Most \in Nat
  BY FS_CardinalityType, MostNat
<1>1. CASE QueryNodes
  <2>1. PICK S \in Pages(DOMAIN Loaded.nodes), aka \in Aka :
          LET seen == S \cap Active(Loaded.nodes)
          IN  /\ \E P \in AliasMerges(seen, aka) :
                   /\ merges' = P \cup LabelMerges(seen \ Absorbed(P))
                   /\ settled' = IF P = {} THEN settled ELSE 0
              /\ quiet' = /\ seen = Active(Loaded.nodes)
                          /\ \A c \in Client : pc[c] = "idle"
    BY <1>1 DEF QueryNodes
  <2> DEFINE seen == S \cap Active(Loaded.nodes)
  <2>20. PICK P \in AliasMerges(seen, aka) :
          /\ merges' = P \cup LabelMerges(seen \ Absorbed(P))
          /\ settled' = IF P = {} THEN settled ELSE 0
    BY <2>1
  <2>2. IsFiniteSet(DOMAIN Loaded.nodes)
    BY LoadedGraph DEF FiniteInv, FiniteStore, FiniteGraph, Loaded
  <2>3. IsFiniteSet(S) /\ Cardinality(S) \in 0..QueryLimit
    BY <2>2, PageFits
  <2>4. merges' \in SUBSET (S \X S)
    BY <2>20, AliasOf, LabelOf
  <2>7. MergesInv'
    <3>1. IsFiniteSet(merges') /\ Cardinality(merges') <= Most
      BY <2>3, <2>4, FewMerges
    <3>2. QED BY <3>1 DEF Most
  <2>8. phase = "none" /\ ~PassStep
    BY <1>1 DEF QueryNodes, PassStep, QueryEdges, Merge, MergesDone, FetchEdges, DeprecateEdges,
               FetchNodes, DeprecateNodes, PassDone
  <2>9. QED BY <2>7, <2>8
<1>2. CASE QueryEdges
  BY <1>0, <1>2 DEF QueryEdges, Work
<1>3. CASE Merge
  <2>1. PICK m \in merges : merges' = merges \ {m}
    BY <1>3 DEF Merge
  <2>2. IsFiniteSet(merges') /\ Cardinality(merges') = n - 1
    BY <2>1, FS_RemoveElement
  <2>3. phase = "merge" /\ phase' = "merge"
    BY <1>3 DEF Merge
  <2>4. QED BY <1>0, <2>2, <2>3 DEF Work
<1>4. CASE MergesDone
  BY <1>0, <1>4 DEF MergesDone, Work, UnchangedPlan, plan
<1>5. CASE FetchEdges \/ DeprecateEdges \/ FetchNodes \/ DeprecateNodes \/ PassDone
  BY <1>0, <1>5 DEF FetchEdges, DeprecateEdges, FetchNodes, DeprecateNodes, PassDone, Work,
                    UnchangedPlan, plan
<1>6. CASE ClientRequest \/ StoreCall \/ UNCHANGED all
  <2>1. UNCHANGED <<phase, merges>>
    BY <1>6 DEF ClientRequest, StoreCall, CallStep, all, plan
  <2>2. ~PassStep
    <3>1. PassStep => phase' # phase \/ merges' # merges
      BY DEF PassStep, QueryEdges, Merge, MergesDone, FetchEdges, DeprecateEdges,
             FetchNodes, DeprecateNodes, PassDone
    <3>2. QED BY <2>1, <3>1
  <2>3. Work \in Nat
    BY <1>0 DEF Work
  <2>4. QED BY <2>1, <2>2, <2>3 DEF Work
<1>7. CASE CrashAll
  <2>1. merges' = {} /\ phase' = "none"
    BY <1>7 DEF CrashAll
  <2>2. MergesInv'
    BY <1>0, <2>1, FS_EmptySet
  <2>3. Work' = 0 /\ Work \in Nat
    BY <1>0, <2>1 DEF Work
  <2>4. PassStep => Work # 0
    BY <1>0 DEF PassStep, QueryEdges, Merge, MergesDone, FetchEdges, DeprecateEdges,
             FetchNodes, DeprecateNodes, PassDone, Work
  <2>5. QED BY <2>2, <2>3, <2>4
<1>8. QED BY <1>1, <1>2, <1>3, <1>4, <1>5, <1>6, <1>7 DEF Next, PassStep

\* A pass makes at most seven steps and one merge for each ordered pair of nodes of
\* its page (aliases may have one node absorbed by several), however its calls end
\* and whatever others do to the graph; PassEnds is this, and fairness.
THEOREM PassesAreFinite == Spec => []WithinLimit /\ PassSpends
<1> DEFINE I == PlanInv /\ FiniteInv /\ MergesInv
<1>1. InitAll => I
  <2>1. InitAll => MergesInv
    BY FS_EmptySet, MostNat DEF InitAll, MergesInv
  <2>2. QED BY <2>1, PlanInvInit, FiniteInit
<1>2. I /\ [Next]_all => I'
  BY PlanInvStep, FiniteStep, MergesStep
<1>3. I => WithinLimit
  <2>1. I => Cardinality(merges) \in Nat /\ Most \in Nat
    BY FS_CardinalityType, MostNat DEF MergesInv
  <2>2. QED BY <2>1 DEF MergesInv, WithinLimit, Work
<1>4. I /\ [Next]_all => (PassStep => Work' < Work) /\ (phase # "none" => Work' <= Work)
  BY MergesStep
<1> HIDE DEF I
<1>5. QED BY <1>1, <1>2, <1>3, <1>4, PTL DEF Spec, PassSpends

\* A pass that is under way finds its store loaded, its own call at rest where it
\* is about to make one; and every step of a call of the store may succeed.
GoesOn ==
  /\ phase # "none" => hydrated
  /\ phase \in {"edges", "facts", "fetched", "found"} => Idle
  /\ trouble <= MaxTrouble

LEMMA GoesOnStep ==
  ASSUME PlanInv, FiniteInv', GoesOn, [Next]_all
  PROVE  GoesOn'
<1> USE DEF PlanInv, PlanTypeOK, TypeOK, GoesOn, Enter, Idle
<1>1. Worker \in Call /\ Worker \notin Client /\ MaxTrouble \in Nat
  BY CallAssumption, BoundAssumption DEF Call
<1>2. CASE QueryNodes
  BY <1>2 DEF QueryNodes, control
<1>3. CASE PassStep
  <2>1. (Mutates(Worker) /\ UNCHANGED calls) \/ UNCHANGED vars
    BY <1>3, PassMutates
  <2>2. /\ hydrated' = TRUE \/ hydrated' = hydrated
        /\ trouble' = trouble
    BY <2>1 DEF Mutates, Mutation, Change, vars, store, control
  <2>3. phase # "none"
    BY <1>3 DEF PassStep, QueryEdges, Merge, MergesDone, FetchEdges, DeprecateEdges,
                FetchNodes, DeprecateNodes, PassDone
  <2>4. phase' \in {"edges", "facts", "fetched", "found"} => pc'[Worker] = "idle"
    BY <1>1, <1>3 DEF PassStep, QueryEdges, Merge, MergesDone, FetchEdges, DeprecateEdges,
                FetchNodes, DeprecateNodes, PassDone, vars, control
  <2>5. QED BY <2>2, <2>3, <2>4
<1>4. CASE ClientRequest
  <2>1. PICK c \in Client : Request(c)
    BY <1>4 DEF ClientRequest
  <2>2. c \in Call /\ c # Worker
    BY <1>1, <2>1 DEF Call
  <2>3. Mutates(c)
    BY <2>1, <2>2, RequestMutates
  <2>4. hydrated' = TRUE /\ trouble' = trouble /\ pc'[Worker] = pc[Worker]
    BY <1>1, <2>2, <2>3 DEF Mutates, Mutation, Change
  <2>5. QED BY <1>4, <2>4 DEF ClientRequest
<1>5. CASE StoreCall
  <2>1. PICK c \in Call : CallStep(c)
    BY <1>5 DEF StoreCall
  <2>2. /\ hydrated' = hydrated /\ phase' = phase
        /\ trouble' <= MaxTrouble
        /\ pc[c] # "idle"
    BY <2>1 DEF CallStep, StoreStep, DropSource, ExportSnapshot, ReadOldNodes, WriteNodes,
                WriteEdges, Rollback, Outcome, Failures, store
  <2>3. pc[Worker] = "idle" => pc'[Worker] = "idle"
    BY <1>1, <2>1, <2>2, StepSpends DEF CallStep
  <2>4. QED BY <2>2, <2>3
<1>6. CASE CrashAll
  BY <1>6 DEF CrashAll, Crash, Failures
<1>7. CASE UNCHANGED all
  BY <1>7 DEF all, vars, store, control
<1>8. QED BY <1>2, <1>3, <1>4, <1>5, <1>6, <1>7 DEF Next

\* No pass and no call of the store waits for something that nobody does.
THEOREM NobodyStuck == Spec => []GoesOn
<1> DEFINE I == PlanInv /\ FiniteInv
<1>1. InitAll => I /\ GoesOn
  <2>1. InitAll => GoesOn
    BY BoundAssumption DEF InitAll, Init, GoesOn
  <2>2. QED BY <2>1, PlanInvInit, FiniteInit
<1>2. I /\ GoesOn /\ [Next]_all => I' /\ GoesOn'
  BY PlanInvStep, FiniteStep, GoesOnStep
<1> HIDE DEF I
<1>3. QED BY <1>1, <1>2, PTL DEF Spec
=============================================================================
