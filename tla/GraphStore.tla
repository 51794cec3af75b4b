------------------------------ MODULE GraphStore ------------------------------
(***************************************************************************)
(* The persistent knowledge graph: FsGraphStore                            *)
(* (packages/core/src/graph/stores/fs-graph-store.ts) over the maps of     *)
(* InMemoryGraphStore (stores/in-memory-graph-store.ts).                   *)
(*                                                                         *)
(* Every mutator loads the two files on first use (hydrate), changes the   *)
(* maps without yielding, and then rewrites both files from a snapshot of  *)
(* the maps (persist): nodes.jsonl first, edges.jsonl second, and          *)
(* nodes.jsonl back to what it held when the second write fails.  The      *)
(* awaits between those steps are where other calls and a crash come in.   *)
(* A merge yields once more, between moving the edges of the absorbed node *)
(* and deleting it.                                                        *)
(*                                                                         *)
(* A file is a function from the ids it holds to their status, where       *)
(* "deprecated" stands for every status but active; a missing file reads   *)
(* like an empty one.  The id of an edge is a hash of its ends, *)
(* type and dedupe key: here the edge is its own id.  `key' holds the id   *)
(* an edge had before its first merge, {} when it never moved.             *)
(***************************************************************************)
EXTENDS Naturals, FiniteSets

CONSTANTS
  Node,        \* node ids, smaller when created earlier
  Type,        \* edge types
  Client,      \* callers that use the store directly
  Worker,      \* the caller that consolidates
  None,        \* no node
  Linkable,    \* edges that clients add
  Stored,      \* graphs the files may hold at first
  MaxCalls,    \* bound: client calls
  MaxTrouble   \* bound: failed file operations and crashes

Call == Client \cup {Worker}
Status == {"active", "deprecated"}
Triple == [from : Node, to : Node, type : Type]
Edge == [from : Node, to : Node, type : Type, key : SUBSET Triple]

Table(f, S) == DOMAIN f \subseteq S /\ f \in [DOMAIN f -> Status]
Ends(e) == {e.from, e.to}
Loadable(g) == \A e \in DOMAIN g.edges : Ends(e) \subseteq DOMAIN g.nodes
IsGraph(g) == /\ g = [nodes |-> g.nodes, edges |-> g.edges]
              /\ Table(g.nodes, Node) /\ Table(g.edges, Edge)

ASSUME NodeAssumption == Node \subseteq Nat /\ None \notin Node
ASSUME CallAssumption == Worker \notin Client
ASSUME LinkAssumption == Linkable \subseteq Edge /\ \A e \in Linkable : e.from # e.to
ASSUME StoredAssumption ==
  \A g \in Stored : /\ IsGraph(g) /\ Loadable(g)
                    /\ IsFiniteSet(DOMAIN g.nodes) /\ IsFiniteSet(DOMAIN g.edges)
ASSUME BoundAssumption == MaxCalls \in Nat /\ MaxTrouble \in Nat

VARIABLES
  disk,        \* the two files
  mem,         \* the maps of InMemoryGraphStore
  hydrated,
  pc,          \* caller -> the step of its store call
  gap,         \* caller -> node its merge has yet to delete
  snap,        \* caller -> the snapshot its persist writes
  old,         \* caller -> oldNodes
  durable,     \* history: the pair the last complete persist wrote
  overlapped,  \* history: two calls were in flight at once
  torn,        \* history: a persist that dropped nodes stopped half way
  calls, trouble

store == <<disk, mem, hydrated>>
control == <<pc, gap, snap, old>>
history == <<durable, overlapped, torn>>
vars == <<store, control, history, calls, trouble>>

Steps == {"idle", "drop", "export", "read", "nodes", "edges", "rollback"}
NoGraph == [nodes |-> <<>>, edges |-> <<>>]

TypeOK ==
  /\ IsGraph(disk) /\ IsGraph(mem) /\ IsGraph(durable)
  /\ hydrated \in BOOLEAN /\ overlapped \in BOOLEAN /\ torn \in BOOLEAN
  /\ pc \in [Call -> Steps]
  /\ gap \in [Call -> {None} \cup Node]
  /\ DOMAIN snap = Call /\ DOMAIN old = Call
  /\ \A c \in Call : IsGraph(snap[c]) /\ Table(old[c], Node)
  /\ calls \in Nat /\ trouble \in Nat

Init ==
  /\ disk \in Stored /\ durable = disk
  /\ mem = NoGraph /\ hydrated = FALSE
  /\ pc = [c \in Call |-> "idle"] /\ gap = [c \in Call |-> None]
  /\ snap = [c \in Call |-> NoGraph] /\ old = [c \in Call |-> <<>>]
  /\ overlapped = FALSE /\ torn = FALSE
  /\ calls = 0 /\ trouble = 0

-----------------------------------------------------------------------------
(* The maps *)

Upsert(f, S) == [x \in DOMAIN f \cup S |-> IF x \in DOMAIN f THEN f[x] ELSE "active"]
(* Mutant: the patch carries a status the schema does not know. *)
RetireAs(f, S) == [x \in DOMAIN f \cup S |-> IF x \in S THEN "retired" ELSE f[x]]

Retire(f, S) == [x \in DOMAIN f \cup S |-> IF x \in S THEN "deprecated" ELSE f[x]]

Without(f, S) == [x \in DOMAIN f \ S |-> f[x]]
Touching(g, n) == {e \in DOMAIN g.edges : n \in Ends(e)}

Origin(e) == IF e.key = {} THEN {[from |-> e.from, to |-> e.to, type |-> e.type]} ELSE e.key

(* Mutant: the moved edge does not remember the id it had. *)
RewireForgets(e, s, t) ==
  [e EXCEPT !.from = IF @ = s THEN t ELSE @, !.to = IF @ = s THEN t ELSE @]

Rewire(e, s, t) ==
  [from |-> IF e.from = s THEN t ELSE e.from, to |-> IF e.to = s THEN t ELSE e.to,
   type |-> e.type, key |-> Origin(e)]

(* The edges of s that a merge into t keeps: those to a third node *)
Kept(g, s, t) == {e \in Touching(g, s) : t \notin Ends(e)}

(* The upsert of the moved edges throws when an end is missing or when two  *)
(* of them get one id.                                                      *)
Movable(g, s, t) ==
  /\ \A e \in Kept(g, s, t) : Ends(Rewire(e, s, t)) \subseteq DOMAIN g.nodes
  /\ \A d, e \in Kept(g, s, t) : Rewire(d, s, t) = Rewire(e, s, t) => d = e

Deleted(g, n) == IF n \in DOMAIN g.nodes
                 THEN [nodes |-> Without(g.nodes, {n}), edges |-> Without(g.edges, Touching(g, n))]
                 ELSE g

Unlinked(g, s) == [g EXCEPT !.edges = Without(@, Touching(g, s))]

Moved(g, s, t) ==
  LET stay == DOMAIN g.edges \ Touching(g, s)
      image == {Rewire(e, s, t) : e \in Kept(g, s, t)}
  IN  [g EXCEPT !.edges = [x \in stay \cup image |->
         IF x \in image THEN g.edges[CHOOSE e \in Kept(g, s, t) : Rewire(e, s, t) = x]
                        ELSE g.edges[x]]]

-----------------------------------------------------------------------------
(* Mutators: hydrate, then the change of the maps, in one step *)

Loaded == IF hydrated THEN mem ELSE disk
CanLoad == hydrated \/ Loadable(disk)
Busy(c) == \E d \in Call \ {c} : pc[d] # "idle"

Change(c, g, step) ==
  /\ pc[c] = "idle" /\ CanLoad
  /\ mem' = g /\ hydrated' = TRUE
  /\ pc' = [pc EXCEPT ![c] = step]
  /\ overlapped' = (overlapped \/ Busy(c))
  /\ UNCHANGED <<disk, snap, old, durable, torn, trouble>>

UpsertNodes(c, S) ==
  Change(c, [Loaded EXCEPT !.nodes = Upsert(@, S)], "export") /\ UNCHANGED gap
RetireNodes(c, S) ==
  Change(c, [Loaded EXCEPT !.nodes = Retire(@, S)], "export") /\ UNCHANGED gap

(* upsertEdges throws, with nothing changed, when an end is missing *)

(* Mutant: edges are accepted whether or not their nodes exist. *)
LinkedBlind(g, S) == TRUE

Linked(g, S) == \A e \in S : Ends(e) \subseteq DOMAIN g.nodes

UpsertEdges(c, S) ==
  /\ IF Linked(Loaded, S)
     THEN Change(c, [Loaded EXCEPT !.edges = Upsert(@, S)], "export")
     ELSE Change(c, Loaded, "idle")
  /\ UNCHANGED gap
RetireEdges(c, S) ==
  /\ IF Linked(Loaded, S)
     THEN Change(c, [Loaded EXCEPT !.edges = Retire(@, S)], "export")
     ELSE Change(c, Loaded, "idle")
  /\ UNCHANGED gap

DeleteNode(c, n) == Change(c, Deleted(Loaded, n), "export") /\ UNCHANGED gap

(* deleteEdge, and decayEdges with the edges that fall below minWeight *)
DeleteEdges(c, S) ==
  Change(c, [Loaded EXCEPT !.edges = Without(@, S)], "export") /\ UNCHANGED gap

(* importSnapshot replaces the maps; clear imports nothing *)
ImportSnapshot(c, g) == Change(c, g, "export") /\ UNCHANGED gap

(* mergeNodes: the edges of s leave the maps before the upsert that may     *)
(* throw; when there are edges to move the call yields before it deletes s. *)
MergeNodes(c, s, t) ==
  IF {s, t} \subseteq DOMAIN Loaded.nodes
  THEN IF Kept(Loaded, s, t) = {}
       THEN DeleteNode(c, s)
       ELSE IF Movable(Loaded, s, t)
       THEN /\ Change(c, Moved(Loaded, s, t), "drop")
            /\ gap' = [gap EXCEPT ![c] = s]
       ELSE Change(c, Unlinked(Loaded, s), "idle") /\ UNCHANGED gap
  ELSE Change(c, Loaded, "idle") /\ UNCHANGED gap

DropSource(c) ==
  /\ pc[c] = "drop"
  /\ mem' = [mem EXCEPT !.nodes = Without(@, {gap[c]})]
  /\ gap' = [gap EXCEPT ![c] = None]
  /\ pc' = [pc EXCEPT ![c] = "export"]
  /\ UNCHANGED <<disk, hydrated, snap, old, history, calls, trouble>>

-----------------------------------------------------------------------------
(* persist *)

Failures(n) == trouble + n <= MaxTrouble /\ trouble' = trouble + n
Outcome(ok) == Failures(IF ok THEN 0 ELSE 1)
Goto(c, step) == pc' = [pc EXCEPT ![c] = step]
Locals(c, g, f) == snap' = [snap EXCEPT ![c] = g] /\ old' = [old EXCEPT ![c] = f]
Return(c) == Goto(c, "idle") /\ Locals(c, NoGraph, <<>>)

ExportSnapshot(c) ==
  /\ pc[c] = "export" /\ Goto(c, "read") /\ Locals(c, mem, <<>>)
  /\ UNCHANGED <<store, gap, history, calls, trouble>>

ReadOldNodes(c) ==
  /\ pc[c] = "read"
  /\ \E ok \in BOOLEAN :
       /\ Outcome(ok)
       /\ IF ok THEN Goto(c, "nodes") /\ Locals(c, snap[c], disk.nodes) ELSE Return(c)
  /\ UNCHANGED <<store, gap, history, calls>>

WriteNodes(c) ==
  /\ pc[c] = "nodes"
  /\ \E ok \in BOOLEAN :
       /\ Outcome(ok)
       /\ IF ok THEN Goto(c, "edges") /\ UNCHANGED <<snap, old>> ELSE Return(c)
       /\ disk' = [disk EXCEPT !.nodes = IF ok THEN snap[c].nodes ELSE @]
  /\ UNCHANGED <<mem, hydrated, gap, history, calls>>

WriteEdges(c) ==
  /\ pc[c] = "edges"
  /\ \E ok \in BOOLEAN :
       /\ Outcome(ok)
       /\ IF ok THEN Return(c) ELSE Goto(c, "rollback") /\ UNCHANGED <<snap, old>>
       /\ disk' = [disk EXCEPT !.edges = IF ok THEN snap[c].edges ELSE @]
       /\ durable' = IF ok THEN snap[c] ELSE durable
       /\ torn' = (torn /\ ~ok)
  /\ UNCHANGED <<mem, hydrated, gap, overlapped, calls>>

(* nodes.jsonl holds the snapshot of c, edges.jsonl does not yet, and the   *)
(* snapshot misses a node the last complete pair had                        *)
HalfDropped(c) ==
  pc[c] \in {"edges", "rollback"} /\ ~(DOMAIN durable.nodes \subseteq DOMAIN snap[c].nodes)

(* Mutant: a failed second write leaves the first one in place. *)
RollbackSkipped(c) ==
  /\ pc[c] = "rollback" /\ Return(c)
  /\ UNCHANGED <<store, gap, history, calls, trouble>>

(* Mutant: the rollback deletes nodes.jsonl although it existed before. *)
RollbackDeletes(c) ==
  /\ pc[c] = "rollback" /\ Return(c)
  /\ disk' = [disk EXCEPT !.nodes = <<>>]
  /\ UNCHANGED <<mem, hydrated, gap, history, calls, trouble>>

(* Mutant: nothing is done when there was no nodes.jsonl to put back. *)
RollbackOfFile(c) ==
  /\ pc[c] = "rollback" /\ old[c] # <<>> /\ Return(c)
  /\ disk' = [disk EXCEPT !.nodes = old[c]]
  /\ UNCHANGED <<mem, hydrated, gap, history, calls, trouble>>

Rollback(c) ==
  /\ pc[c] = "rollback" /\ Return(c)
  /\ \E ok \in BOOLEAN :
       /\ Outcome(ok)
       /\ disk' = [disk EXCEPT !.nodes = IF ok THEN old[c] ELSE @]
       /\ durable' = IF ok THEN durable ELSE [durable EXCEPT !.nodes = snap[c].nodes]
       /\ torn' = (torn \/ (~ok /\ HalfDropped(c)))
  /\ UNCHANGED <<mem, hydrated, gap, overlapped, calls>>

(* The process dies, between any two steps *)
Crash ==
  /\ Failures(1)
  /\ mem' = NoGraph /\ hydrated' = FALSE
  /\ pc' = [c \in Call |-> "idle"] /\ gap' = [c \in Call |-> None]
  /\ snap' = [c \in Call |-> NoGraph] /\ old' = [c \in Call |-> <<>>]
  /\ durable' = disk
  /\ torn' = (torn \/ \E c \in Call : HalfDropped(c))
  /\ UNCHANGED <<disk, overlapped, calls>>

StoreStep(c) ==
  \/ DropSource(c) \/ ExportSnapshot(c) \/ ReadOldNodes(c)
  \/ WriteNodes(c) \/ WriteEdges(c) \/ Rollback(c)

(* What a client of the store asks for *)
Request(c) ==
  /\ calls < MaxCalls /\ calls' = calls + 1
  /\ \/ \E n \in Node : UpsertNodes(c, {n})
     \/ \E n \in DOMAIN Loaded.nodes : RetireNodes(c, {n})
     \/ \E n \in Node : DeleteNode(c, n)
     \/ \E e \in Linkable : UpsertEdges(c, {e})
     \/ \E e \in DOMAIN Loaded.edges : DeleteEdges(c, {e})
     \/ \E s, t \in Node : s # t /\ MergeNodes(c, s, t)
     \/ \E g \in Stored : ImportSnapshot(c, g)
=============================================================================
