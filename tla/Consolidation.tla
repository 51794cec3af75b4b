---------------------------- MODULE Consolidation ----------------------------
(***************************************************************************)
(* A consolidation pass over the graph, beside the other users of the      *)
(* store: consolidateMemory (memofs/local-strategy/graph.ts) with          *)
(* consolidateGraph and applyConsolidation                                 *)
(* (graph/consolidation/consolidate.ts).                                   *)
(*                                                                         *)
(* A pass reads the nodes, then the edges, each read one page of at most   *)
(* QueryLimit records that have not expired; decides which duplicates to   *)
(* merge and which facts a `supersedes' edge retires; and applies the plan *)
(* call by call through the store, going on when a call throws.  The edge  *)
(* ids of the plan are those read before the merges.                       *)
(*                                                                         *)
(* What is abstracted: a record may be expired at any read; the aliases of *)
(* a node are any that a pass may find (a merge adds the absorbed label,   *)
(* an upsert whatever it likes); the merges of a plan are applied in any   *)
(* order, the code's among them; no two nodes are of the same instant      *)
(* (orderPair and orderGroup break such ties differently); an edge whose id*)
(* is also the id of a node is left out (invalidateSupersededEdges would   *)
(* retire it).                                                             *)
(***************************************************************************)
EXTENDS GraphStore

CONSTANTS
  labelOf,     \* node -> its canonical label
  Aka,         \* relations a pass may find: the aliases of m hold the id of n
  Supersedes,  \* the type of the edges that retire their target
  QueryLimit,  \* records a query returns at most
  MaxPasses    \* bound: consolidation passes

ASSUME LabelAssumption == DOMAIN labelOf = Node
ASSUME AkaAssumption == Aka \subseteq SUBSET (Node \X Node)
ASSUME SupersedesAssumption == Supersedes \in Type
ASSUME LimitAssumption == QueryLimit \in Nat \ {0} /\ MaxPasses \in Nat

VARIABLES
  phase,       \* where the pass is
  merges, facts, ends,  \* the plan: pairs to merge, edges and nodes to retire
  quiet,       \* history: nothing disturbed or cut short the pass so far
  settled,     \* history: undisturbed passes since a merge by alias
  passes

plan == <<merges, facts, ends>>
all == <<vars, phase, plan, quiet, settled, passes>>

Phases == {"none", "edges", "merge", "facts", "fetched", "ends", "found", "last"}

PlanTypeOK ==
  /\ TypeOK
  /\ phase \in Phases
  /\ merges \subseteq Node \X Node /\ facts \subseteq Edge /\ ends \subseteq Node
  /\ quiet \in BOOLEAN /\ settled \in Nat /\ passes \in Nat

InitAll ==
  /\ Init
  /\ phase = "none" /\ merges = {} /\ facts = {} /\ ends = {}
  /\ quiet = FALSE /\ settled = 0 /\ passes = 0

Active(f) == {x \in DOMAIN f : f[x] = "active"}

(* The records of S that one query returns: those that have not expired, as *)
(* many as fit the page                                                     *)
Pages(S) == {T \in SUBSET S : Cardinality(T) <= QueryLimit}

(* A merge is a pair of nodes; the earlier takes in the later. *)
Earlier(m) == IF m[1] < m[2] THEN m[1] ELSE m[2]
Later(m) == IF m[1] < m[2] THEN m[2] ELSE m[1]
Absorbed(P) == {Later(m) : m \in P}

(* The merges that aliases ask for, one node after the other: <<c, a>> when *)
(* c names a, unless a has been absorbed by then.  That c has been absorbed *)
(* is not looked at, so a pair may be planned from both its sides and a     *)
(* node absorbed by several.                                                *)
AliasMerges(S, aka) ==
  LET named == {m \in aka \cap (S \X S) : m[1] # m[2]}
  IN  {P \in SUBSET named :
         /\ \A m \in named \ P : m[2] \in Absorbed(P)
         /\ \A m, n \in P :
              m[2] = n[2] /\ m[2] = Later(m) /\ n[2] = Later(n) => m = n}

(* The earliest node of each label takes in the others *)
LabelMerges(S) ==
  {m \in S \X S : /\ m[1] # m[2] /\ labelOf[m[1]] = labelOf[m[2]]
                  /\ \A n \in S : labelOf[n] = labelOf[m[1]] => m[1] <= n}

Superseded(S) == {e.to : e \in {d \in S : d.type = Supersedes}}

(* Mutant: only the edges that point at a superseded node are retired. *)
RetiredFactsIn(S) == {e \in S : e.type # Supersedes /\ e.to \in Superseded(S)}

RetiredFacts(S) ==
  {e \in S : e.type # Supersedes /\ Ends(e) \cap Superseded(S) # {}}

Idle == pc[Worker] = "idle"
UnchangedPlan == UNCHANGED <<plan, quiet, settled, passes>>
Enter(p) == phase' = p

-----------------------------------------------------------------------------
(* Reading and deciding *)

QueryNodes ==
  /\ phase = "none" /\ Idle /\ CanLoad /\ passes < MaxPasses
  /\ \E S \in Pages(DOMAIN Loaded.nodes), aka \in Aka :
       LET seen == S \cap Active(Loaded.nodes)
       IN  /\ \E P \in AliasMerges(seen, aka) :
                /\ merges' = P \cup LabelMerges(seen \ Absorbed(P))
                /\ settled' = IF P = {} THEN settled ELSE 0
           /\ quiet' = /\ seen = Active(Loaded.nodes)
                       /\ \A c \in Client : pc[c] = "idle"
  /\ mem' = Loaded /\ hydrated' = TRUE
  /\ passes' = passes + 1 /\ Enter("edges")
  /\ UNCHANGED <<disk, control, history, calls, trouble, facts, ends>>

(* The edges of the page that are deprecated already are planned once more. *)
QueryEdges ==
  /\ phase = "edges"
  /\ \E S \in Pages(DOMAIN mem.edges) :
       LET seen == S \cap Active(mem.edges)
       IN  /\ facts' = RetiredFacts(seen) \cup (S \ seen) /\ ends' = Superseded(seen)
           /\ quiet' = (quiet /\ seen = Active(mem.edges))
  /\ Enter("merge") /\ UNCHANGED <<vars, merges, settled, passes>>

-----------------------------------------------------------------------------
(* Applying: each call of the store runs to its end, well or not *)

(* Mutant: a merge that failed stays in the plan. *)
MergeRetried ==
  /\ phase = "merge" /\ Idle
  /\ \E m \in merges :
       MergeNodes(Worker, Later(m), Earlier(m))
       /\ merges' = IF pc'[Worker] = "idle" THEN merges ELSE merges \ {m}
  /\ quiet' = (quiet /\ pc'[Worker] # "idle")
  /\ UNCHANGED <<calls, phase, facts, ends, settled, passes>>

Merge ==
  /\ phase = "merge" /\ Idle
  /\ \E m \in merges :
       MergeNodes(Worker, Later(m), Earlier(m)) /\ merges' = merges \ {m}
  /\ quiet' = (quiet /\ pc'[Worker] # "idle")      \* not when it threw
  /\ UNCHANGED <<calls, phase, facts, ends, settled, passes>>

MergesDone ==
  /\ phase = "merge" /\ Idle /\ merges = {}
  /\ Enter("facts") /\ UNCHANGED vars /\ UnchangedPlan

(* getEdge of each planned id, then one upsert of those that exist *)
FetchEdges ==
  /\ phase = "facts"
  /\ facts' = facts \cap DOMAIN mem.edges
  /\ Enter("fetched") /\ UNCHANGED <<vars, merges, ends, quiet, settled, passes>>

DeprecateEdges ==
  /\ phase = "fetched" /\ Enter("ends")
  /\ IF facts = {} THEN UNCHANGED vars ELSE RetireEdges(Worker, facts) /\ UNCHANGED calls
  /\ UnchangedPlan

FetchNodes ==
  /\ phase = "ends" /\ Idle
  /\ ends' = ends \cap DOMAIN mem.nodes
  /\ Enter("found") /\ UNCHANGED <<vars, merges, facts, quiet, settled, passes>>

DeprecateNodes ==
  /\ phase = "found" /\ Enter("last")
  /\ IF ends = {} THEN UNCHANGED vars ELSE RetireNodes(Worker, ends) /\ UNCHANGED calls
  /\ UnchangedPlan

PassDone ==
  /\ phase = "last" /\ Idle /\ Enter("none")
  /\ settled' = IF quiet THEN settled + 1 ELSE 0
  /\ facts' = {} /\ ends' = {}
  /\ UNCHANGED <<vars, merges, quiet, passes>>

-----------------------------------------------------------------------------

Disturb == quiet' = FALSE /\ settled' = 0

ClientRequest ==
  /\ \E c \in Client : Request(c)
  /\ Disturb /\ UNCHANGED <<phase, plan, passes>>

CallStep(c) ==
  /\ StoreStep(c)
  /\ quiet' = (quiet /\ trouble' = trouble)
  /\ UNCHANGED <<phase, plan, settled, passes>>
StoreCall == \E c \in Call : CallStep(c)

CrashAll ==
  /\ Crash /\ Disturb
  /\ phase' = "none" /\ merges' = {} /\ facts' = {} /\ ends' = {}
  /\ UNCHANGED passes

PassStep ==
  \/ QueryEdges \/ Merge \/ MergesDone \/ FetchEdges \/ DeprecateEdges
  \/ FetchNodes \/ DeprecateNodes \/ PassDone

Next == QueryNodes \/ PassStep \/ ClientRequest \/ StoreCall \/ CrashAll

(* A call in flight goes on, and so does a pass; nobody has to start one. *)
Fairness == WF_all(PassStep) /\ \A c \in Call : WF_all(CallStep(c))
Spec == InitAll /\ [][Next]_all /\ Fairness

-----------------------------------------------------------------------------
(* Properties *)

AtRest == \A c \in Call : pc[c] = "idle"

(* While calls do not overlap, no edge in memory lacks a node, whatever was *)
(* upserted, merged, deleted or half done; between the two halves of a      *)
(* merge only the absorbed node may be left without its edges.              *)
EndsExist == ~overlapped => Loadable(mem)

(* While calls do not overlap, the pair of files can always be loaded       *)
(* again, through failed writes and crashes at any step, unless a persist   *)
(* that dropped nodes stopped between its two writes: a graph that only     *)
(* grows is safe because its nodes are written before its edges.            *)
FilesLoad == ~overlapped /\ ~torn /\ AtRest => Loadable(disk)

(* A mutator that failed leaves the files as the last complete persist, or  *)
(* the restart, found them: both old or both new.                           *)
OldOrNew == ~overlapped /\ AtRest => disk = durable

(* Two passes in a row that saw every active record, alone and without      *)
(* failure, the second finding no alias to merge by, leave nothing to do: no*)
(* two active nodes of one label, and no active fact about a node that an   *)
(* active `supersedes' edge retires.  One pass is not enough: its merges    *)
(* rename the edges its plan retires.                                       *)
Settled(g) ==
  /\ \A m, n \in Active(g.nodes) : labelOf[m] = labelOf[n] => m = n
  /\ \A d, e \in Active(g.edges) : d.type = Supersedes =>
       /\ d.to \notin Active(g.nodes)
       /\ d.to \in Ends(e) => e.type = Supersedes
CleanAfterTwoPasses == settled >= 2 /\ ~overlapped => Settled(mem)

(* A merge keeps every fact about a third node: an edge of the absorbed     *)
(* node goes to the survivor under a new id, and none takes the place of    *)
(* another edge.                                                            *)
Facts(g) == {Origin(e) : e \in DOMAIN g.edges}
MergeStarts(s) == \E c \in Call : pc[c] = "idle" /\ pc'[c] = "drop" /\ gap'[c] = s
MergeKeepsFacts ==
  [][\A s \in Node : MergeStarts(s) =>
       \E t \in Node \ {s} : \A e \in DOMAIN Loaded.edges :
         Ends(e) = {s, t} \/ Origin(e) \in Facts(mem')]_all

(* A call that began ends, and so does a pass. *)
CallsSettle == \A c \in Call : pc[c] # "idle" ~> pc[c] = "idle"
PassEnds == phase # "none" ~> phase = "none"

(* fs-graph-store.ts says that after a crash between the two writes the     *)
(* next hydrate sees a consistent pair.                                     *)
HydrateFindsPair == ~hydrated => Loadable(disk)
=============================================================================
