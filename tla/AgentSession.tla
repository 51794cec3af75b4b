----------------------------- MODULE AgentSession -----------------------------
(***************************************************************************)
(* Agent sessions of one device in hybrid mode: prepare() and complete() of *)
(* createMemoFsAgentSession (packages/core/src/agentfs/session/            *)
(* agent-session.ts), whose sync hooks are the pull and the pushFull of    *)
(* FileSync (memofs/local-strategy/client.ts).  A session is a call of     *)
(* FileSync twice, and a fact: the durable note it leaves.                 *)
(***************************************************************************)
EXTENDS FileSync

CONSTANTS
  Session,
  Client,     \* plain calls of memofs.sync
  Linked,     \* facts the user writes to the graph
  Failure     \* the session.failed event

ASSUME SessionAssumption ==
  /\ Call = Session \cup Client /\ Session \cap Client = {}
  /\ Session \cup Linked \cup {Failure} \subseteq Fact

VARIABLES
  stage,    \* session -> where it is
  outcome,  \* session -> options.outcome of complete
  work,     \* sessions whose working files exist
  noted,    \* history: sessions whose last complete appended a durable note
  raced     \* history: sessions that lost their note while they completed

sessionVars == <<stage, outcome, work, noted, raced>>
vars == <<syncVars, sessionVars>>

Stages == {"new", "preparing", "working", "checkpoint", "pushing", "closed"}
Outcomes == {"success", "failure", "aborted"}

TypeOK ==
  /\ SyncTypeOK
  /\ stage \in [Session -> Stages] /\ outcome \in [Session -> Outcomes]
  /\ work \subseteq Session /\ noted \subseteq Session /\ raced \subseteq Session

(* A session may have been prepared by an earlier process *)
Init ==
  /\ SyncInit
  /\ stage \in [Session -> {"new", "working"}]
  /\ work = {s \in Session : stage[s] = "working"}
  /\ outcome = [s \in Session |-> "success"] /\ noted = {} /\ raced = {}

-----------------------------------------------------------------------------
Enter(s, step) == stage' = [stage EXCEPT ![s] = step]

(* prepare: syncBeforeSession, then createAgentWorkspaceFiles, which may    *)
(* fail with some of the working files written                              *)
Prepare(s) ==
  /\ stage[s] = "new" /\ Enter(s, "preparing")
  /\ Asked /\ Start(s, "pull")
  /\ UNCHANGED <<kept, outcome, work, noted, raced>>

Prepared(s) ==
  /\ stage[s] = "preparing" /\ ~Running(s)
  /\ \/ pc[s] = "done" /\ Enter(s, "working") /\ work' = work \cup {s} /\ UNCHANGED bounds
     \/ pc[s] = "done" /\ Event /\ Enter(s, "new") /\ UNCHANGED work
     \/ pc[s] = "failed" /\ Enter(s, "new") /\ UNCHANGED <<work, bounds>>
  /\ UNCHANGED <<device, replica, pc, locals, history, outcome, noted, raced>>

(* complete: an aborted session skips everything; a successful one appends  *)
(* its durable note to notes.md first.  (Nothing is promised of a success   *)
(* without a note, or with one the blocklist stops: it is left out.)        *)
CompleteSession(s) ==
  /\ stage[s] = "working"
  /\ \E o \in Outcomes :
       /\ outcome' = [outcome EXCEPT ![s] = o]
       /\ Asked /\ UNCHANGED events
       /\ Enter(s, IF o = "aborted" THEN "closed" ELSE "checkpoint")
       /\ noted' = IF o = "success" THEN noted \cup {s} ELSE noted \ {s}
       /\ IF o = "success" THEN AppendNotes({s}) ELSE UNCHANGED <<disk, late, quiet>>
  /\ raced' = raced \ {s}
  /\ UNCHANGED <<kept, runtime, replica, pc, locals, sent, mixed, work>>

(* checkpointStore is one more snapshot, unless skipped, and may throw; the *)
(* push then starts with a snapshot of its own.  What the checkpoint keeps  *)
(* is not counted in `kept'.                                                *)
Checkpoint(s) ==
  /\ stage[s] = "checkpoint"
  /\ \/ Enter(s, "pushing") /\ Start(s, "push") /\ UNCHANGED <<kept, calls>>
     \/ /\ Enter(s, "working") /\ Event
        /\ UNCHANGED <<device, replica, pc, locals, history>>
  /\ UNCHANGED <<outcome, work, noted, raced>>

(* The push threw, or the deletion of the working files after it: complete  *)
(* rejects, and the session can be completed again.                         *)
PushFailed(s) ==
  /\ stage[s] = "pushing" /\ Enter(s, "working")
  /\ \/ pc[s] = "failed" /\ UNCHANGED bounds
     \/ pc[s] = "done" /\ Event
  /\ UNCHANGED <<device, replica, pc, locals, history, outcome, work, noted, raced>>

(* Mutant: the working files go whatever became of the push. *)
CleanAnyway(s) ==
  /\ stage[s] = "pushing" /\ ~Running(s) /\ Enter(s, "closed")
  /\ work' = work \ {s}
  /\ UNCHANGED <<syncVars, outcome, noted, raced>>

(* The push is through: a successful session drops its working files, a     *)
(* failed one reports its failure and keeps them unless it is ephemeral.    *)
Pushed(s) ==
  /\ stage[s] = "pushing" /\ pc[s] = "done" /\ Enter(s, "closed")
  /\ work' \in IF outcome[s] = "success" THEN {work \ {s}} ELSE {work, work \ {s}}
  /\ IF outcome[s] = "failure" THEN AppendNotes({Failure}) ELSE UNCHANGED <<disk, late, quiet>>
  /\ UNCHANGED <<kept, runtime, replica, pc, locals, sent, mixed,
                 outcome, noted, raced, bounds>>

(* Calls of memofs.sync that change anything: pull.  Its push is the first  *)
(* phase alone (hybrid-strategy.ts), a manifest and a request; a caller     *)
(* that uploads and completes on its own is one more device to this model.  *)
Sync(c) == Asked /\ Start(c, "pull") /\ UNCHANGED <<kept, sessionVars>>

(* A session that is completing loses its note, to the cloud's version of   *)
(* notes.md in a pull of another call, to a template, or to a writer that   *)
(* read the notes before it, and its push no longer finds it.               *)
Completing(s) == stage[s] \in {"checkpoint", "pushing"}
Losing(s) == Completing(s) /\ s \in Get(disk, Notes) \ Get(disk', Notes)
Race == raced' = raced \cup {s \in Session : Losing(s)}

(* Writes of the user *)
WriteRead(f) == ReadNotes(f) /\ UNCHANGED sessionVars
WriteBack(f) == WriteNotes(f) /\ Race /\ UNCHANGED <<stage, outcome, work, noted>>
Link(f) == LinkNodes(f) /\ UNCHANGED sessionVars
LinkDone == LinkEdges /\ UNCHANGED sessionVars
Foreign(f) == Elsewhere(f) /\ UNCHANGED sessionVars

Step(c) == SyncStep(c) /\ Race /\ UNCHANGED <<stage, outcome, work, noted>>

Crash ==
  /\ Restart
  /\ stage' = [s \in Session |-> CASE stage[s] = "preparing" -> "new"
                                   [] Completing(s) -> "working"
                                   [] OTHER -> stage[s]]
  /\ UNCHANGED <<outcome, work, noted, raced>>

SessionStep(s) == Prepared(s) \/ Checkpoint(s) \/ PushFailed(s) \/ Pushed(s)

Next ==
  \/ \E c \in Call : Step(c)
  \/ \E s \in Session : Prepare(s) \/ CompleteSession(s) \/ SessionStep(s)
  \/ \E c \in Client : Sync(c)
  \/ \E f \in Written : WriteRead(f) \/ WriteBack(f)
  \/ \E f \in Linked : Link(f)
  \/ LinkDone
  \/ \E f \in Remote : Foreign(f)
  \/ Crash

(* What a session awaits settles: requests time out (DEFAULT_TIMEOUT_MS,    *)
(* SYNC_TIMEOUT_MS), file operations answer.  Nothing makes a caller call,  *)
(* and nothing is assumed of the calls of clients.                          *)
Fairness == \A s \in Session : WF_vars(Step(s) \/ SessionStep(s))

Spec == Init /\ [][Next]_vars /\ Fairness

-----------------------------------------------------------------------------
(* A session drops its working files only once its durable note is in the   *)
(* cloud, however its push was refused, lost or retried, unless something   *)
(* took the note out of notes.md while it completed (`raced').              *)
SessionReplicated ==
  \A s \in noted \ raced : s \in work \/ stage[s] = "new" \/ s \in sent

(* A session never stays preparing or completing: prepare() and complete()  *)
(* answer, however many requests to the cloud are lost or refused.          *)
SessionsAnswer ==
  \A s \in Session : []<>(stage[s] \in {"new", "working", "closed"})
=============================================================================
