---------------------------- MODULE MemoryFiles ----------------------------
(***************************************************************************)
(* What a MemoryStore promises to the callers of its methods, seen from    *)
(* outside (packages/core/src/core/types/memory-store.ts): a set of files  *)
(* on which every call takes effect once and at one instant, between being *)
(* made and being answered, or not at all when it is rejected.  A call     *)
(* whose answer is an error may have taken effect: the caller cannot tell. *)
(*                                                                         *)
(* Module RemoteBlob implements it.                                        *)
(***************************************************************************)
EXTENDS Sequences

CONSTANTS
  Task,        \* calls
  Path,        \* memory paths
  Body,        \* strings a call writes
  kindOf,      \* call -> "read", "write", "append" or "delete"
  pathOf,      \* call -> its path
  bodyOf,      \* call -> what it writes
  Absent       \* no such file

VARIABLES
  files,       \* path -> content, a sequence of bodies, or Absent
  status,      \* call -> "pending", "applied", "ok" or "failed"
  value        \* call -> what a read returns

vars == <<files, status, value>>

Init ==
  /\ files = [p \in Path |-> Absent]
  /\ status = [t \in Task |-> "pending"]
  /\ value = [t \in Task |-> Absent]

Content(f) == IF f = Absent THEN << >> ELSE f

\* The file of a mutating call after it took effect on f.
After(t, f) == CASE kindOf[t] = "write"  -> <<bodyOf[t]>>
                 [] kindOf[t] = "append" -> Append(Content(f), bodyOf[t])
                 [] kindOf[t] = "delete" -> Absent
                 [] OTHER                -> f

Apply(t) ==
  LET p == pathOf[t] IN
  /\ status[t] = "pending"
  /\ status' = [status EXCEPT ![t] = "applied"]
  /\ files' = [files EXCEPT ![p] = After(t, files[p])]
  /\ value' = [value EXCEPT ![t] = IF kindOf[t] = "read" THEN files[p] ELSE @]

Answer(t) ==
  /\ status[t] = "applied"
  /\ status' = [status EXCEPT ![t] = "ok"]
  /\ UNCHANGED <<files, value>>

\* Calls that end with an error, several at once when their process dies.
\* The effects of the applied ones stay.
Reject ==
  /\ status' \in [Task -> {"pending", "applied", "ok", "failed"}]
  /\ \A t \in Task :
       status'[t] # status[t] => /\ status[t] \in {"pending", "applied"}
                                 /\ status'[t] = "failed"
  /\ UNCHANGED <<files, value>>

Next ==
  \/ \E t \in Task : Apply(t) \/ Answer(t)
  \/ Reject

Spec == Init /\ [][Next]_vars
=============================================================================
