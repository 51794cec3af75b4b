--------------------------- MODULE MCAdvisoryLock ---------------------------
(* Small instances of AdvisoryLock: two processes with a store each, two   *)
(* calls on the first store and one on the second.                         *)
EXTENDS AdvisoryLock, TLC

CONSTANTS p1, p2, a, b

MCPid == {p1, p2}
MCInstance == {a, b}
MCTask == {"a1", "a2", "b1"}
MCLockOf == [a1 |-> a, a2 |-> a, b1 |-> b]
MCPidOf == (a :> p1) @@ (b :> p2)
=============================================================================
