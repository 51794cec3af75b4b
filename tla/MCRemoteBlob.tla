---------------------------- MODULE MCRemoteBlob ----------------------------
(* Two workers.  Both append to one file, which the first also deletes and *)
(* the second reads; the first writes another path, with a content shared. *)
EXTENDS RemoteBlob, TLC

MCWorker == {"k1", "k2"}
MCTask == {"w1", "a1", "a2", "d1", "r2"}
MCPath == {"p", "q"}
MCBody == {"x", "y"}
MCWorkerOf == [w1 |-> "k1", a1 |-> "k1", a2 |-> "k2", d1 |-> "k1", r2 |-> "k2"]
MCKindOf == [w1 |-> "write", a1 |-> "append", a2 |-> "append",
             d1 |-> "delete", r2 |-> "read"]
MCPathOf == [w1 |-> "q", a1 |-> "p", a2 |-> "p", d1 |-> "p", r2 |-> "p"]
MCBodyOf == [w1 |-> "x", a1 |-> "x", a2 |-> "y", d1 |-> "y", r2 |-> "y"]
=============================================================================
