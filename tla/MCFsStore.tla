------------------------------ MODULE MCFsStore ------------------------------
(* Two whole-file updates, an append and a delete of one file, and one     *)
(* edit of it by a human.                                                  *)
EXTENDS FsStore

MCTask == {"u1", "u2", "a", "d"}
MCKindOf == [u1 |-> "update", u2 |-> "update", a |-> "append",
             d |-> "delete"]
MCEdit == {"e"}
=============================================================================
