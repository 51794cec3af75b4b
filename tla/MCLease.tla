------------------------------- MODULE MCLease -------------------------------
(* Two calls that share an owner, with a long and a short ttl, and two     *)
(* calls of another owner.                                                 *)
EXTENDS Lease

MCTask == {"x1", "x2", "y1", "y2"}
MCOwner == {"x", "y"}
MCOwnerOf == [x1 |-> "x", x2 |-> "x", y1 |-> "y", y2 |-> "y"]
MCTtlOf == [x1 |-> 3, x2 |-> 1, y1 |-> 2, y2 |-> 1]
=============================================================================
