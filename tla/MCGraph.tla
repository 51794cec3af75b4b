------------------------------- MODULE MCGraph -------------------------------
(***************************************************************************)
(* Three entities, the first two under one label.  These may name each     *)
(* other in their aliases, so that one merge is planned twice, or the third*)
(* names the second.  Facts relate both to the third, and one retires the  *)
(* second.                                                                 *)
(***************************************************************************)
EXTENDS Consolidation

Link(a, b, t) == [from |-> a, to |-> b, type |-> t, key |-> {}]
Every(S) == [x \in S |-> "active"]

MCNode == {1, 2, 3}
MCLabelOf == <<"oauth", "oauth", "jwt">>
MCAka == {{}, {<<1, 2>>, <<2, 1>>}, {<<3, 2>>}}
MCLinkable == {Link(3, 2, "supersedes"), Link(1, 3, "uses")}
MCStored == {[nodes |-> <<>>, edges |-> <<>>],
             [nodes |-> Every(MCNode), edges |-> Every({Link(2, 3, "uses")})]}
=============================================================================
