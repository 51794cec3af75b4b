-------------------------------- MODULE MCSync --------------------------------
(***************************************************************************)
(* One session and one caller of memofs.sync on a device whose files are   *)
(* the cloud's at first, a graph node without edges among them; another    *)
(* device commits a state of its own that lacks what is written here and   *)
(* has its documents removed.                                              *)
(***************************************************************************)
EXTENDS AgentSession, TLC

MCStored == {(1 :> {}) @@ (2 :> {"g"}) @@ (3 :> {})}
MCRemote == {(2 :> {"x"}) @@ (3 :> {"x"})}
=============================================================================
