---------------------------- MODULE MCLocalMemory ----------------------------
(***************************************************************************)
(* A durable write, its retry under the same key, classified transient, a  *)
(* second retry with another content, transient too; and two durable       *)
(* writes under one id that the caller chose.                              *)
(***************************************************************************)
EXTENDS LocalMemory

MCWrite == {"w1", "w2", "w3", "w4", "w5"}
MCMemory == {"m1", "m2", "m5", "doc"}
MCIdOf == [w1 |-> "m1", w2 |-> "m2", w3 |-> "doc", w4 |-> "doc", w5 |-> "m5"]
MCChosen == {"doc"}
MCKeyOf == [w1 |-> "k", w2 |-> "k", w3 |-> "none", w4 |-> "none", w5 |-> "k"]
MCBodyOf == [m1 |-> "x", m2 |-> "x", doc |-> "y", m5 |-> "z"]
MCDurable == {"m1", "doc"}
=============================================================================
