----------------------------- MODULE MCSessions -----------------------------
(* Constants for the model checker: two terminals, two slates. *)
EXTENDS SessionProperties, TLC

CONSTANTS main, exp, t1, t2

Defaults  == {[auto |-> TRUE, retain |-> 10]}
Slips     == {"esp", "sidecar", "kill"}
NoSlips   == {}
Terminals == Permutations(Session)
SwitchExp == {[name |-> exp, scratch |-> FALSE], [name |-> exp, scratch |-> TRUE]}
=============================================================================
