----------------------------- MODULE MCMachine -----------------------------
(***************************************************************************)
(* Constants for the model checker.  Configurations are those of           *)
(* .cleanslate/config; the default retention of ten is scaled down so that *)
(* pruning happens within a few boots.                                     *)
(***************************************************************************)
EXTENDS MachineProperties

CONSTANTS main, exp

RetainOne   == {[auto |-> TRUE, retain |-> 1]}
RetainTwo   == {[auto |-> TRUE, retain |-> 2]}
AnyConfig   == {[auto |-> TRUE, retain |-> 0], [auto |-> TRUE, retain |-> 1],
                [auto |-> FALSE, retain |-> 1]}

NoFaults == {}
StoreFaults == {"pre", "remove", "restore"}
AnyFault == {"mount", "ensure", "pre", "remove", "restore", "checkpoint",
             "prune", "clear", "copy", "discard", "rm", "slate", "basis"}

EntryBasis  == {Baseline}
ForkBasis   == {exp}
=============================================================================
