-------------------------- MODULE MCTaskTransition --------------------------
(***************************************************************************)
(* Instances of the transition service for TLC.                            *)
(***************************************************************************)
EXTENDS TaskTransition, TLC

CONSTANTS reopen, auditDone

MCLane   == [i \in Intents |-> IF i = auditDone THEN "terminal" ELSE "plain"]
MCTarget == [i \in Intents |-> IF i = auditDone THEN "done" ELSE "open"]

Symmetry == Permutations(Executors)
=============================================================================
