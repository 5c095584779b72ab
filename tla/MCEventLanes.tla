---------------------------- MODULE MCEventLanes ----------------------------
(***************************************************************************)
(* Two decisions, one of which asks for the event that callers raise too.  *)
(***************************************************************************)
EXTENDS EventLanes, TLC

CONSTANTS act, other, wait, retry, start

MCEvent == [d \in Decisions |-> CASE d = act -> start [] d = other -> retry [] OTHER -> NULL]

Symmetry == Permutations(Scans) \cup Permutations(Calls)
=============================================================================
