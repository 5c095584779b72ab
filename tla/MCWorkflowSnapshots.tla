------------------------ MODULE MCWorkflowSnapshots ------------------------
(***************************************************************************)
(* Instances of the snapshot authority for TLC.                            *)
(***************************************************************************)
EXTENDS WorkflowSnapshots, TLC

Symmetry == Permutations(Scans) \cup Permutations(Tokens)

=============================================================================
