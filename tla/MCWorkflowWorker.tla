-------------------------- MODULE MCWorkflowWorker --------------------------
(***************************************************************************)
(* Instances of the worker for TLC: one row, two processes.                *)
(***************************************************************************)
EXTENDS WorkflowWorker, TLC

CONSTANTS theJob, theTask, g1

MCTaskOf       == [j \in Jobs |-> theTask]
MCGenerationOf == [j \in Jobs |-> g1]
MCKind         == [j \in Jobs |-> "runtime"]

Symmetry == Permutations(Owners) \cup Permutations(Tokens)

=============================================================================
