--------------------------- MODULE MCWorkflowJobs ---------------------------
(***************************************************************************)
(* Instances of the job ledger for TLC: one task with two generations.     *)
(***************************************************************************)
EXTENDS WorkflowJobs, TLC

CONSTANTS impl, other, audit, repair, theTask, g1, g2

MCTaskOf       == [j \in Jobs |-> theTask]
MCGenerationOf == [j \in Jobs |-> IF j = other THEN g2 ELSE g1]
MCKind         == [j \in Jobs |-> CASE j = impl   -> "implementation"
                                    [] j = other  -> "runtime"
                                    [] j = audit  -> "audit"
                                    [] j = repair -> "repair"]

Symmetry == Permutations(Owners) \cup Permutations(Tokens)

=============================================================================
