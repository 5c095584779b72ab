------------------------------ MODULE Delivery ------------------------------
(***************************************************************************)
(* What the integration queue promises of each task, whoever owns it: a    *)
(* commit is pushed to the epic branch, then the queue calls the task      *)
(* delivered with that commit, the tracker notes it, and the terminal      *)
(* audit starts from both.  Rows, leases, generations, rebases, jobs and   *)
(* crashes are details of the implementations.                             *)
(***************************************************************************)
CONSTANTS Tasks, Commits, NULL

VARIABLES
  landed,      \* commits of each task on its epic branch
  delivered,   \* the commit that the queue calls integrated, or NULL
  noted,       \* the commit that the tracker calls integrated, or NULL
  auditing     \* whether the task is in the terminal audit

vars == <<landed, delivered, noted, auditing>>

\* Nothing is called integrated that has not landed.
Init ==
  /\ landed \in [Tasks -> SUBSET Commits]
  /\ \E d, n \in [Tasks -> Commits \cup {NULL}] :
       /\ delivered = d /\ noted = n
       /\ \A t \in Tasks : {d[t], n[t]} \subseteq landed[t] \cup {NULL}
  /\ auditing = [t \in Tasks |-> FALSE]

Land(t, c) ==
  /\ landed' = [landed EXCEPT ![t] = @ \cup {c}]
  /\ UNCHANGED <<delivered, noted, auditing>>

\* The tracker learns of it in the same step, or later.
Deliver(t, c) ==
  /\ c \in landed[t]
  /\ delivered' = [delivered EXCEPT ![t] = c]
  /\ noted' \in {noted, [noted EXCEPT ![t] = c]}
  /\ UNCHANGED <<landed, auditing>>

Note(t) ==
  /\ delivered[t] # NULL
  /\ noted' = [noted EXCEPT ![t] = delivered[t]]
  /\ UNCHANGED <<landed, delivered, auditing>>

\* The queue and the tracker agree when the audit of a task starts.
Audit(t) ==
  /\ delivered[t] # NULL
  /\ noted' = [noted EXCEPT ![t] = delivered[t]]
  /\ auditing' = [auditing EXCEPT ![t] = TRUE]
  /\ UNCHANGED <<landed, delivered>>

\* A new submission, or a move of the task by somebody else, takes any of it back.
Reset(t) ==
  /\ delivered' \in {delivered, [delivered EXCEPT ![t] = NULL]}
  /\ noted' \in {noted, [noted EXCEPT ![t] = NULL]}
  /\ auditing' \in {auditing, [auditing EXCEPT ![t] = FALSE]}
  /\ UNCHANGED landed

Next ==
  \E t \in Tasks :
    \/ \E c \in Commits : Land(t, c) \/ Deliver(t, c)
    \/ Note(t) \/ Audit(t) \/ Reset(t)

Spec == Init /\ [][Next]_vars
=============================================================================
