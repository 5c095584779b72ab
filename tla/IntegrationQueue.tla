-------------------------- MODULE IntegrationQueue --------------------------
(***************************************************************************)
(* The durable queue that delivers finished task branches to their epic,   *)
(* oompah/integration_queue.py: its rows, the integration records of the   *)
(* tracker beside them, and the transactions that both owners of the queue *)
(* use.  IntegrationLane adds the lane of the orchestrator, which leases   *)
(* rows; IntegrationHandlers adds the handlers of the workflow runtime,    *)
(* which lease nothing and compare the generation of a row instead.        *)
(***************************************************************************)
EXTENDS Integers, FiniteSets

CONSTANTS
  Tasks,
  MaxAttempts,   \* bound: attempts of a row are counted up to it
  MaxCommit,     \* bound: commits made on a task branch
  MaxSeq,        \* bound: landings that get a history sequence
  NULL

VARIABLES
  row,       \* integration_queue, one row per task
  counter,   \* integration_history_sequence of schema_meta
  record,    \* status and oompah.integration metadata of each task
  made,      \* commits made on the branch of each task
  origin,    \* the submitted commit that each commit is, or is a rebase of
  newest,    \* the commit that was submitted last for each task
  epic       \* commits of each task that its epic branch contains

Nullable(S) == S \cup {NULL}
Commits     == 1..MaxCommit

\* A head with its base.  moved: the base is an epic head found after the
\* submission.
Pairs == [head : Commits, moved : BOOLEAN]

ASSUME QueueAssumption ==
  /\ MaxAttempts \in Nat /\ MaxCommit \in Nat /\ MaxSeq \in Nat
  /\ NULL \notin Tasks \cup Commits \cup Pairs

\* sub is head_sha and base_sha, cand the candidate pair, pred the predecessor
\* (rebased_from_head_sha).  owner is the lease: of the running lane, or of one
\* that is gone.  expired: lease_expires_at lies in the past.
Rows == [state : {"absent", "ready", "integrating", "blocked", "integrated", "cancelled"},
         sub : Nullable(Pairs), cand : Nullable(Pairs), pred : Nullable(Commits),
         attempts : 0..MaxAttempts, owner : {NULL, "lane", "gone"}, expired : BOOLEAN,
         intent : BOOLEAN, publishing : BOOLEAN, seq : 0..MaxSeq]

NoRow == [state |-> "absent", sub |-> NULL, cand |-> NULL, pred |-> NULL,
          attempts |-> 0, owner |-> NULL, expired |-> FALSE,
          intent |-> FALSE, publishing |-> FALSE, seq |-> 0]

\* status: Ready to Integrate in queue mode, In Validation, a terminal status, or
\* out of the queue (another status, or a standalone submission).
Records == [status : {"ready", "validating", "terminal", "open"}, sub : Nullable(Pairs),
            state : {"none", "ready", "blocked", "integrated"}]

NoRecord == [status |-> "open", sub |-> NULL, state |-> "none"]

\* A commit is made on the branch of task t, for the submitted commit c.
Make(t, c) ==
  /\ made[t] < MaxCommit
  /\ made' = [made EXCEPT ![t] = @ + 1]
  /\ origin' = [origin EXCEPT ![t][made[t] + 1] = c]

-----------------------------------------------------------------------------
(* What the transactions make of a row *)

Effective(r) == IF r.cand # NULL THEN r.cand ELSE r.sub

Unleased(r) == r.owner = NULL

Pending(r) == r.intent \/ r.publishing

Counted(n) == IF n < MaxAttempts THEN n + 1 ELSE n

Released(r) == [r EXCEPT !.state = "ready", !.owner = NULL, !.expired = FALSE]

\* recover_expired
Recovered(r) == IF r.state = "integrating" /\ r.expired THEN Released(r) ELSE r

\* recover_abandoned
Abandoned(r) == IF r.state = "integrating" THEN Released(r) ELSE r

Cancelled(r) == [r EXCEPT !.state = "cancelled", !.owner = NULL, !.expired = FALSE]

NewRow(p) == [NoRow EXCEPT !.state = "ready", !.sub = p]

\* An identical submission leaves the row alone unless it is an explicit retry
\* of a row that ended.
Revives(r, explicit, rearm) ==
  /\ explicit
  /\ r.state \in {"blocked", "cancelled"} \cup (IF rearm THEN {"integrated"} ELSE {})

\* enqueue; preserve keeps the attempts of the row that is replaced.
Enqueued(r, p, explicit, rearm, preserve) ==
  IF r.state # "absent" /\ Effective(r) = p /\ ~Revives(r, explicit, rearm)
    THEN r
    ELSE [NewRow(p) EXCEPT !.attempts = IF preserve THEN r.attempts ELSE 0]

\* checkpoint_legacy_integration and normalize_legacy_tracker_checkpoint
Integrated(r, p, seq) ==
  [r EXCEPT !.state = "integrated", !.sub = p, !.owner = NULL, !.expired = FALSE,
            !.pred = IF r.sub.head # p.head THEN r.sub.head ELSE @,
            !.seq = seq, !.intent = FALSE, !.publishing = FALSE]

-----------------------------------------------------------------------------
(* _stage_integrated_task_audit: a landed row enters the terminal audit *)

\* A crash after the queue checkpoint left the record behind the row.
QueueFirstGap(n, r) ==
  n.state = "ready" /\ n.sub # NULL /\ n.sub.head \in {r.pred, r.sub.head}

Repaired(n, r) ==
  IF QueueFirstGap(n, r) THEN [n EXCEPT !.state = "integrated", !.sub = r.sub] ELSE n

Staging(n) == n.status \in {"validating", "terminal"}

Stageable(n, r) ==
  LET m == Repaired(n, r)
  IN r.state = "integrated" /\ m.state = "integrated" /\ m.sub.head = r.sub.head

StagedUnchecked(n, r, accepted) ==
  IF Staging(n) \/ ~accepted THEN n ELSE [Repaired(n, r) EXCEPT !.status = "validating"]

\* The record after staging; accepted is the answer of the terminal transition.
Staged(n, r, accepted) ==
  IF Staging(n) \/ r.state # "integrated" THEN n
  ELSE IF Stageable(n, r) /\ accepted THEN [Repaired(n, r) EXCEPT !.status = "validating"]
  ELSE Repaired(n, r)

-----------------------------------------------------------------------------
(* Properties that both owners of the queue keep *)

StoreTypeOK ==
  /\ row \in [Tasks -> Rows]
  /\ counter \in 0..MaxSeq
  /\ record \in [Tasks -> Records]
  /\ made \in [Tasks -> 0..MaxCommit]
  /\ origin \in [Tasks -> [Commits -> 0..MaxCommit]]
  /\ newest \in [Tasks -> 0..MaxCommit]
  /\ epic \in [Tasks -> SUBSET Commits]

\* An integrated row, and an integrated record in the tracker, name a commit
\* that the epic branch contains, whoever wrote them and whatever replaced the
\* submission in the meantime (checkpoint_legacy_integration,
\* finish_task_generation, normalize_legacy_tracker_checkpoint and the tracker
\* writes after them).
IntegratedMeansLanded ==
  \A t \in Tasks :
    /\ row[t].state = "integrated" => row[t].sub # NULL /\ row[t].sub.head \in epic[t]
    /\ record[t].state = "integrated" => record[t].sub # NULL /\ record[t].sub.head \in epic[t]

\* The record of a task names the commit that was submitted last, or a rebase
\* of it: no owner of the queue overwrites a replacement generation
\* (run_if_generation, _exact_authority, _route_integration_failure).
NewestSubmissionKept ==
  \A t \in Tasks : record[t].sub # NULL => origin[t][record[t].sub.head] = newest[t]

-----------------------------------------------------------------------------
(* The promise of the queue *)

delivered == [t \in Tasks |-> IF row[t].state = "integrated" THEN row[t].sub.head ELSE NULL]
noted     == [t \in Tasks |-> IF record[t].state = "integrated" THEN record[t].sub.head ELSE NULL]
auditing  == [t \in Tasks |-> record[t].status = "validating"]

D == INSTANCE Delivery WITH landed <- epic
=============================================================================
