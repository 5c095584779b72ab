---------------------------- MODULE WorkflowJobs ----------------------------
(***************************************************************************)
(* The durable, leased job ledger of oompah: oompah/workflow_jobs.py.      *)
(*                                                                         *)
(* A row of table workflow_jobs is one action for one task.  Processes     *)
(* ("runtimes") claim due rows under an opaque token with a deadline, and  *)
(* acknowledge them by that token.  Every public method of the store runs  *)
(* in one BEGIN IMMEDIATE transaction, so each is one action here.         *)
(*                                                                         *)
(* Deadlines are kept as the time left before them: lease = 0 stands for   *)
(* lease_expires_at <= now, and retry = 0 for retry_at <= now.             *)
(***************************************************************************)
EXTENDS Integers, FiniteSets

CONSTANTS
  Jobs,            \* rows the ledger may hold (an idempotency key is a row)
  Tasks,           \* project/task pairs
  Generations,     \* evidence generations
  TaskOf,          \* [Jobs -> Tasks], immutable columns of the row
  GenerationOf,    \* [Jobs -> Generations]
  Kind,            \* [Jobs -> Kinds], the class of the row's action
  Owners,          \* runtime identities (lease_owner)
  Tokens,          \* lease tokens that may be outstanding at once
  MaxAttempts,     \* max_attempts of every row
  LeaseSeconds,    \* lease length
  MaxDelay,        \* longest retry delay or deferral
  NULL             \* SQL NULL

Kinds == {"implementation", "runtime", "audit", "repair"}

Nullable(S) == S \cup {NULL}

ASSUME LedgerAssumption ==
  /\ TaskOf \in [Jobs -> Tasks]
  /\ GenerationOf \in [Jobs -> Generations]
  /\ Kind \in [Jobs -> Kinds]
  /\ MaxAttempts \in Nat \ {0}
  /\ LeaseSeconds \in Nat \ {0}
  /\ MaxDelay \in Nat
  /\ NULL \notin Tokens \cup Owners \cup Nat

VARIABLES
  rows,       \* the table workflow_jobs
  tickets,    \* claims whose invocation has not ended: (job, token, owner)
  sampled,    \* tickets whose caller read the clock before it got the lock
  detached,   \* tickets of quarantined calls that have not been settled
  proc,       \* state of each runtime process
  spent       \* history: attempts of the row charged since it was (re)armed

vars == <<rows, tickets, sampled, detached, proc, spent>>

-----------------------------------------------------------------------------
(***************************************************************************)
(* Rows.                                                                   *)
(***************************************************************************)

ActiveStates   == {"queued", "running", "retry_wait"}
TerminalStates == {"completed", "exhausted", "superseded", "cancelled"}

\* "intent" stands for every phase that holds no progress (intent, queued,
\* retry_wait, quarantine_recovered), "working" for the worker's checkpoints
\* and an audit's running phase.
Phases == {"intent", "working", "finalizing", "action_required",
           "quarantined", "complete"}

Row == [state    : ActiveStates \cup TerminalStates \cup {"absent"},
        phase    : Phases,
        attempts : 0..MaxAttempts,
        owner    : Nullable(Owners),
        token    : Nullable(Tokens),
        lease    : Nullable(0..LeaseSeconds),
        retry    : Nullable(0..MaxDelay)]

Ticket == [job : Jobs, token : Tokens, owner : Owners]

NoRow == [state |-> "absent", phase |-> "intent", attempts |-> 0,
          owner |-> NULL, token |-> NULL, lease |-> NULL, retry |-> NULL]

Running(r)     == r.state = "running"
Quarantined(r) == Running(r) /\ r.phase = "quarantined"
Expired(r)     == Running(r) /\ r.lease = 0
Due(r)         == \/ r.state = "queued"
                  \/ r.state = "retry_wait" /\ r.retry = 0

\* The row without its lease, in a new state.
Released(r, state) ==
  [r EXCEPT !.state = state, !.owner = NULL, !.token = NULL,
            !.lease = NULL, !.retry = NULL]

Claimed(r, o, tok) ==
  [r EXCEPT !.state = "running", !.owner = o, !.token = tok,
            !.lease = LeaseSeconds, !.retry = NULL, !.attempts = @ + 1]

Refund(r) == IF r.attempts = 0 THEN 0 ELSE r.attempts - 1

\* The row after a charged failure: an attempt is left, or none is.
Failed(r, retryable, delay) ==
  IF retryable /\ r.attempts < MaxAttempts
    THEN [Released(r, "retry_wait") EXCEPT !.retry = delay]
    ELSE Released(r, "exhausted")

\* Faulty variants, here and below: a definition as a plausible slip would
\* have it.  No specification uses them; they show what each property sees.
RecoveredUnbounded(r) == Released(r, "queued")

\* The row after its lease expired or its owner died; the phase stays.
Recovered(r) ==
  Released(r, IF r.attempts >= MaxAttempts THEN "exhausted" ELSE "queued")

-----------------------------------------------------------------------------
(***************************************************************************)
(* Lanes: which rows one caller claims and recovers.                       *)
(***************************************************************************)

Lanes == {"runtime", "audit", "repair"}

LaneOf(j) == IF Kind[j] = "implementation" THEN "runtime" ELSE Kind[j]

LaneJobs(lane) == {j \in Jobs : LaneOf(j) = lane}

CompatibleWithAnyLane(lane) == {j \in Jobs : Kind[j] = "implementation"}

\* compatible_running_actions: a repair may run beside implementation work.
Compatible(lane) ==
  IF lane = "repair" THEN {j \in Jobs : Kind[j] = "implementation"} ELSE {}

Claimable(rs, j, lane) ==
  /\ Due(rs[j])
  /\ rs[j].attempts < MaxAttempts
  /\ \A k \in Jobs \ Compatible(lane) :
        TaskOf[k] = TaskOf[j] => ~Running(rs[k])

ExpiredJobsOfAnyPhase(lane) == {j \in LaneJobs(lane) : Expired(rows[j])}

\* Rows of the lane with an expired lease; a finalizing audit row is exempt.
ExpiredJobs(lane) ==
  {j \in LaneJobs(lane) :
     /\ Expired(rows[j])
     /\ ~(Kind[j] = "audit" /\ rows[j].phase = "finalizing")}

RecoverAll(S) == [j \in Jobs |-> IF j \in S THEN Recovered(rows[j]) ELSE rows[j]]
ChargeAll(S)  == [j \in Jobs |-> IF j \in S THEN spent[j] + 1 ELSE spent[j]]

-----------------------------------------------------------------------------
(***************************************************************************)
(* Tickets: what an invocation holds after its claim.                      *)
(***************************************************************************)

Up(o) == proc[o] = "up"

HoldsAnyToken(t) == Running(rows[t.job])
HoldsToken(t) ==
  Running(rows[t.job]) /\ rows[t.job].token = t.token

\* _owned_row_locked: exact token, deadline present and not reached.
Owns(t) ==
  /\ HoldsToken(t)
  /\ rows[t.job].lease # NULL
  /\ rows[t.job].lease > 0

\* The same check against a clock value read before the lock was acquired.
OwnsAsSampled(t) ==
  /\ t \in sampled
  /\ HoldsToken(t)
  /\ rows[t.job].lease # NULL

\* Audit callers pass now= themselves; the others read it under the lock.
May(t) == Owns(t) \/ (Kind[t.job] = "audit" /\ OwnsAsSampled(t))

FreshTokens ==
  Tokens \ ({t.token : t \in tickets} \cup {rows[j].token : j \in Jobs})

\* The invocation behind t ends with this call.
EndTicket(t) ==
  /\ tickets' = tickets \ {t}
  /\ sampled' = sampled \ {t}

SetRow(j, r) == rows' = [rows EXCEPT ![j] = r]

-----------------------------------------------------------------------------
Init ==
  /\ rows = [j \in Jobs |-> NoRow]
  /\ tickets = {}
  /\ sampled = {}
  /\ detached = {}
  /\ proc = [o \in Owners |-> "up"]
  /\ spent = [j \in Jobs |-> 0]

(***************************************************************************)
(* Scheduler operations, which need no lease.                              *)
(***************************************************************************)

\* enqueue: insert once; a replay of the same key returns the row unchanged.
Enqueue(j) ==
  /\ rows[j].state = "absent"
  /\ SetRow(j, [NoRow EXCEPT !.state = "queued"])
  /\ UNCHANGED <<tickets, sampled, detached, proc, spent>>

SupersedeRunning(j) ==
  /\ rows[j].state \in ActiveStates
  /\ SetRow(j, Released(rows[j], "superseded"))
  /\ UNCHANGED <<tickets, sampled, detached, proc, spent>>

\* supersede and cancel fence an active row whoever holds its lease, but
\* refuse a quarantined call.
Supersede(j) ==
  /\ rows[j].state \in ActiveStates
  /\ ~Quarantined(rows[j])
  /\ SetRow(j, Released(rows[j], "superseded"))
  /\ UNCHANGED <<tickets, sampled, detached, proc, spent>>

Cancel(j) ==
  /\ rows[j].state \in ActiveStates
  /\ ~Quarantined(rows[j])
  /\ SetRow(j, Released(rows[j], "cancelled"))
  /\ UNCHANGED <<tickets, sampled, detached, proc, spent>>

\* supersede_task_generation: every active row of the task from another
\* generation, except quarantined calls.
SupersededBy(task, keep) ==
  {j \in Jobs : /\ TaskOf[j] = task
                /\ GenerationOf[j] # keep
                /\ rows[j].state \in ActiveStates
                /\ ~Quarantined(rows[j])}

SupersedeTask(task, keep) ==
  /\ SupersededBy(task, keep) # {}
  /\ rows' = [j \in Jobs |-> IF j \in SupersededBy(task, keep)
                               THEN Released(rows[j], "superseded")
                               ELSE rows[j]]
  /\ UNCHANGED <<tickets, sampled, detached, proc, spent>>

RearmTerminal(j) ==
  /\ rows[j].state \in TerminalStates
  /\ SetRow(j, [NoRow EXCEPT !.state = "queued"])
  /\ spent' = [spent EXCEPT ![j] = 0]
  /\ UNCHANGED <<tickets, sampled, detached, proc>>

\* rearm_exhausted_job: a fresh budget for a completed or exhausted row.
Rearm(j) ==
  /\ rows[j].state \in {"completed", "exhausted"}
  /\ SetRow(j, [NoRow EXCEPT !.state = "queued"])
  /\ spent' = [spent EXCEPT ![j] = 0]
  /\ UNCHANGED <<tickets, sampled, detached, proc>>

(***************************************************************************)
(* Claims and recovery.                                                    *)
(***************************************************************************)

\* recover_expired at startup, and claim_next when it finds no candidate.
RecoverExpired(lane) ==
  /\ \E o \in Owners : Up(o) \/ (proc[o] = "starting" /\ lane = "runtime")
  /\ ExpiredJobs(lane) # {}
  /\ rows' = RecoverAll(ExpiredJobs(lane))
  /\ spent' = ChargeAll(ExpiredJobs(lane))
  /\ UNCHANGED <<tickets, sampled, detached, proc>>

\* claim_next: recover the expired rows of the caller's lane, then lease one
\* candidate, in one transaction.  (The audit and the repair lane name one
\* task and generation; the worker takes the first by priority and age.)
ClaimNext(o, j, tok) ==
  /\ Up(o)
  /\ tok \in FreshTokens
  /\ LET lane      == LaneOf(j)
         recovered == RecoverAll(ExpiredJobs(lane))
     IN /\ Claimable(recovered, j, lane)
        /\ rows' = [recovered EXCEPT ![j] = Claimed(recovered[j], o, tok)]
        /\ spent' = ChargeAll(ExpiredJobs(lane))
  /\ tickets' = tickets \cup {[job |-> j, token |-> tok, owner |-> o]}
  /\ UNCHANGED <<sampled, detached, proc>>

\* Rows the startup of a runtime recovers for one dead owner and one phase.
AbandonedJobs(dead, phase) ==
  {j \in LaneJobs("runtime") : /\ Running(rows[j])
                               /\ rows[j].owner = dead
                               /\ rows[j].phase = phase}

\* recover_abandoned as _recover_runtime_jobs calls it: once per identity of
\* an owner proven dead, keeping the phase.
RecoverAbandoned(o, dead, phase) ==
  /\ proc[o] = "starting"
  /\ proc[dead] = "down"
  /\ AbandonedJobs(dead, phase) # {}
  /\ rows' = RecoverAll(AbandonedJobs(dead, phase))
  /\ spent' = ChargeAll(AbandonedJobs(dead, phase))
  /\ UNCHANGED <<tickets, sampled, detached, proc>>

ReclaimUnfinished(o, j, tok) ==
  /\ Up(o)
  /\ Kind[j] = "audit"
  /\ Running(rows[j])
  /\ rows[j].phase = "working"
  /\ \A t \in tickets : ~(t.job = j /\ t.token = rows[j].token)
  /\ tok \in FreshTokens
  /\ SetRow(j, [rows[j] EXCEPT !.owner = o, !.token = tok,
                               !.lease = LeaseSeconds])
  /\ tickets' = tickets \cup {[job |-> j, token |-> tok, owner |-> o]}
  /\ UNCHANGED <<sampled, detached, proc, spent>>

\* reclaim_abandoned: the audit lane takes over one exact lease of which no
\* attempt is active any more; attempt, phase and checkpoint are kept.
Reclaim(o, j, tok) ==
  /\ Up(o)
  /\ Kind[j] = "audit"
  /\ Running(rows[j])
  /\ rows[j].phase \in {"working", "finalizing"}
  /\ \A t \in tickets : ~(t.job = j /\ t.token = rows[j].token)
  /\ tok \in FreshTokens
  /\ SetRow(j, [rows[j] EXCEPT !.owner = o, !.token = tok,
                               !.lease = LeaseSeconds])
  /\ tickets' = tickets \cup {[job |-> j, token |-> tok, owner |-> o]}
  /\ UNCHANGED <<sampled, detached, proc, spent>>

(***************************************************************************)
(* Operations of the invocation that claimed the row.                      *)
(***************************************************************************)

\* A caller of an audit or repair row reads the clock, then waits for the
\* serialization lock.
SampleClock(t) ==
  /\ Kind[t.job] \in {"audit", "repair"}
  /\ Owns(t)
  /\ sampled' = sampled \cup {t}
  /\ UNCHANGED <<rows, tickets, detached, proc, spent>>

\* renew: the heartbeat of the runtime worker; the other lanes never renew.
Renew(t) ==
  /\ LaneOf(t.job) = "runtime"
  /\ Owns(t)
  /\ SetRow(t.job, [rows[t.job] EXCEPT !.lease = LeaseSeconds])
  /\ UNCHANGED <<tickets, sampled, detached, proc, spent>>

\* The phases a caller writes next: an audit is launched, its typed result
\* is reserved, or an operator is needed.
CheckpointPhases(j) ==
  CASE LaneOf(j) = "runtime" -> {"working"}
    [] LaneOf(j) = "repair"  -> {}
    [] OTHER -> IF rows[j].phase = "finalizing"
                  THEN {"finalizing", "action_required"}
                  ELSE {"working", "action_required"}
                       \cup (IF rows[j].phase = "working" THEN {"finalizing"} ELSE {})

Checkpoint(t, phase) ==
  /\ phase \in CheckpointPhases(t.job)
  /\ May(t)
  /\ SetRow(t.job, [rows[t.job] EXCEPT !.phase = phase])
  /\ sampled' = sampled \ {t}
  /\ UNCHANGED <<tickets, detached, proc, spent>>

Complete(t) ==
  /\ May(t)
  /\ SetRow(t.job, [Released(rows[t.job], "completed") EXCEPT !.phase = "complete"])
  /\ EndTicket(t)
  /\ UNCHANGED <<detached, proc, spent>>

\* fail: the worker keeps the phase, the audit lane resets all but an
\* operator's.
Fail(t, retryable, delay) ==
  /\ May(t)
  /\ LET phase == IF Kind[t.job] = "audit" /\ rows[t.job].phase # "action_required"
                    THEN "intent" ELSE rows[t.job].phase
     IN SetRow(t.job, [Failed(rows[t.job], retryable, delay)
                         EXCEPT !.phase = phase])
  /\ spent' = [spent EXCEPT ![t.job] = @ + 1]
  /\ EndTicket(t)
  /\ UNCHANGED <<detached, proc>>

\* requeue_owned_without_attempt: an audit stopped by a lifecycle drain.
Requeue(t) ==
  /\ Kind[t.job] = "audit"
  /\ May(t)
  /\ rows[t.job].phase = "working"
  /\ SetRow(t.job, [Released(rows[t.job], "queued")
                      EXCEPT !.phase = "intent", !.attempts = Refund(rows[t.job])])
  /\ EndTicket(t)
  /\ UNCHANGED <<detached, proc, spent>>

\* defer_owned_without_attempt: an administrative deferral of a worker job.
DeferWithoutAttempt(t, delay) ==
  /\ LaneOf(t.job) = "runtime"
  /\ Owns(t)
  /\ SetRow(t.job, [Released(rows[t.job], "retry_wait")
                      EXCEPT !.attempts = Refund(rows[t.job]), !.retry = delay])
  /\ EndTicket(t)
  /\ UNCHANGED <<detached, proc, spent>>

\* defer_owned_until: wait for the reassessment deadline, or give the row up
\* when the deadline is already due.
DeferUntil(t, deadline) ==
  /\ LaneOf(t.job) = "runtime"
  /\ Owns(t)
  /\ SetRow(t.job,
            [IF deadline = 0
               THEN Released(rows[t.job], "superseded")
               ELSE [Released(rows[t.job], "retry_wait") EXCEPT !.retry = deadline]
             EXCEPT !.attempts = Refund(rows[t.job])])
  /\ EndTicket(t)
  /\ UNCHANGED <<detached, proc, spent>>

\* cancel_owned reads its clock before the lock for every caller.
CancelOwned(t) ==
  /\ Kind[t.job] \in {"audit", "repair"}
  /\ Owns(t) \/ OwnsAsSampled(t)
  /\ SetRow(t.job, [Released(rows[t.job], "cancelled") EXCEPT !.phase = "complete"])
  /\ EndTicket(t)
  /\ UNCHANGED <<detached, proc, spent>>

\* quarantine_owned: a call of the worker timed out and was detached.  The
\* token is checked, the deadline is not.
Quarantine(t) ==
  /\ LaneOf(t.job) = "runtime"
  /\ t \notin detached
  /\ HoldsToken(t)
  /\ SetRow(t.job, [rows[t.job] EXCEPT !.phase = "quarantined",
                                       !.lease = NULL, !.retry = NULL])
  /\ detached' = detached \cup {t}
  /\ UNCHANGED <<tickets, sampled, proc, spent>>

\* settle_quarantined_call: the detached call returned (the attempt is
\* refunded; an apply leaves its receipt) or failed (the attempt is charged).
SettleReturned(t, phase) ==
  /\ t \in detached
  /\ HoldsToken(t)
  /\ Quarantined(rows[t.job])
  /\ phase \in {"intent", "working"}
  /\ SetRow(t.job, [Released(rows[t.job], "queued")
                      EXCEPT !.phase = phase, !.attempts = Refund(rows[t.job])])
  /\ detached' = detached \ {t}
  /\ EndTicket(t)
  /\ UNCHANGED <<proc, spent>>

SettleFailed(t, retryable, delay) ==
  /\ t \in detached
  /\ HoldsToken(t)
  /\ Quarantined(rows[t.job])
  /\ SetRow(t.job, [Failed(rows[t.job], retryable, delay) EXCEPT !.phase = "intent"])
  /\ spent' = [spent EXCEPT ![t.job] = @ + 1]
  /\ detached' = detached \ {t}
  /\ EndTicket(t)
  /\ UNCHANGED proc

\* The invocation ends without an acknowledgement: lease lost, store
\* unavailable, or an exception on the way.
Forget(t) ==
  /\ t \notin detached
  /\ EndTicket(t)
  /\ UNCHANGED <<rows, detached, proc, spent>>

(***************************************************************************)
(* Time and processes.                                                     *)
(***************************************************************************)

Later(left) == IF left = NULL \/ left = 0 THEN left ELSE left - 1

Tick ==
  /\ rows' = [j \in Jobs |-> [rows[j] EXCEPT !.lease = Later(rows[j].lease),
                                             !.retry = Later(rows[j].retry)]]
  /\ UNCHANGED <<tickets, sampled, detached, proc, spent>>

CrashForgettingDetached(o) ==
  /\ proc[o] # "down"
  /\ proc' = [proc EXCEPT ![o] = "down"]
  /\ tickets' = {t \in tickets : t.owner # o}
  /\ sampled' = {t \in sampled : t.owner # o}
  /\ UNCHANGED <<rows, detached, spent>>

Crash(o) ==
  /\ proc[o] # "down"
  /\ proc' = [proc EXCEPT ![o] = "down"]
  /\ tickets' = {t \in tickets : t.owner # o}
  /\ sampled' = {t \in sampled : t.owner # o}
  /\ detached' = {t \in detached : t.owner # o}
  /\ UNCHANGED <<rows, spent>>

\* integrity_check, the lease part: a running row has an owner and a token,
\* and lacks a deadline exactly when it is quarantined; others have no lease.
IntegrityCheck(r) ==
  IF Running(r)
    THEN /\ r.owner # NULL
         /\ r.token # NULL
         /\ (r.phase = "quarantined") <=> (r.lease = NULL)
    ELSE r.owner = NULL /\ r.token = NULL /\ r.lease = NULL

\* start: the new runtime (an identity no row still names) refuses to start
\* on a corrupt ledger, then recovers what dead owners left.
StartProcess(o) ==
  /\ proc[o] = "down"
  /\ \A j \in Jobs : rows[j].owner # o
  /\ \A j \in Jobs : IntegrityCheck(rows[j])
  /\ proc' = [proc EXCEPT ![o] = "starting"]
  /\ UNCHANGED <<rows, tickets, sampled, detached, spent>>

FinishStart(o) ==
  /\ proc[o] = "starting"
  /\ \A dead \in Owners, phase \in Phases :
        proc[dead] = "down" => AbandonedJobs(dead, phase) = {}
  /\ proc' = [proc EXCEPT ![o] = "up"]
  /\ UNCHANGED <<rows, tickets, sampled, detached, spent>>

-----------------------------------------------------------------------------
Scheduling ==
  \/ \E j \in Jobs : Enqueue(j) \/ Supersede(j) \/ Cancel(j) \/ Rearm(j)
  \/ \E task \in Tasks, keep \in Generations : SupersedeTask(task, keep)

Claiming ==
  \/ \E lane \in Lanes : RecoverExpired(lane)
  \/ \E o \in Owners, j \in Jobs, tok \in Tokens :
        ClaimNext(o, j, tok) \/ Reclaim(o, j, tok)
  \/ \E o \in Owners, dead \in Owners, phase \in Phases :
        RecoverAbandoned(o, dead, phase)

Invocation(t) ==
  \/ SampleClock(t) \/ Renew(t)
  \/ \E phase \in Phases : Checkpoint(t, phase)
  \/ Complete(t)
  \/ \E retryable \in BOOLEAN, delay \in 0..MaxDelay : Fail(t, retryable, delay)
  \/ Requeue(t)
  \/ \E delay \in 0..MaxDelay : DeferWithoutAttempt(t, delay) \/ DeferUntil(t, delay)
  \/ CancelOwned(t) \/ Quarantine(t) \/ Forget(t)
  \/ \E phase \in {"intent", "working"} : SettleReturned(t, phase)
  \/ \E retryable \in BOOLEAN, delay \in 0..MaxDelay :
        SettleFailed(t, retryable, delay)

Environment ==
  \/ Tick
  \/ \E o \in Owners : Crash(o) \/ StartProcess(o) \/ FinishStart(o)

Next ==
  \/ Scheduling
  \/ Claiming
  \/ \E t \in tickets : Invocation(t)
  \/ Environment

Spec == Init /\ [][Next]_vars

\* Time passes, a runtime that is up polls claim_next of its own lane and, for
\* pending audit records, recover and the replay of finalizing results; an
\* invocation that lost its lease ends (its calls are bounded).  The audit and
\* the repair lane poll no claim_next over their own running rows, so their
\* expiry recovery is not fair: start and require_action return early.
Fairness ==
  /\ WF_vars(Tick)
  /\ WF_vars(RecoverExpired("runtime"))
  /\ \A j \in Jobs : WF_vars(\E o \in Owners, tok \in Tokens : Reclaim(o, j, tok))
  /\ WF_vars(\E t \in tickets : ~HoldsToken(t) /\ Forget(t))

FairSpec == Spec /\ Fairness

-----------------------------------------------------------------------------
(***************************************************************************)
(* Properties.                                                             *)
(***************************************************************************)

\* Every variable has its type.
TypeOK ==
  /\ rows \in [Jobs -> Row]
  /\ tickets \subseteq Ticket
  /\ sampled \subseteq tickets
  /\ detached \subseteq tickets
  /\ proc \in [Owners -> {"down", "starting", "up"}]
  /\ spent \in [Jobs -> 0..MaxAttempts]

\* One external effect per task: two rows of a task never run at once, except
\* a topology repair beside implementation work (the NOT EXISTS clause of
\* _claim_candidate_filter, against every path that makes a row running).
OneRunningPerTask ==
  \A j, k \in Jobs :
    (j # k /\ TaskOf[j] = TaskOf[k] /\ Running(rows[j]) /\ Running(rows[k]))
      => {Kind[j], Kind[k]} = {"implementation", "repair"}

\* The attempt counter is exactly the charged failures since the row was
\* armed, plus the attempt in flight: no refund erases a charge, no recovery
\* forgets one, and a waiting row always has an attempt left to be claimed.
AttemptAccounting ==
  \A j \in Jobs :
    /\ rows[j].state \in {"queued", "retry_wait"} =>
         rows[j].attempts = spent[j] /\ spent[j] < MaxAttempts
    /\ Running(rows[j]) => rows[j].attempts = spent[j] + 1

\* A lease exists exactly on running rows, names a holder, and lacks a
\* deadline only in quarantine (integrity_check, without its last clause).
LeaseShape ==
  \A j \in Jobs :
    IF Running(rows[j])
      THEN /\ rows[j].owner # NULL
           /\ rows[j].token # NULL
           /\ rows[j].lease = NULL => rows[j].phase = "quarantined"
      ELSE rows[j].owner = NULL /\ rows[j].token = NULL /\ rows[j].lease = NULL

\* While the process of a detached call lives, the row keeps that call's
\* token, no deadline and the quarantine: nothing may start another effect,
\* supersede, cancel or recover it (quarantine_owned's docstring).
DetachedCallFenced ==
  \A t \in detached :
    /\ HoldsToken(t)
    /\ Quarantined(rows[t.job])
    /\ rows[t.job].lease = NULL

\* Superseded and cancelled rows are final: no late acknowledgement, recovery
\* or rearm revives revoked work.
RevokedStaysRevoked ==
  [][\A j \in Jobs : rows[j].state \in {"superseded", "cancelled"} =>
       rows'[j] = rows[j]]_vars

\* A running row loses its token only if it is revoked, its deadline passed,
\* its process is dead, its invocation is gone (audit), or the invocation
\* that holds that very token ended with the step: no stale invocation
\* acknowledges, and no caller steals, somebody else's lease.
LeaseRespected ==
  [][\A j \in Jobs :
       (Running(rows[j]) /\ rows'[j].token # rows[j].token) =>
         LET holder == [job |-> j, token |-> rows[j].token, owner |-> rows[j].owner]
         IN \/ rows'[j].state \in {"superseded", "cancelled"}
            \/ Expired(rows[j])
            \/ proc[rows[j].owner] = "down"
            \/ Kind[j] = "audit" /\ holder \notin tickets
            \/ holder \in tickets /\ holder \notin tickets']_vars

\* A durable typed audit result (finalizing) is never turned back into
\* provider work or retry exhaustion by generic recovery, however long its
\* lease has been expired: only the invocation that holds it may do that.
FinalizingKept ==
  [][\A j \in Jobs :
       (/\ Running(rows[j])
        /\ rows[j].phase = "finalizing"
        /\ rows'[j].state \in {"queued", "retry_wait", "exhausted"})
       => \E t \in tickets \ tickets' : t.job = j /\ t.token = rows[j].token]_vars

\* A lease whose invocation is gone without a word.
Orphaned(j, tok) ==
  /\ Running(rows[j])
  /\ rows[j].token = tok
  /\ \A t \in tickets : ~(t.job = j /\ t.token = tok)

\* The leases that something looks for: the worker recovers what has expired,
\* TerminalAuditWorkflow.recover and the replay lane take over an audit that
\* was running or has its result.  An audit that died between claim and
\* launch, or between the two writes of action_required, is left to chance.
LookedFor(r, lane) ==
  \/ lane = "runtime" /\ r.lease # NULL
  \/ lane = "audit" /\ r.phase \in {"working", "finalizing"}

\* As long as some runtime stays up, no orphaned lease that is looked for
\* blocks its task for ever: expiry recovery frees the worker's, a reclaim the
\* audits, also the finalizing ones, which expiry recovery must leave alone.
OrphanedLeaseReleased ==
  <>[](\E o \in Owners : Up(o)) =>
    \A j \in Jobs, tok \in Tokens :
      Orphaned(j, tok) /\ LookedFor(rows[j], LaneOf(j)) ~> ~Orphaned(j, tok)

\* What integrity_check demands of every row before a runtime may start.
IntegrityCheckPasses == \A j \in Jobs : IntegrityCheck(rows[j])

=============================================================================
