# Specifications of oompah's durable workflow

TLA+ models of the durable machinery of oompah, the TLC runs that check them on
small instances, and TLAPS proofs for every value of the constants. The
reference is the code under `src/oompah/`; the tests and `src/plans/` documents
were read with it. Line numbers in this file and in `PROJECT.json` are those of
the sources.

## 1. Inventory

oompah is an agent orchestrator. A reconciliation pass turns task facts into
durable jobs, workers execute the jobs under leases, a transition service
writes task states to a tracker, and an integration queue delivers finished
branches to their epic. All processes share SQLite stores and one tracker.

```
 tracker, git -> facts -> work_decision
                              |  decisions
                              v
      pass of workflow_runtime / workflow_controller      WorkflowSnapshots
        allocate, capture, accept, stage, publish | roll back
                              |  membership, cursors, jobs
                              v
   terminal audit lane -> workflow_jobs (ledger) <- start, recovery, recycle
   topology repair lane ->    ^                           WorkflowJobs
                              | claim, checkpoint, ack, quarantine
                       workflow_worker -- calls -->  domain handlers
                              |                           WorkflowWorker
            execute(intent)   |             |
                              v             v  integration actions, submissions
             task_transition_service     integration_queue <- integration lane
                  TaskTransition           IntegrationHandlers | IntegrationLane
                              |             |                   (orchestrator.py)
                              v             v
                            tracker     epic branch
```

| Component | State it keeps | Operations | What is hard | What makes it correct | Here |
| --- | --- | --- | --- | --- | --- |
| Job ledger (`workflow_jobs.py`) | rows with state, phase, attempts, lease, checkpoint; snapshot markers, cursors, membership; event lanes | enqueue, claim, renew, checkpoint, complete, fail, requeue, defer, quarantine, settle, supersede, cancel, rearm, recover, reclaim; allocate, accept, reconcile, publish, restore | concurrent claims, expiry, crashes, late answers, half-staged snapshots | one running row per task, exact attempt accounting, no stolen lease, revocation is final, only authorised work runs | modelled but for the claim order |
| Worker (`workflow_worker.py`) | one saga per claim, its checkpoint, detached calls and their monitors | the steps of `_execute_claimed`, heartbeat, drain, interrupt, settlement, recycle request | awaits between every two steps, time-outs, cancellation, resumption by another process | effects happen once, an intent is durable before it is executed, progress is never forgotten, a watched quarantine ends or reaches the operator, an unattended lease ends | modelled |
| Runtime (`workflow_runtime.py`) | project bindings, started and draining flags, passes | start, recover, reconcile, drain | owner death, a pass that dies or rolls back over live workers | no live owner is robbed, a rollback does not undo finished work | partly |
| Controller and schedulers | the generation of a pass, its plan | accept, membership, schedule, failure report | stale generations, bounded windows | a replaced decision has no live lease | partly |
| Transition service (`task_transition_service.py`) | journal of events, one claim per task | execute, recover_authorized | read-then-write window, lost answers, takeover of another intent's claim | a journaled success happened, one saga per task | partly |
| Terminal audit lane (`terminal_audit_workflow.py`) | audit record, attempt, typed result | claim, mark_finalizing, complete, retry, cancel | clock read before the lock, two-transaction actions | a typed result is never lost | its ledger calls |
| Integration queue (`integration_queue.py`, lane in `orchestrator.py`, `integration_workflow.py`) | rows, leases, generations, rebase intents, history sequence; the tracker's integration record | submit, claim, rebase, gate, land, finish, route a failure, recover, retire, replay to the audit | two stores and Git without a common transaction, resubmission at any time, leases known by owner only | nothing is called integrated that has not landed, no submission is lost to an older one, the replay misses nothing | modelled but for the order among tasks |
| Validation resource lease | slots, diagnostics rows | acquire, heartbeat, release | dead holders | capacity; the kernel's `flock` gives it | no |
| Event lanes (`materialize_event`, `retire_event_lane`, called by `implementation_workflow.py`) | lane cursors, one ordering row per task, two generation counters | allocate, materialise, retire | a generation is taken long before it is written; scans and callers overtake each other; equal events | one live disposition per task and the newest, an answer is a row that ran | modelled for implementation dispositions |
| Event intake | coalesced notifications in memory | admit, drain | none that is durable | every pass reads everything | no |
| Terminal transition coordinator, audit enforcement | receipts, requests | request, confirm, enforce | evidence parsing, compare-and-set | no terminal state without its audit | its answers |
| Decision evaluator, facts, gates | none | evaluate | many cases | totality | a free choice |
| Trackers, forges, agents, server, watchdogs, release delivery, projects | external or derived | I/O | provider failures | outside the durable ledger | no |

The full list with the status of each part is `components` in `PROJECT.json`;
the hazards these components are exposed to, each at its line, are `hazards`.

## 2. Plan

| Step | State |
| --- | --- |
| `WorkflowJobs`: one action per store method; proofs | done |
| `WorkflowWorker` over `WorkflowJobs` by action conjunction; it implements the ledger; proofs of the saga | done |
| `WorkflowSnapshots`: generations, staging, publication, rollback and the membership fence of claims; proofs | done |
| `TaskTransition`: journal, claim and the read-then-write window; proofs | done |
| `Delivery`: the promise of the integration queue; `IntegrationLane` and `IntegrationHandlers` implement it; proofs | done |
| `EventLanes`: the fact and imperative lanes of a task, their fences and retirements; proofs | done |
| Claim order and starvation (`workflow_jobs.py:6365`) | left; needs many rows |
| Audit lane's own records; terminal coordinator's receipts | left; mostly provider results |

The parts that are left either move rows by operations the ledger model already
allows in any order, or compute data that no other component changes.

## 3. Modules

A transaction of a store (`BEGIN IMMEDIATE`), a section under the issue lock
and a stretch between two awaits is one action; everything may happen in
between.

### WorkflowJobs

One action per store method.

| Specification | Code |
| --- | --- |
| `rows[j]` | the row with idempotency key `j`; `absent` before `enqueue` |
| `lease`, `retry` | time left to `lease_expires_at`, `retry_at`; 0 is "due", `NULL` is NULL |
| `phase` | free text in the code; the classes the ledger or a caller distinguishes |
| `tickets` | claims whose invocation still runs: (job, `lease_token`, `lease_owner`) |
| `sampled` | invocations that read the clock before they waited for the lock |
| `detached` | calls that timed out and were quarantined, process alive, unsettled |
| `proc[o]` | a runtime identity: down, starting (`start` before `_started`), up |
| `spent[j]` | history: charged failures since the row was armed |
| `Kind[j]` | what the lanes distinguish: implementation or other runtime work, terminal audit, topology repair |

A token is a fresh UUID in the code. The model draws it from the tokens no row
and no invocation holds; the set bounds the tokens outstanding at once, not the
number of claims. A process that restarts has a new identity in the code
(`pid`, start ticks, boot generation); the model reuses an owner only when no
row names it.

Abstractions, each a superset of what the code does: the order of claims
(priority, age, fairness) is any order; the limits of batched recovery are not
modelled; the snapshot-membership fence of a claim is in `WorkflowSnapshots`
(a fence removes behaviours); the audit and repair lanes call the store in any
order their phases allow. `fail` keeps the worker's phase, and for an audit
writes the retry phase unless an operator is needed.

### WorkflowWorker

Extends `WorkflowJobs`. `saga[t].pc` is what the invocation behind ticket `t`
does next; `cp[j]` the part of `checkpoint_json` that decides where a saga
resumes. Every action conjoins one ledger action or leaves the ledger alone.

| Actions | Code (`workflow_worker.py`) |
| --- | --- |
| `Claim` | `claim_next` 1474, the start of `_execute_claimed` 865 |
| `Revalidate`, `Reassess`, `SupersedeOwn` | 890-957, 1357-1371 |
| `Inspect`, `StartApply`, `ApplyCommits`, `ApplyReturns`, `Verify` | 959-1057 |
| `Build`, `TransitionCommits`, `TransitionReturns`, `TransitionFails` | 1059-1297 |
| `Compensate`, `FailCompensated` | 598-703, 890-892 |
| `Finalize` | 1299-1348 |
| `Raise`, `DeferAdministratively`, `Interrupted`, `EndUnacknowledged` | the except clauses 1349-1414 |
| `QuarantineCall`, `QuarantineUnwatched`, `QuarantineUnavailable` | 830-863, 1384-1405 |
| `SettleOk`, `SettleBad`, `SettleLost`, `RequestRecycle` | `_monitor_quarantined_call` 453-579 |
| `RestartFails` | `graceful_restart` (`orchestrator.py` 9944) rolls back to the old process |
| `Heartbeat`, `Drain`, `Interrupt` | 705-727, 374-391, 368-372 |
| `Die` | the process ends with its calls; a new one starts |

The two calls whose effect on the world matters, apply and the transition, are
three steps: started, took effect, returned. The other handler calls are one
step. The transition service appears as its atomic core: compare the expected
authority version and write, or find the outcome in its journal, or find the
task in the requested status already, or refuse; `TaskTransition` has its
inside. The tracker is a revision per task that anybody may advance, and
whether the requested status was reached. `Rearm` is left out of `LedgerStep`:
it is a migration of rows that are not executing (`workflow_runtime.py:2112`).
An observer that raises in `_notify` is caught and changes nothing. The recycle
timer asks once: if the store, the handler's preparation or the recycle observer
raises (526-566), or the restart fails, the call is `stranded` and its
quarantine is left to the operator. A cancelled
invocation (1391) quarantines without a monitor, like a `quarantine_owned` that
commits after its caller gave up.

Handlers are assumed to keep their protocol: `inspect` reports an effect that
was committed, and an exception of `apply` may come before or after nothing was
committed (a committed effect whose call then raises is the loss of the receipt,
covered by the crash and time-out paths).

### WorkflowSnapshots

The pass of `_reconcile_world_once` against the rows of a project while workers
claim and finish them.

| Specification | Code |
| --- | --- |
| `allocated`, `accepted`, `published` | the three generation markers of `workflow_jobs.py` 1858-2075 |
| `member[t]`, `cursor[t]` | membership and schedule cursor rows; `materialized` compares `materialized_job_generation` |
| `job[t][d, g]` | the managed row of decision `d` activated by snapshot `g` |
| `scan[s]` | a pass: where it stands, its plan, the authority it captured, the rows rearmed since |
| `calls` | invocations under way: (task, job generation, token) |
| `Allocate` ... `Publish` | `allocate_snapshot_generation`, `capture_snapshot_authority`, `accept_snapshot_generation`, `reconcile_snapshot_membership`, `activate_schedule` with `reconcile_schedule`, `publish_snapshot_generation` |
| `Rollback`, `FailedRollback`, `Abandon` | `restore_snapshot_authority`; publisher and compensator both fail (2092-2146); crash or a refused step |
| `AcceptFailure`, `PublishFailure` | `record_liveness_scan_failure` (`workflow_controller.py` 1709-1764) |
| `Claimable` | `_claim_candidate_filter` 6525 with the fence of the published generation |

One project, and a decision asks for at most one job. `retry_wait` is "queued".
The process locks around a pass are left out, so two passes interleave freely:
only the ledger's own fence is relied on. The lease clock, owners and restarts
are in `WorkflowJobs`; here a lease may expire at any time.

### TaskTransition

One task, with the journal of its intents and the claim that lets one saga at a
time execute. `ex[e]` is a call of `execute` or `recover_authorized`.

| Actions | Code (`task_transition_service.py`) |
| --- | --- |
| `BuildIntent`, `OtherWrite` | callers that read the task and build an intent; other tracker writers |
| `Replay`, `Wait`, `TakeOver`, `Acquire` | the branches of `_begin_admitted` 1160-1434 |
| `Fetch`, `FetchFails`, `Refuse` | the first read and the checks after it, 2009-2450 |
| `Say`, `SayFails` | `append` 1030, and an append that raises |
| `Write`, `WriteLost`, `Conflict` | `_update` 1617, the guarded commit 1655-1882, the terminal adapter 562; the answer may be lost |
| `Verify`, `Resolve` | the read after the write, 2666-2741 |
| `Release`, `Retain`, `Defer` | the finally clause 2742, `_release_admitted`, `_expire_for_retry_admitted`, 1961-1982 |
| `Crash`, `LeaseExpires` | the process dies; the claim's lease runs out |

`Lane` tells how an intent writes: plainly, under the project write lock after a
second read, through the terminal coordinator, or as a recovery that skips the
policy checks. Policy checks (edges, authority, heads, lineage) are one refusal
that may happen whenever the write is still to come. `reached` and `overrun`
are history variables: what the task has been since an intent was built, and
whether a saga outlived its lease.

### IntegrationQueue, IntegrationLane, IntegrationHandlers, Delivery

`IntegrationQueue` has what both owners of the queue share: the rows of
`integration_queue.py`, the integration record of the tracker, the branches,
and what each transaction makes of a row. A commit is a number; `origin` is the
submitted commit that a rebased one descends from, `newest` the commit that was
submitted last.

| Specification | Code |
| --- | --- |
| `row[t]` | the queue row: `sub` is head and base, `cand` the candidate pair, `pred` is `rebased_from_head_sha`, `intent` and `publishing` the rebase intent and publication |
| `owner`, `expired` | the lease; the code knows its holder by owner only |
| `record[t]` | task status and `oompah.integration` metadata |
| `counter`, `seq` | `integration_history_sequence` |
| `Enqueued`, `Integrated`, `Released`, `Cancelled` | `enqueue`, the two checkpoint methods, recovery, `cancel` |
| `Staged` | `_stage_integrated_task_audit` (`orchestrator.py` 29588) |

`IntegrationLane` is the lane of the orchestrator, which owns the queue when no
workflow runtime is installed. It leases rows.

| Actions | Code |
| --- | --- |
| `SubmitNew`, `SubmitAgain`, `MoveTask` | a worker's submission (`server.py` 6151-6695); any other writer of the tracker |
| `ScanTracker`, `SyncSubmission`, `RetireInactive`, `BlockPreflight` | the pass that mirrors the tracker (22473-22555, 28674-28808) |
| `ClaimNext`, `LeaseExpires`, `RecoverExpired` | `claim_next` 1519, expiry and its recovery |
| `Restart`, `RecoverAbandoned` | a crash; `startup_cleanup` 13841, which the lane may precede |
| `PrepareCandidate`, `CanonicalizeCandidate`, `PassGate`, `AuthorizeLanding`, `LandItem` | `execute_integration`, with the authority checks between its steps |
| `FailItem`, `RouteRow`, `RouteRecord`, `RequeueRebased`, `RouteStatus` | `_route_integration_failure` 29053-29469, one step per write |
| `LoseAuthority`, `CancelItem`, `ReleaseItem` | the results that withdraw or release an item |
| `CheckpointItem`, `PersistItem` | the queue's checkpoint and the record after it, 31340-31411 |
| `StageLanding` | the audit replay that runs beside the lane, 30168 |

`IntegrationHandlers` is the same queue under the workflow runtime: no leases,
each transaction compares the generation (`updated_at` is part of it) of the
row that the action observed. `exact[w]` says that it still is the row's.

| Actions | Code (`integration_workflow.py` unless named) |
| --- | --- |
| `SubmitNew`, `SubmitAgain` | acceptance by the API (`server.py` 6577) |
| `ReadSubmission`, `QueueSubmission`, `FinishSubmission` | the submission job (`implementation_workflow_adapter.py` 1169-1213) |
| `Observe` | `revalidate_action` 3856 |
| `RecoverRow`, `RepairRecord` | `_apply_recovery` 5342-5620 |
| `ConsumeRetry`, `RecoverLanding` | the start of `_apply_integration_attempt` |
| `PrepareRebase`, `AbortRebase`, `PreparePublication`, `ResumePublication`, `PublishHead`, `CompletePublication` | the rebase, each step a generation of its own (`integration_queue.py` 811-1079); the publication is prepared and completed whatever the status of the task (4659-4731, 4799-4840), and an aborted conflict goes on to block the row |
| `RunGate`, `AuthorizePush`, `LandHead` | `execute_integration` |
| `FinishLanded`, `FinishBlocked`, `RetireGeneration` | `finish_task_generation`, `retire_task_generation`, with the record |
| `PrepareTerminal`, `StageTerminal` | `_prepare_terminal_checkpoint` 3511, `_apply_terminal` 4615 |
| `AbandonAction`, `Restart` | failure or interruption of an action; the service stops |
| `ReadLandings`, `StageLanding` | the replay of landed rows with its saved cursor (`orchestrator.py` 30275-30336) |

Init has three states that an earlier release's lane leaves behind, beside the
fresh store: the handlers must take over a leased row and a record that ran
ahead of its row.

`Delivery` is what the queue promises, without rows, leases or generations: a
commit lands, the queue calls the task delivered with it, the tracker notes it,
and the audit starts when both agree; a new submission may take any of it back.
`D == INSTANCE Delivery WITH landed <- epic` in `IntegrationQueue` reads
`delivered`, `noted` and `auditing` off the row and the record;
`LaneDelivers` and `HandlersDeliver` are `D!Spec`.

Left out: the FIFO order among tasks (tasks share no row), force-retry budgets
(`ConsumeRetry` writes the row or not), and the inside of Git, of which only the
pushes matter.

### EventLanes

Implementation work reaches the ledger by two lanes of each task. A scan
reconciles what its decision needs into the fact lane; a caller of
`schedule_event` puts an event into the imperative lane, which a scan must not
schedule past. Both take a generation in one transaction and write in another,
much later; the ordering row lets only newer generations write. `jobs` are the
rows by the number in their key, `cursor` the last event of each lane with its
row, `scans` and `calls` the generations under way. `since` is history: the rows
that were live during a call.

| Actions | Code |
| --- | --- |
| `BeginScan`, `DropScan` | `allocate_snapshot_generation` (`workflow_runtime.py:3241`); a pass that fails, is not published or is overtaken |
| `ReconcileAction`, `ReconcileNoAction` | `reconcile_evaluated` (`implementation_workflow.py` 695-864) with `materialize_event` or `retire_event_lane` (`workflow_jobs.py` 4397-4861) |
| `BeginCall`, `MaterializeEvent`, `OvertakenEvent`, `DropCall` | `schedule_event` (902-969): allocation, write, the answer of an equal event that overtook it, refusal or death |
| `Claim`, `Checkpoint`, `GiveBack`, `Detach`, `Settle`, `Abandon`, `End` | what workers and restarts do to a row, as far as the lanes see it; `WorkflowJobs` has the whole |

A row that is over is never live again here: rearming is for deliveries and
audits. Attempts, clocks and lease owners are left out, so a row may be given
back, ended or claimed whenever `WorkflowJobs` could allow it. `OneLiveDisposition`
is about rows that never lost a call: a quarantined row is left alone by a newer
event, and returns to the queue beside it when its call settles.

## 4. Runs

| Run | Module and configuration | Question |
| --- | --- | --- |
| `ledger` | `MCWorkflowJobs`, `Ledger.cfg` | do attempts, leases, quarantines, finality and exclusion hold for a runtime row and an audit row of one task in two crashing processes |
| `ledger_live` | `MCWorkflowJobs`, `LedgerLive.cfg` | do abandoned leases that something looks for get free again, of the worker and of running or finalizing audits |
| `worker_saga` | `MCWorkflowWorker`, `WorkerSaga.cfg` | are effects and transitions neither repeated nor skipped nor swapped, and progress and compensations never forgotten, across crashes, expiry, time-outs and other tracker writers |
| `worker_live` | `MCWorkflowWorker`, `WorkerLive.cfg` | does a watched quarantine end unless its one request fails, even if the call hangs or its settlement is lost; does a lease that nobody attends end; and does the worker, with drains and interrupts, only do what the ledger's operations allow |
| `event_lanes` | `MCEventLanes`, `EventLanes.cfg` | do scans and callers that write later than they took their generation leave one live disposition, the newest, displace nothing newer than themselves, and give true answers |
| `snapshots` | `MCWorkflowSnapshots`, `Snapshots.cfg` | do two passes that stage, publish, roll back, fail or die leave live leases authorised, detached calls fenced, rows completed by workers only, and no cursor without the rows it names |
| `transition` | `MCTaskTransition`, `Transition.cfg` | does the journal only report moves that happened, do sagas exclude each other, and is an intent over once the journal says so |
| `lane_delivery` | `IntegrationLane`, `LaneDelivery.cfg` | does the leasing lane keep the promise of the queue, and does no landing give way to an older submission |
| `handlers_delivery` | `IntegrationHandlers`, `HandlersDelivery.cfg` | do the handlers keep it, keep the newest submission, and does the replay miss nothing when rows land again |
| `ledger_integrity`, `worker_stale`, `snapshot_terminal` | `LedgerIntegrity.cfg`, `WorkerStale.cfg`, `SnapshotTerminal.cfg` | disagreements of code and documentation, below |

Run `tlc -config X.cfg M` with the module of the table, and `tlapm M.tla` for
the proofs of a `...Proofs` module.

Bounds, and why they are enough:

- Every run has one task. Tasks share no row; they interact only through the
  order of claims, which is left out. In `snapshots` every property is per task.
- Two processes, passes or executors are the least that show a takeover; two or
  three tokens allow a stale, a current and a next claim at once. They are
  symmetric in the safety runs, and not in the liveness runs.
- `MaxAttempts = 2` has a first, a retried and a final attempt that exhausts. In
  `ledger`, `LeaseSeconds = 2` and `MaxDelay = 1` separate a live, a running-out
  and an expired lease, a due and a waiting retry; the others use
  `LeaseSeconds = 1` and `MaxDelay = 0`. `snapshots` has `MaxAttempts = 1`: a
  row is queued again by a settlement that gives the attempt back or by a rearm,
  and a lost or failed attempt exhausts it.
- `worker_saga` has `MaxRevision = 1`: one execution or one other writer of the
  tracker, which is what a saga can lose a race to; `MaxApplied = 2` allows one
  repetition of an effect, which `AppliedOnce` watches. It has no signals: they
  are in `worker_live`, and the proofs allow any. `worker_live` has both
  signals, `LeaseSeconds = 2` so that a heartbeat can keep a lease alive,
  `MaxRevision = 0` and one attempt: whether a row is freed does not
  depend on the tracker's revision, and that the worker keeps to the ledger is
  proved for any number of attempts.
- `event_lanes` has two scans, two callers, two events and three decisions: one
  asks for the event that callers raise too, one for the other, one for none.
  `MaxGen = 4` lets all four hold a generation at once; `MaxSeq = 2` allows an
  event and the one that displaces it or an equal one later. Both bounds end a
  behaviour: `CHECK_DEADLOCK FALSE`. Deadlock is checked in all other runs.
- `snapshots` has `MaxGen = 3`: the generation in force, one that is half staged
  and the next; two decisions, one of which asks for a job and recurs. `MaxGen`
  bounds the allocations, so a behaviour really stops when all are used:
  `CHECK_DEADLOCK FALSE`.
- `transition` has an intent that writes plainly and a terminal one, so both
  lanes and a takeover of either by the other; `MaxRev = 0` lets the authority
  version vary by the status only.
- `lane_delivery` has three commits (a submission, its rebase, a replacement),
  two landings and a budget of two attempts. `handlers_delivery` has one action
  and one submission job at a time; a stale action is one whose row or record
  changes between two of its steps. `MaxWork = 4` bounds the commits and the
  landings together: three commits (a submission, its rebase, a resubmission)
  with one landing, or two commits with two landings, so that a row that the
  replay has read is replaced and lands again. With one task a batch holds one
  row; batches of several are covered by the theorem only (`ReplayComplete`). It
  abstracts the attempts (`MaxAttempts = 0`), on which no guard of the handlers
  depends.
- The bounds of the safety runs are kept as small as a run needs to reach every
  action and to find each fault the project's mutants plant: what they check is
  also proved for every value of the constants (section 6).
- No run has a topology-repair row (`repair` in `MCWorkflowJobs`); the exemption
  for repairs in `OneRunningPerTask` is covered by the proof.

### Disagreements the runs show

| Run | What |
| --- | --- |
| `ledger_integrity` | startup recovery requeues a quarantined row with its phase; the next claim makes a row that `integrity_check` calls corrupt, and `start` refuses it |
| `worker_stale` | a saga that lost its lease supersedes the row another worker runs |
| `snapshot_terminal` | a rollback puts a row that completed since the capture back to running, although terminal rows are documented as immutable |

`findings` in `PROJECT.json` quotes the line each of them contradicts.

### Behaviours worth a reader's attention that no run is spent on

- The lane writes the record of its own failed head over a newer submission
  (`RouteRecord`, `orchestrator.py:29283`). The handlers keep
  `NewestSubmissionKept`; the lane does not claim it.
- Under the handlers a submission job queues what it read (`QueueSubmission`,
  `implementation_workflow_adapter.py:1204`) and compares nothing; its authority
  is asserted afterwards. One that lost its lease between read and write puts the
  row back to an older submission, also over a landing of the newer one: with two
  submission jobs of a task `LandedNotOvertaken` fails for the handlers. The lane
  keeps it, since it reads, writes and leases one after the other.
- A second call with the same key journals WAITING over APPLYING (`Wait`,
  `task_transition_service.py:1261`); when the first saga dies after staging, a
  replay of the terminal intent no longer knows that it had started, and refuses
  it although its own stage stands.
- A caller that could not settle the retained obligation of another intent
  journals WAITING for its own (`Defer`, `task_transition_service.py` 1961-1982)
  without asking whether a third call settled that in the meantime. An outcome
  in the journal is then unsettled again, and the intent may be executed once
  more. `OutcomeStands` exempts exactly this step.
- When publisher and compensator both fail (`FailedRollback`,
  `workflow_jobs.py:2109`), the rows of the failed pass are claimable at once,
  which the comment at 2114-2116 wants to prevent; no property of `snapshots`
  says that half-staged work is never claimed. An ordinary `Rollback` does
  the same after an earlier pass died half staged: it restores what that pass
  had staged, and the acceptance of the published generation.
- A rollback of a pass that materialised the job of an earlier, unmaterialised
  activation supersedes the job and restores the cursor that still waits for it.
  The next pass activates the same key, and `_enqueue_locked`
  (`workflow_jobs.py` 3893-3917) answers with the superseded row as a replay:
  the job does not run until the decision changes.
- A quarantine stored after its caller stopped waiting (`QuarantineUnwatched`,
  `workflow_worker.py:844`) has no monitor and lasts until the process dies.
- A transport error on the last attempt, after the tracker committed,
  compensates a moved task (`workflow_worker.py:1224`).
- When a decision needs what a live imperative row already does,
  `materialize_event` answers with that row, and `reconcile_evaluated`
  (`implementation_workflow.py` 801-813) then looks for it in the fact lane only.
  The result says `truncated`, although the comment at 815-819 lets an imperative
  row satisfy the decision; the runtime may ask for one pass more than it needs.
- `schedule_event` raises "imperative implementation event was not accepted" when
  another revision is written between its allocation and its write
  (`DropCall`); the caller has to call again.

## 5. Fairness

The ledger (`FairSpec`): time passes; some runtime keeps polling `claim_next`
of the worker's lane, which recovers its expired rows; for audits,
`TerminalAuditWorkflow.recover` and the replay lane keep looking at pending
records; an invocation that lost its lease ends, since its calls are bounded by
time-outs. The audit lane polls no `claim_next`: `start` and `require_action`
return early on a running row (`terminal_audit_workflow.py` 1048, 1538),
`recover` reclaims phase "working" and the replay "finalizing". So
`OrphanedLeaseReleased` is about the rows that something looks for (`LookedFor`).
An audit row orphaned between its claim and its launch, or between the two
writes of an operator action (1504), waits until the claim of some other record
recovers what has expired; no fairness is assumed of that, and nothing is
claimed. The property assumes that some runtime eventually stays up, that its
projects are not paused, that the worker has a free slot to poll with, and that
the record of the audit is still pending.

The worker (`FairSagaSpec`): time passes, and a worker that is up and accepts
claims polls its lane; the recycle timer of a quarantine, an `asyncio` task with
a bounded wait, runs out if it stays armed, and its one request is heard or not;
a restart that was asked for happens or fails. Nothing is assumed of the call
itself, which may hang for ever, nor of the settlement write, nor that the
request or the restart succeeds: `WatchedQuarantineEnds` says that a watched call
ends or is `stranded`, left to the operator. `UnattendedLeaseEnds` is the other
half: a call that was told to withdraw while the store refused its quarantine has
no heartbeat any more, so its lease runs out and recovery takes the row, if some
worker eventually stays up and accepts claims.

The other modules state no fairness. A pass, a saga of the transition service
and an integration action are retried by timers and later passes, but each try
may meet a new refusal or a new submission, so the code promises no progress
that a model could hold it to.

## 6. Proofs

All constants are arbitrary up to the `ASSUME`s of the modules: types, positive
attempts and leases, `NULL` outside the value sets, `Budget` within
`MaxAttempts`. Eight modules hold theorems; `theorems` in `PROJECT.json` lists
the results, the rest are lemmas. Every invariant and action property of a
passing run has a theorem.

`WorkflowJobsProofs`. The invariants are not inductive alone: one running row
per task depends on no other operation creating a running row, the fence of a
detached call on nobody else holding its token, the accounting on the row's
state. `IndInv` has four parts: `RowsInv` (type, accounting and lease shape of
every row, and that only audit rows are finalizing), `HolderInv` (tickets are
typed, their processes live, and the one that holds a row's token is its
owner), `DetachedCallFenced` and `OneRunningPerTask`. A step either leaves a
row alone, lets it go, rewrites it under its token, or claims it; a lemma per
row operation and one per kind of step reduce each action to a few lines. From
`IndInv` follow `TypeCorrect`, `OneRunning`, `AttemptsAccounted`,
`LeasesWellFormed`, `DetachedFenced`, and with lemmas on what a single step may
do to a row (`LeaseLost`, `RevokedStep`) the action properties
`RevocationFinal`, `LeasesRespected` and `FinalizingPreserved`.

`WorkflowWorkerProofs`. `Refinement`: every saga step, under `IndInv`, is a
ledger step of its ticket or leaves the ledger alone, so `SagaSpec` implements
`Spec` and every ledger theorem holds of the worker. The properties of the saga
are not inductive: what a step may write depends on where the invocation
stands, and that on what was saved before. `SagaInv` adds to the types three
parts. `CheckpointInv`: a checkpoint is true of the world (a receipt means a
committed effect, an outcome a task that reached the requested status, nothing
was executed but the saved intent) and its entries are there in order.
`StepInv`: an invocation that carries an intent carries the saved one, with or
without the lease; the one that holds the lease also stands where the
checkpoint says (`Fits`), since nobody else can write it. `EffectInv`: outside
`overlapped`, an apply call in flight means that nothing was applied yet, no
other call is in flight and no other invocation holds the lease. From it follow
`SagaTypeCorrect`, `EffectAppliedOnce`, `IntentJournaled`,
`MoveFollowsEffect`, `CompletionSound` and the action properties `ProgressKept` and `CompensationFinal`.

`WorkflowSnapshotsProofs`. That a live lease is authorised is not inductive,
because a rollback writes captured rows and cursors back: it needs to know what
was captured, and what has happened to the captured rows since. `PassInv` says
of the passes that published is at most allocated, and that the generations of
passes under way are allocated, unpublished and distinct. `ViewInv` says of
each captured view that its leases were authorised by its cursors; while the
pass is the newest, that the cursors are still the captured ones until staging,
that the pass's generation is accepted, that rows rearmed since are permitted
by the captured cursor, and that a captured completed row is completed still or
rearmed. With the types these are `IInv`, from which `AuthorityCorrect` and
the action properties `QuarantineCorrect` and
`CompletionCorrect` follow. `BackInv` stands on top of it for `CursorsBacked`:
the captured cursors named captured rows and captured members (`BackedView`),
no row vanishes and no member falls below what a view still under way has
captured, no membership is ahead of the allocated generation, and a task that is
still to be scheduled already has the membership of its pass (`PlannedInv`), so
that putting the tables back, whole or in part, puts cursors back beside what
they name.

`TaskTransitionProofs`. A phase that reports success is appended after the read
that justified it, perhaps by a saga that has lost its claim. `ReachedInv`
carries the justification: every built intent whose goal the tracker shows has
been reached, and a saga about to report success has an intent of that kind.
`ClaimInv`: until a saga outlives its lease, the executing saga holds the live
claim, and the claim and the intent it works for are unsettled, so that no
replay retires it and no takeover passes it. `SettledIntentsRest` is part of it,
and `OutcomesStand` follows: only the holder of the claim writes outcomes, and
a phase is written over an outcome only by the deferral named above.

`IntegrationHandlersProofs`. No lease protects an action; the generation it
observed does. While it still is the row's, the row is ready, not rebasing and
has the head that the action pushes (`HandlerInv`). The record may change under
the action, but one that names the head of the row again did so before, because
a new submission makes a new commit: heads are bounded by the commits made, a
predecessor is never newer than the head that replaced it, and the record's
commit descends from the newest submission (`RowInv`, `RecordInv`). `ReplayInv`:
integrated rows beyond the cursor are in the batch or newer than all of it, and
sequences are not shared.

`IntegrationLaneProofs`. One lane integrates rows, and holds the issue lock
from the queue's checkpoint to the record. So a record is integrated only while
its row is, with the same pair (`RecordInv`); a view read before never replaces
such a row, since a submission in between made a commit that the row does not
name (`ViewInv`); the item in execution carries the candidate of its row, and
after the push one that landed (`LaneInv`).
`LandingsNotOvertaken` stands on that: a row becomes integrated beside the record
that names its pair, no pass has a view open then, and from there on record and
view only name what they named or a commit that is new (`Ordered`, a fact about
each step). So both are never older than an integrated row (`OrderInv`), and
whatever replaces it is what one of them says.

`DeliveryMapping` has what the mapping to `Delivery` makes of a step that
writes one row and one record; `IntegrationHandlersProofs` and
`IntegrationLaneProofs` use it, with the invariants above, to show that each action maps to a step or a
stutter of `Delivery`: `HandlersImplementDelivery` and `LaneImplementsDelivery`.

`EventLanesProofs`. A new generation is above both counters, and the ordering
never runs ahead of them, so generations under way are distinct and none is the
one that the ordering holds (`GenerationsDistinct`). Hence an equal event whose
row is over always gets a new row, and the cursor's row is live after a write. A
write displaces every live row of its lanes but those whose phase is
"quarantined" and which run; these have lost a call (`RowsOK`). `LaneFence`:
beside a live imperative row a fact row lives on only behind a lost call. An
event that overtook an open call left a row that was live during the call
(`OvertakersRan`), so that either way the caller's answer ran. These make up
`IInv`; the five invariants follow from it. `NewerDisplaces` needs one more:
while the ordering is empty no row is live (`FirstWrite`), so a first write has
nothing to displace. Workers leave the ordering alone, and the writes of both
lanes displace only under a generation above the one the ordering holds.

The types of the worker and of the lane (`SagaTypeOK`, `LaneTypeOK`), the shape of
leases (`LeaseShape`) and the landings of the lane (`IntegratedMeansLanded`, which
`LaneDelivers` implies) are proved, and no run spends time on them.

Only model-checked: the liveness properties `OrphanedLeaseReleased`,
`WatchedQuarantineEnds` and `UnattendedLeaseEnds` (TLAPS has no support for fairness and ENABLED), and
the violations, whose counterexamples TLC prints.

## 7. Not modelled

- The order of claims (priority, age, round robin among projects) needs many
  rows at once. Of the event lanes, those of direct-owner revocations (a lane
  and an ordering of its own for each claim), of epics and of terminal audits
  (`activate_event_order`), and the records of handed-over retirements.
- The validation resource lease: two holders of a slot are excluded by a kernel
  `flock`; the SQLite rows beside it are diagnostics. A model would assume the
  exclusion that it should show.
- The inside of the terminal transition coordinator, the auditor's attempts and
  provider results, audit enforcement: mostly the parsing and comparison of
  evidence; the other modules see their answers.
- Event intake is coalesced in memory, and every pass reads the whole tracker
  again, so nothing durable depends on it. Release delivery is a simpler queue
  of one lane whose work is Git and forge I/O.
- Facts, the decision evaluator and the gates are predicates over tracker and
  Git data; their result is a free choice where it matters. Trackers, forges,
  agents, providers, server, console, watchdogs, projects and configuration are
  I/O, presentation and bootstrap around the modelled core, and most of the
  repository's lines.
- The heartbeat's cached copy of the row (`workflow_worker.py:719`), the batch
  limits of recovery and the duty to compensate of exhausted rows are noted
  under `hazards`.
