-------------------------- MODULE IntegrationLane ---------------------------
(***************************************************************************)
(* The integration lane of oompah/orchestrator.py, which owns the queue    *)
(* when no workflow runtime is installed (_tick).  One pass at a time      *)
(* mirrors the tracker into the queue, retires rows whose task left the    *)
(* lane, leases a row and executes it.  Submissions of the API and the     *)
(* replay of landed rows to the terminal audit run beside it.              *)
(***************************************************************************)
EXTENDS IntegrationQueue

CONSTANT Budget   \* integration_retry_max_attempts

ASSUME BudgetAssumption == Budget \in Nat \ {0} /\ Budget <= MaxAttempts

VARIABLES
  starting,  \* startup_cleanup has not run yet
  view,      \* what the pass read from the tracker
  lane,      \* the item in execution
  exact      \* its row has the generation that was checkpointed last

store == <<row, counter, record, made, origin, newest, epic>>
vars  == <<row, counter, record, made, origin, newest, epic, starting, view, lane, exact>>

\* item is the row as it was claimed; out is the pair that was built from it;
\* retry: the failure is retried.
Items == [pc : {"idle", "claimed", "prepared", "canonical", "gated", "pushing", "landed",
                "checkpointed", "cancelling", "deferred", "failing", "noting",
                "requeueing", "routing"},
          task : Nullable(Tasks), item : Nullable(Rows), out : Nullable(Pairs),
          retry : BOOLEAN]

IdleLane == [pc |-> "idle", task |-> NULL, item |-> NULL, out |-> NULL, retry |-> FALSE]

Init ==
  /\ row = [t \in Tasks |-> NoRow]
  /\ counter = 0
  /\ record = [t \in Tasks |-> NoRecord]
  /\ made = [t \in Tasks |-> 0]
  /\ origin = [t \in Tasks |-> [c \in Commits |-> 0]]
  /\ newest = [t \in Tasks |-> 0]
  /\ epic = [t \in Tasks |-> {}]
  /\ starting = TRUE
  /\ view = [t \in Tasks |-> NULL]
  /\ lane = IdleLane
  /\ exact = FALSE

\* The issue transition lock, held from the queue checkpoint of an item to its
\* tracker write.
Locked(t) == lane.task = t /\ lane.pc = "checkpointed"

\* A write stamps updated_at, which is part of the generation.
Put(t, r) ==
  /\ row' = [row EXCEPT ![t] = r]
  /\ exact' = (exact /\ lane.task # t)

Sweep(rows) ==
  /\ row' = rows
  /\ exact' = (exact /\ (lane.task \in Tasks => rows[lane.task] = row[lane.task]))

Enqueue(t, p, explicit, rearm, preserve) ==
  LET r == Enqueued(row[t], p, explicit, rearm, preserve)
  IN IF r = row[t] THEN UNCHANGED <<row, exact>> ELSE Put(t, r)

Cancel(t) ==
  IF row[t].state \in {"ready", "integrating", "blocked"}
    THEN Put(t, Cancelled(row[t]))
    ELSE UNCHANGED <<row, exact>>

-----------------------------------------------------------------------------
(* Submissions *)

\* A worker submits a pushed head: the integration record and the Ready status
\* are written, then the row, under the issue transition lock.  The process may
\* stop before the row is written.
Submit(t, p, queued) ==
  /\ ~Locked(t)
  /\ record' = [record EXCEPT ![t] = [status |-> "ready", sub |-> p, state |-> "ready"]]
  /\ IF queued THEN Enqueue(t, p, TRUE, TRUE, FALSE) ELSE UNCHANGED <<row, exact>>
  /\ UNCHANGED <<counter, epic, view, lane, starting>>

SubmitNew(t, queued) ==
  LET c == made[t] + 1
  IN /\ Make(t, c)
     /\ newest' = [newest EXCEPT ![t] = c]
     /\ Submit(t, [head |-> c, moved |-> FALSE], queued)

SubmitAgain(t, queued) ==
  /\ record[t].sub # NULL
  /\ Submit(t, record[t].sub, queued)
  /\ UNCHANGED <<made, origin, newest>>

\* Somebody else moves the task: an owner, a repair worker, the auditor.
MoveTask(t, status) ==
  /\ ~Locked(t)
  /\ record[t].sub # NULL /\ record[t].status # status
  /\ record' = [record EXCEPT ![t].status = status]
  /\ UNCHANGED <<row, counter, made, origin, newest, epic, view, lane, exact, starting>>

-----------------------------------------------------------------------------
(* The pass that mirrors the tracker *)

ScanTracker(t) ==
  /\ lane.pc = "idle" /\ view[t] = NULL
  /\ view' = [view EXCEPT ![t] = record[t]]
  /\ UNCHANGED <<store, lane, exact, starting>>

\* _sync_ready_integration_submissions: enqueues what the pass read, except a
\* submission whose candidate the row keeps.
KeepsCandidate(r, p) ==
  r.state \in {"ready", "integrating"} /\ r.cand # NULL /\ r.sub = p

SyncSubmission(t) ==
  /\ view[t] # NULL
  /\ view[t].status = "ready"
  /\ view' = [view EXCEPT ![t] = NULL]
  /\ IF KeepsCandidate(row[t], view[t].sub)
       THEN UNCHANGED <<row, exact>>
       ELSE LET retry == view[t].state = "ready"
            IN Enqueue(t, view[t].sub, retry, FALSE, retry)
  /\ UNCHANGED <<counter, record, made, origin, newest, epic, lane, starting>>

\* _retire_inactive_integration_rows; a blocked row is kept unless the task is
\* terminal or names another head.
RetireInactive(t) ==
  /\ view[t] # NULL
  /\ view[t].status # "ready"
  /\ view' = [view EXCEPT ![t] = NULL]
  /\ IF \/ row[t].state # "blocked"
        \/ view[t].status = "terminal"
        \/ view[t].sub # NULL /\ view[t].sub.head # Effective(row[t]).head
       THEN Cancel(t)
       ELSE UNCHANGED <<row, exact>>
  /\ UNCHANGED <<counter, record, made, origin, newest, epic, lane, starting>>

\* block_preflight: the parent is terminal and the landing not provable.
BlockPreflight(t) ==
  /\ lane.pc = "idle"
  /\ row[t].state \in {"ready", "blocked"}
  /\ Put(t, [row[t] EXCEPT !.state = "blocked", !.owner = NULL, !.expired = FALSE])
  /\ UNCHANGED <<counter, record, made, origin, newest, epic, view, lane, starting>>

-----------------------------------------------------------------------------
(* Leases *)

LeaseExpires(t) ==
  /\ row[t].state = "integrating" /\ ~row[t].expired
  /\ row' = [row EXCEPT ![t].expired = TRUE]
  /\ UNCHANGED <<counter, record, made, origin, newest, epic, view, lane, exact, starting>>

RecoverExpired ==
  /\ lane.pc = "idle"
  /\ \E t \in Tasks : Recovered(row[t]) # row[t]
  /\ Sweep([t \in Tasks |-> Recovered(row[t])])
  /\ UNCHANGED <<counter, record, made, origin, newest, epic, view, lane, starting>>

\* The service dies; nothing but the stores and the tracker survives it.
Restart ==
  /\ row' = [t \in Tasks |-> IF row[t].owner = "lane" THEN [row[t] EXCEPT !.owner = "gone"]
                                                      ELSE row[t]]
  /\ starting' = TRUE
  /\ view' = [t \in Tasks |-> NULL]
  /\ lane' = IdleLane
  /\ exact' = FALSE
  /\ UNCHANGED <<counter, record, made, origin, newest, epic>>

\* startup_cleanup; the lane was woken before it, and may hold a lease already.
RecoverAbandoned ==
  /\ starting
  /\ starting' = FALSE
  /\ Sweep([t \in Tasks |-> Abandoned(row[t])])
  /\ UNCHANGED <<counter, record, made, origin, newest, epic, view, lane>>

ClaimNextEarly(t) ==
  LET rows == [u \in Tasks |-> Recovered(row[u])]
      mine == [rows[t] EXCEPT !.state = "integrating", !.owner = "lane",
                              !.expired = FALSE, !.attempts = Counted(@)]
  IN /\ lane.pc = "idle"
     /\ rows[t].state = "ready" /\ rows[t].attempts < Budget
     /\ row' = [rows EXCEPT ![t] = mine]
     /\ lane' = [IdleLane EXCEPT !.pc = "claimed", !.task = t, !.item = mine]
     /\ exact' = FALSE
     /\ UNCHANGED <<counter, record, made, origin, newest, epic, view, starting>>

\* claim_next recovers expired leases, then leases a ready row with budget.
ClaimNext(t) ==
  LET rows == [u \in Tasks |-> Recovered(row[u])]
      mine == [rows[t] EXCEPT !.state = "integrating", !.owner = "lane",
                              !.expired = FALSE, !.attempts = Counted(@)]
  IN /\ lane.pc = "idle" /\ \A u \in Tasks : view[u] = NULL
     /\ rows[t].state = "ready" /\ rows[t].attempts < Budget
     /\ row' = [rows EXCEPT ![t] = mine]
     /\ lane' = [IdleLane EXCEPT !.pc = "claimed", !.task = t, !.item = mine]
     /\ exact' = FALSE
     /\ UNCHANGED <<counter, record, made, origin, newest, epic, view, starting>>

-----------------------------------------------------------------------------
(* Execution of the leased item *)

\* owns_active_lease
OwnsLease ==
  LET r == row[lane.task]
      i == lane.item
  IN /\ r.state = "integrating" /\ r.owner = "lane" /\ ~r.expired
     /\ r.sub.head = i.sub.head
     /\ i.cand = NULL \/ (r.cand # NULL /\ r.cand.head = i.cand.head)

\* The tracker still names the item, or, before the candidate is canonical
\* again, the pair that was submitted.
TrackerNames ==
  LET n == record[lane.task]
      i == lane.item
  IN /\ n.status = "ready"
     /\ n.sub \in {Effective(i)} \cup (IF lane.pc = "claimed" THEN {i.sub} ELSE {})

Current == OwnsLease /\ TrackerNames

Move(pc) == lane' = [lane EXCEPT !.pc = pc]

EndItem == lane' = IdleLane

\* fail returns a row to ready or blocks it, if the lease still is the caller's.
FailRow(state) ==
  LET t == lane.task
  IN IF row[t].state = "integrating" /\ row[t].owner = "lane"
       THEN Put(t, [row[t] EXCEPT !.state = state, !.owner = NULL, !.expired = FALSE,
                                  !.seq = 0])
       ELSE UNCHANGED <<row, exact>>

\* The task waits for its conflict repair, or the authority cannot be read.
ReleaseItem ==
  /\ lane.pc \in {"claimed", "canonical", "gated", "deferred"}
  /\ FailRow("ready")
  /\ EndItem
  /\ UNCHANGED <<counter, record, made, origin, newest, epic, view, starting>>

\* The branch is rebased and pushed, unless it contains the epic head already.
PrepareCandidate(rebased) ==
  LET t == lane.task
      p == Effective(lane.item)
  IN /\ lane.pc = "claimed" /\ Current
     /\ IF rebased
          THEN /\ Make(t, origin[t][p.head])
               /\ lane' = [lane EXCEPT !.pc = "prepared",
                                       !.out = [head |-> made[t] + 1, moved |-> TRUE]]
          ELSE /\ lane' = [lane EXCEPT !.pc = "prepared", !.out = p]
               /\ UNCHANGED <<made, origin>>
     /\ UNCHANGED <<row, counter, record, newest, epic, view, exact, starting>>

LoseAuthority ==
  /\ lane.pc \in {"claimed", "canonical", "gated"} /\ ~Current
  /\ Move("cancelling")
  /\ UNCHANGED <<store, view, exact, starting>>

\* _canonicalize_integration_candidate: record_candidate, then the tracker; the
\* tracker write may fail, and then the result is "authority_unavailable".
Canonical ==
  LET t == lane.task
      i == lane.item
  IN /\ record[t].status = "ready"
     /\ record[t].sub \in {i.sub, IF i.cand # NULL THEN i.cand ELSE lane.out}
     /\ row[t].state = "integrating" /\ row[t].owner = "lane"
     /\ row[t].sub.head = i.sub.head /\ row[t].cand = i.cand

CanonicalizeCandidate(written) ==
  LET t == lane.task
  IN /\ lane.pc = "prepared"
     /\ IF Canonical THEN Put(t, [row[t] EXCEPT !.cand = lane.out])
                     ELSE UNCHANGED <<row, exact>>
     /\ record' = [record EXCEPT ![t].sub = IF Canonical /\ written THEN lane.out ELSE @]
     /\ lane' = IF Canonical /\ written
                  THEN [lane EXCEPT !.pc = "canonical", !.item.cand = lane.out]
                  ELSE [lane EXCEPT !.pc = "deferred"]
     /\ UNCHANGED <<counter, made, origin, newest, epic, view, starting>>

PassGate ==
  /\ lane.pc = "canonical" /\ Current
  /\ Move("gated")
  /\ UNCHANGED <<store, view, exact, starting>>

\* The last check comes before the push, and is not atomic with it.
AuthorizeLanding ==
  /\ lane.pc = "gated" /\ Current
  /\ Move("pushing")
  /\ UNCHANGED <<store, view, exact, starting>>

LandItem ==
  /\ lane.pc = "pushing"
  /\ epic' = [epic EXCEPT ![lane.task] = @ \cup {lane.out.head}]
  /\ Move("landed")
  /\ UNCHANGED <<row, counter, record, made, origin, newest, view, exact, starting>>

\* The result is a failure; whether it is retried is decided with the attempts
\* of the item.
FailItem(retry) ==
  /\ lane.pc \in {"claimed", "prepared", "canonical", "gated", "pushing"}
  /\ retry => lane.item.attempts < Budget
  /\ lane' = [lane EXCEPT !.pc = "failing", !.retry = retry]
  /\ UNCHANGED <<store, view, exact, starting>>

\* _route_integration_failure: the row, the record, then a new row or status.
RouteRow ==
  /\ lane.pc = "failing"
  /\ FailRow(IF lane.retry THEN "ready" ELSE "blocked")
  /\ Move("noting")
  /\ UNCHANGED <<counter, record, made, origin, newest, epic, view, starting>>

\* The record of a failure that is not retried says ready all the same when the
\* last repair of a conflict met an infrastructure failure.
RouteRecord(ready) ==
  LET t == lane.task
  IN /\ lane.pc = "noting" /\ (lane.retry => ready)
     /\ record' = [record EXCEPT
          ![t].sub = IF lane.out # NULL THEN lane.out ELSE Effective(lane.item),
          ![t].state = IF ready THEN "ready" ELSE "blocked"]
     /\ Move(IF lane.retry THEN "requeueing" ELSE "routing")
     /\ UNCHANGED <<row, counter, made, origin, newest, epic, view, exact, starting>>

RequeueRebased ==
  /\ lane.pc = "requeueing"
  /\ IF lane.out # NULL THEN Enqueue(lane.task, lane.out, FALSE, FALSE, TRUE)
                        ELSE UNCHANGED <<row, exact>>
  /\ EndItem
  /\ UNCHANGED <<counter, record, made, origin, newest, epic, view, starting>>

RouteStatus(moved) ==
  LET t == lane.task
  IN /\ lane.pc = "routing"
     /\ record' = [record EXCEPT ![t].status = IF moved /\ @ = "ready" THEN "open" ELSE @]
     /\ EndItem
     /\ UNCHANGED <<row, counter, made, origin, newest, epic, view, exact, starting>>

\* The lane cancels the row of an item whose authority was withdrawn.
CancelItem ==
  /\ lane.pc = "cancelling"
  /\ Cancel(lane.task)
  /\ EndItem
  /\ UNCHANGED <<counter, record, made, origin, newest, epic, view, starting>>

\* checkpoint_legacy_integration, under the issue transition lock.
CheckpointItem ==
  LET t == lane.task
  IN /\ lane.pc = "landed"
     /\ IF Current
          THEN /\ counter < MaxSeq
               /\ counter' = counter + 1
               /\ row' = [row EXCEPT ![t] = Integrated(@, lane.out, counter + 1)]
               /\ exact' = TRUE
               /\ Move("checkpointed")
          ELSE EndItem /\ UNCHANGED <<row, counter, exact>>
     /\ UNCHANGED <<record, made, origin, newest, epic, view, starting>>

\* run_if_generation around the tracker write; the write may fail.
PersistItem(written) ==
  LET t == lane.task
  IN /\ lane.pc = "checkpointed"
     /\ record' = [record EXCEPT ![t] = IF exact /\ written
                     THEN [@ EXCEPT !.state = "integrated", !.sub = lane.out] ELSE @]
     /\ EndItem
     /\ exact' = FALSE
     /\ UNCHANGED <<row, counter, made, origin, newest, epic, view, starting>>

\* The replay of landed rows to the terminal audit, which runs beside the lane
\* and starts over when it has seen every row.
StageLanding(t, accepted) ==
  /\ ~Locked(t)
  /\ row[t].state = "integrated"
  /\ record' = [record EXCEPT ![t] = Staged(@, row[t], accepted)]
  /\ UNCHANGED <<row, counter, made, origin, newest, epic, view, lane, exact, starting>>

-----------------------------------------------------------------------------
Tracker(t) ==
  \/ \E queued \in BOOLEAN : SubmitNew(t, queued) \/ SubmitAgain(t, queued)
  \/ \E status \in {"open", "terminal"} : MoveTask(t, status)
  \/ \E b \in BOOLEAN : StageLanding(t, b)

Pass(t) ==
  \/ ScanTracker(t) \/ SyncSubmission(t) \/ RetireInactive(t) \/ BlockPreflight(t)
  \/ LeaseExpires(t) \/ ClaimNext(t)

Execute ==
  \/ ReleaseItem \/ LoseAuthority \/ PassGate \/ AuthorizeLanding \/ LandItem
  \/ RouteRow \/ RequeueRebased \/ CancelItem \/ CheckpointItem
  \/ \E b \in BOOLEAN : PrepareCandidate(b) \/ CanonicalizeCandidate(b) \/ FailItem(b)
                          \/ RouteRecord(b) \/ RouteStatus(b) \/ PersistItem(b)

Next ==
  \/ \E t \in Tasks : Tracker(t) \/ Pass(t)
  \/ Execute \/ RecoverExpired \/ Restart \/ RecoverAbandoned

Spec == Init /\ [][Next]_vars

-----------------------------------------------------------------------------
(* Properties *)

\* Type correctness of the rows, the records, the pass and the item.
LaneTypeOK ==
  /\ StoreTypeOK
  /\ starting \in BOOLEAN
  /\ view \in [Tasks -> Nullable(Records)]
  /\ lane \in Items
  /\ exact \in BOOLEAN

\* The lane keeps the promise of the queue: no executor whose lease expired,
\* whose row was replaced or whose process died between two of its writes makes
\* the queue or the tracker deliver, note or audit what did not land.
LaneDelivers == D!Spec

\* A row that says integrated is replaced only for the submission that landed or
\* a later one: no pass mirrors a record that a submission and its landing have
\* overtaken, no crash between record and row and no failure route queues again
\* what an older submission asked for (_sync_ready_integration_submissions,
\* _route_integration_failure, enqueue).
LandedNotOvertaken ==
  [][\A t \in Tasks : row[t].state = "integrated" =>
       /\ row'[t].sub # NULL
       /\ origin'[t][row'[t].sub.head] >= origin[t][row[t].sub.head]]_vars
=============================================================================
