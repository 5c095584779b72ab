------------------------- MODULE IntegrationHandlers ------------------------
(***************************************************************************)
(* The integration actions of the workflow runtime                         *)
(* (oompah/integration_workflow.py), which own the queue in production.    *)
(* They never lease a row.  An action remembers the generation of the row  *)
(* that it observed, and each of its transactions compares it again; the   *)
(* record of the tracker is read again under the issue lock.  Submissions  *)
(* are accepted by the API and queued by a job of their own, and a         *)
(* historical job replays landed rows to the terminal audit.               *)
(*                                                                         *)
(* Each step between two awaits of a job, and each section that holds the  *)
(* issue lock, is one step; several jobs of a task may be in flight, since *)
(* a job that lost its lease runs on until it is interrupted.              *)
(***************************************************************************)
EXTENDS IntegrationQueue

CONSTANTS Handlers, Submitters, MaxWork

ASSUME ActorsAssumption == NULL \notin Handlers \cup Submitters

VARIABLES
  wf,        \* integration actions and where they are
  exact,     \* actions whose observed generation still is the row's
  sj,        \* submission jobs and the submission each has read
  cursor,    \* maintenance cursor of the audit replay
  batch,     \* rows read by the audit replay and not staged yet
  audited    \* landings that the replay has consumed

replay == <<cursor, batch, audited>>
store  == <<row, counter, record, made, origin, newest, epic>>
vars   == <<row, counter, record, made, origin, newest, epic, wf, exact, sj,
            cursor, batch, audited>>

\* seen is the record at revalidation; head is the head being landed.
Handling == [pc : {"idle", "observed", "recovering", "normalized", "running", "rebasing",
                   "publishing", "published", "gated", "pushing", "landed", "refused"},
             task : Nullable(Tasks), seen : Nullable(Records), head : Nullable(Commits)]

IdleHandler == [pc |-> "idle", task |-> NULL, seen |-> NULL, head |-> NULL]

Submissions == [pc : {"idle", "read", "queued"}, task : Nullable(Tasks),
                sub : Nullable(Pairs)]

IdleSubmitter == [pc |-> "idle", task |-> NULL, sub |-> NULL]

\* What a lane of an earlier release leaves: nothing, a leased row, whose
\* candidate the record may name already, or an integrated record beside a row
\* that is still ready.
First(c, m) == [head |-> c, moved |-> m]

Leased(c) == [NewRow(First(1, FALSE)) EXCEPT !.state = "integrating", !.owner = "gone",
                                             !.cand = c, !.attempts = Counted(0)]

Legacy == {[row |-> Leased(NULL), sub |-> First(1, FALSE), state |-> "ready"],
           [row |-> Leased(First(2, TRUE)), sub |-> First(2, TRUE), state |-> "ready"],
           [row |-> NewRow(First(1, FALSE)), sub |-> First(2, TRUE), state |-> "integrated"]}

InitFresh ==
  /\ row = [t \in Tasks |-> NoRow]
  /\ record = [t \in Tasks |-> NoRecord]
  /\ made = [t \in Tasks |-> 0]
  /\ origin = [t \in Tasks |-> [c \in Commits |-> 0]]
  /\ newest = [t \in Tasks |-> 0]
  /\ epic = [t \in Tasks |-> {}]

InitLegacy(l) ==
  /\ MaxCommit >= 2
  /\ row = [t \in Tasks |-> l.row]
  /\ record = [t \in Tasks |-> [status |-> "ready", sub |-> l.sub, state |-> l.state]]
  /\ made = [t \in Tasks |-> 2]
  /\ origin = [t \in Tasks |-> [c \in Commits |-> IF c <= 2 THEN 1 ELSE 0]]
  /\ newest = [t \in Tasks |-> 1]
  /\ epic = [t \in Tasks |-> IF l.state = "integrated" THEN {2} ELSE {}]

Init ==
  /\ InitFresh \/ \E l \in Legacy : InitLegacy(l)
  /\ counter = 0
  /\ wf = [w \in Handlers |-> IdleHandler]
  /\ exact = [w \in Handlers |-> FALSE]
  /\ sj = [s \in Submitters |-> IdleSubmitter]
  /\ cursor = 0 /\ batch = {} /\ audited = {}

\* MaxWork bounds the commits of a task and the landings together: a run with
\* many commits has few landings, and the other way round.
Room(t) == made[t] + counter < MaxWork

SequenceOfRows ==
  CHOOSE n \in 1..MaxSeq :
    (\A t \in Tasks : row[t].seq < n) /\ (n = 1 \/ \E t \in Tasks : row[t].seq = n - 1)

\* The counter of landings outlives the rows that drew from it.
NextSequence == counter + 1

\* A write stamps updated_at, which is part of the generation: only the writer
\* that takes the returned row keeps up with it.
Put(t, r, who) ==
  /\ row' = [row EXCEPT ![t] = r]
  /\ exact' = [w \in Handlers |-> w = who \/ (exact[w] /\ wf[w].task # t)]

-----------------------------------------------------------------------------
(* Submissions *)

\* The API writes the record of a pushed head; the status follows with the job.
Accept(t, p) ==
  /\ record' = [record EXCEPT ![t].sub = p, ![t].state = "ready"]
  /\ UNCHANGED <<row, counter, epic, wf, exact, sj, replay>>

SubmitNew(t) ==
  LET c == made[t] + 1
  IN /\ Room(t)
     /\ Make(t, c)
     /\ newest' = [newest EXCEPT ![t] = c]
     /\ Accept(t, [head |-> c, moved |-> FALSE])

SubmitAgain(t) ==
  /\ record[t].sub # NULL
  /\ Accept(t, record[t].sub)
  /\ UNCHANGED <<made, origin, newest>>

\* The job of a submission reads the record, queues what it read, and moves the
\* task if the record still names it.
ReadSubmission(s, t) ==
  /\ sj[s].pc = "idle"
  /\ record[t].sub # NULL /\ record[t].state = "ready"
  /\ sj' = [sj EXCEPT ![s] = [pc |-> "read", task |-> t, sub |-> record[t].sub]]
  /\ UNCHANGED <<store, wf, exact, replay>>

QueueSubmission(s) ==
  LET t == sj[s].task
      r == Enqueued(row[t], sj[s].sub, TRUE, TRUE, FALSE)
  IN /\ sj[s].pc = "read"
     /\ IF r = row[t] THEN UNCHANGED <<row, exact>> ELSE Put(t, r, NULL)
     /\ sj' = [sj EXCEPT ![s].pc = "queued"]
     /\ UNCHANGED <<counter, record, made, origin, newest, epic, wf, replay>>

FinishSubmission(s) ==
  LET t == sj[s].task
  IN /\ sj[s].pc = "queued"
     /\ record' = [record EXCEPT ![t].status = IF record[t].sub = sj[s].sub THEN "ready" ELSE @]
     /\ sj' = [sj EXCEPT ![s] = IdleSubmitter]
     /\ UNCHANGED <<row, counter, made, origin, newest, epic, wf, exact, replay>>

\* Somebody else moves the task: an owner, a repair worker, the auditor.
MoveTask(t, status) ==
  /\ record[t].sub # NULL /\ record[t].status # status
  /\ record' = [record EXCEPT ![t].status = status]
  /\ UNCHANGED <<row, counter, made, origin, newest, epic, wf, exact, sj, replay>>

LeaseExpires(t) ==
  /\ row[t].state = "integrating" /\ ~row[t].expired
  /\ row' = [row EXCEPT ![t].expired = TRUE]
  /\ UNCHANGED <<counter, record, made, origin, newest, epic, wf, exact, sj, replay>>

\* The service stops; startup_cleanup of the next one recovers every lease.
Restart ==
  /\ row' = [t \in Tasks |-> Abandoned(row[t])]
  /\ wf' = [w \in Handlers |-> IdleHandler]
  /\ exact' = [w \in Handlers |-> FALSE]
  /\ sj' = [s \in Submitters |-> IdleSubmitter]
  /\ batch' = {}
  /\ UNCHANGED <<counter, record, made, origin, newest, epic, cursor, audited>>

-----------------------------------------------------------------------------
(* Actions *)

At(w, pc) == wf[w].pc = pc

Proceed(w, pc) == wf' = [wf EXCEPT ![w].pc = pc, ![w].seen = NULL]

\* Goes on with head c.
Hold(w, pc, c) == wf' = [wf EXCEPT ![w].pc = pc, ![w].head = c]

EndHandling(w) == wf' = [wf EXCEPT ![w] = IdleHandler]

Forget(w) == exact' = [exact EXCEPT ![w] = FALSE]

\* The record names the head of the row, whatever the status of the task.
RecordNames(t) ==
  /\ row[t].state # "absent"
  /\ record[t].sub # NULL /\ record[t].sub.head = row[t].sub.head

\* _record_authorizes_queue_row
RecordMatches(t) == RecordNames(t) /\ record[t].status = "ready"

AuthorizedByRecord(w) ==
  LET t == wf[w].task
  IN /\ row[t].state = "ready" /\ Unleased(row[t])
     /\ RecordMatches(t) /\ record[t].state = "ready"

\* _exact_authority
Authorized(w) ==
  LET t == wf[w].task
  IN /\ exact[w] /\ row[t].state = "ready" /\ Unleased(row[t])
     /\ RecordMatches(t) /\ record[t].state = "ready"

\* Revalidation reads the row and the record.
Observe(w, t) ==
  /\ At(w, "idle")
  /\ wf' = [wf EXCEPT ![w] = [pc |-> "observed", task |-> t, seen |-> record[t],
                              head |-> NULL]]
  /\ exact' = [exact EXCEPT ![w] = TRUE]
  /\ UNCHANGED <<store, sj, replay>>

\* _apply_recovery: an absent, expired or cancelled row becomes ready again.
RecoverRow(w) ==
  LET t == wf[w].task
      r == row[t]
  IN /\ At(w, "observed") /\ exact[w]
     /\ record[t] = wf[w].seen
     /\ record[t].status = "ready" /\ record[t].sub # NULL
     /\ \/ r.state = "absent" /\ Put(t, NewRow(record[t].sub), w)
        \/ r.state = "integrating" /\ r.expired /\ Put(t, Released(r), w)
        \/ r.state = "cancelled" /\ record[t].sub.head = r.sub.head /\ Put(t, Released(r), w)
        \/ r.state \in {"ready", "blocked", "integrated"} /\ UNCHANGED <<row, exact>>
     /\ Proceed(w, "recovering")
     /\ UNCHANGED <<counter, record, made, origin, newest, epic, sj, replay>>

RepairRecordAnyState(w) ==
  LET t == wf[w].task
      r == row[t]
  IN /\ At(w, "recovering") \/ (At(w, "observed") /\ r.state # "ready")
     /\ exact[w] /\ RecordMatches(t)
     /\ record' = [record EXCEPT ![t] = IF @.state = r.state THEN @
                     ELSE [@ EXCEPT !.state = r.state, !.sub = r.sub]]
     /\ EndHandling(w) /\ Forget(w)
     /\ UNCHANGED <<row, counter, made, origin, newest, epic, sj, replay>>

\* _repair_tracker_checkpoint, and the attempts that find their row finished:
\* the record follows the row that it names.
RepairRecord(w) ==
  LET t == wf[w].task
      r == row[t]
  IN /\ At(w, "recovering") \/ (At(w, "observed") /\ r.state # "ready")
     /\ exact[w] /\ RecordMatches(t)
     /\ \/ r.state = "ready" /\ record[t].state \in {"none", "ready"}
        \/ r.state = "blocked" /\ record[t].state \in {"none", "ready", "blocked"}
        \/ r.state = "integrated" /\ record[t].state \in {"none", "ready", "integrated"}
     /\ record' = [record EXCEPT ![t] = IF @.state = r.state THEN @
                     ELSE [@ EXCEPT !.state = r.state, !.sub = r.sub]]
     /\ EndHandling(w) /\ Forget(w)
     /\ UNCHANGED <<row, counter, made, origin, newest, epic, sj, replay>>

\* consume_retry_generation, unless the action resumes a rebase; only a row
\* whose retry was forced is written.
ConsumeRetry(w, forced) ==
  LET t == wf[w].task
      r == row[t]
  IN /\ At(w, "observed") /\ exact[w]
     /\ r.state = "ready" /\ Unleased(r)
     /\ IF forced /\ ~Pending(r) THEN Put(t, r, w) ELSE UNCHANGED <<row, exact>>
     /\ Proceed(w, "running")
     /\ UNCHANGED <<counter, record, made, origin, newest, epic, sj, replay>>

\* An earlier invocation landed the head of the record and stopped.
RecoverLanding(w) ==
  LET t == wf[w].task
  IN /\ At(w, "running") /\ exact[w] /\ ~Pending(row[t])
     /\ record[t].sub # NULL /\ record[t].sub.head \in epic[t]
     /\ Hold(w, "landed", record[t].sub.head)
     /\ UNCHANGED <<store, exact, sj, replay>>

PrepareRebase(w) ==
  LET t == wf[w].task
      r == row[t]
  IN /\ At(w, "running") /\ Authorized(w) /\ ~r.publishing
     /\ IF r.intent THEN UNCHANGED <<row, exact>>
                    ELSE Put(t, [r EXCEPT !.sub.moved = TRUE, !.pred = r.sub.head,
                                          !.intent = TRUE], w)
     /\ Proceed(w, "rebasing")
     /\ UNCHANGED <<counter, record, made, origin, newest, epic, sj, replay>>

\* The rebase failed and Git was rolled back.  A conflict goes on to block the
\* row if the action is still authorized.
AbortRebase(w) ==
  LET t == wf[w].task
      r == row[t]
      goesOn == RecordMatches(t) /\ record[t].state = "ready"
  IN /\ At(w, "rebasing") /\ exact[w]
     /\ r.state = "ready" /\ r.intent
     /\ Put(t, [r EXCEPT !.intent = FALSE, !.pred = NULL], IF goesOn THEN w ELSE NULL)
     /\ IF goesOn THEN Proceed(w, "refused") ELSE EndHandling(w)
     /\ UNCHANGED <<counter, record, made, origin, newest, epic, sj, replay>>

\* The queue, then the record, name the rebased head before it is pushed.  The
\* status of the task is looked at only afterwards.
PreparePublication(w, written) ==
  LET t == wf[w].task
      r == row[t]
      p == [head |-> made[t] + 1, moved |-> TRUE]
  IN /\ At(w, "rebasing") /\ exact[w]
     /\ r.state = "ready" /\ Unleased(r) /\ ~r.publishing
     /\ RecordNames(t) /\ record[t].state = "ready"
     /\ Room(t)
     /\ Make(t, origin[t][r.sub.head])
     /\ Put(t, [r EXCEPT !.sub = p, !.intent = FALSE, !.publishing = TRUE,
                         !.pred = IF r.pred # NULL THEN r.pred ELSE r.sub.head],
            IF written THEN w ELSE NULL)
     /\ record' = [record EXCEPT ![t].sub = IF written THEN p ELSE @]
     /\ IF written THEN Proceed(w, "publishing") ELSE EndHandling(w)
     /\ UNCHANGED <<counter, newest, epic, sj, replay>>

ResumePublicationAnyHead(w) ==
  LET t == wf[w].task
  IN /\ At(w, "running") /\ exact[w] /\ row[t].publishing
     /\ record[t].sub # NULL /\ record[t].state = "ready"
     /\ record' = [record EXCEPT ![t].sub = row[t].sub]
     /\ Proceed(w, "publishing")
     /\ UNCHANGED <<row, counter, made, origin, newest, epic, exact, sj, replay>>

\* An action that resumes finds the publication prepared, and completes the
\* record of the invocation that stopped before it wrote it.
ResumePublication(w) ==
  LET t == wf[w].task
  IN /\ At(w, "running") /\ exact[w] /\ row[t].publishing
     /\ record[t].sub # NULL /\ record[t].state = "ready"
     /\ record[t].sub.head \in {row[t].sub.head, row[t].pred}
     /\ record' = [record EXCEPT ![t].sub = row[t].sub]
     /\ Proceed(w, "publishing")
     /\ UNCHANGED <<row, counter, made, origin, newest, epic, exact, sj, replay>>

\* The rebased head is pushed to the task branch.
PublishHead(w) ==
  /\ At(w, "publishing") /\ Authorized(w)
  /\ Proceed(w, "published")
  /\ UNCHANGED <<store, exact, sj, replay>>

CompletePublication(w) ==
  LET t == wf[w].task
      r == row[t]
  IN /\ At(w, "published") /\ exact[w]
     /\ RecordNames(t) /\ record[t].state = "ready"
     /\ r.state = "ready" /\ Unleased(r)
     /\ r.publishing /\ ~r.intent /\ r.pred # NULL
     /\ Put(t, [r EXCEPT !.publishing = FALSE], w)
     /\ Proceed(w, "running")
     /\ UNCHANGED <<counter, record, made, origin, newest, epic, sj, replay>>

\* The combined tree is tested.
RunGate(w, pass) ==
  /\ At(w, "running") /\ Authorized(w) /\ ~Pending(row[wf[w].task])
  /\ Proceed(w, IF pass THEN "gated" ELSE "refused")
  /\ UNCHANGED <<store, exact, sj, replay>>

\* The last check comes before the push, and is not atomic with it.
AuthorizePush(w) ==
  /\ At(w, "gated") /\ Authorized(w)
  /\ Hold(w, "pushing", row[wf[w].task].sub.head)
  /\ UNCHANGED <<store, exact, sj, replay>>

LandHead(w) ==
  /\ At(w, "pushing")
  /\ epic' = [epic EXCEPT ![wf[w].task] = @ \cup {wf[w].head}]
  /\ Proceed(w, "landed")
  /\ UNCHANGED <<row, counter, record, made, origin, newest, exact, sj, replay>>

\* finish_task_generation and the record, under the lock; the process may stop
\* before it writes the record.
FinishLanded(w, written) ==
  LET t == wf[w].task
      r == row[t]
  IN /\ At(w, "landed") /\ Authorized(w) /\ ~Pending(r)
     /\ Room(t) /\ counter < MaxSeq
     /\ counter' = NextSequence
     /\ Put(t, [r EXCEPT !.state = "integrated", !.attempts = Counted(@),
                         !.seq = NextSequence], NULL)
     /\ record' = [record EXCEPT ![t] = IF written
                     THEN [@ EXCEPT !.state = "integrated", !.sub = r.sub] ELSE @]
     /\ EndHandling(w)
     /\ UNCHANGED <<made, origin, newest, epic, sj, replay>>

FinishBlocked(w, written) ==
  LET t == wf[w].task
      r == row[t]
  IN /\ At(w, "refused") /\ Authorized(w) /\ ~Pending(r)
     /\ Put(t, [r EXCEPT !.state = "blocked", !.attempts = Counted(@), !.seq = 0], NULL)
     /\ record' = [record EXCEPT ![t] = IF written
                     THEN [@ EXCEPT !.state = "blocked", !.sub = r.sub] ELSE @]
     /\ EndHandling(w)
     /\ UNCHANGED <<counter, made, origin, newest, epic, sj, replay>>

\* _prepare_terminal_checkpoint: the record is integrated and its head has
\* landed; a row that says something else is normalized first.
PrepareTerminal(w) ==
  LET t == wf[w].task
      r == row[t]
      p == record[t].sub
  IN /\ At(w, "observed") /\ exact[w]
     /\ record[t].state = "integrated"
     /\ r.state \in {"ready", "integrated"} /\ Unleased(r)
     /\ IF r.state = "integrated" /\ r.sub.head = p.head
          THEN UNCHANGED <<row, counter, exact>>
          ELSE /\ p.head \in epic[t] /\ ~Pending(r)
               /\ Room(t) /\ counter < MaxSeq
               /\ counter' = NextSequence
               /\ Put(t, Integrated(r, p, NextSequence), w)
     /\ Proceed(w, "normalized")
     /\ UNCHANGED <<record, made, origin, newest, epic, sj, replay>>

\* _apply_terminal
StageTerminal(w, accepted) ==
  LET t == wf[w].task
  IN /\ At(w, "normalized") /\ exact[w]
     /\ record' = [record EXCEPT ![t] = Staged(@, row[t], accepted)]
     /\ EndHandling(w) /\ Forget(w)
     /\ UNCHANGED <<row, counter, made, origin, newest, epic, sj, replay>>

\* The parent has landed: the record is rewritten as a standalone submission and
\* the row is retired (retire_task_generation), under the issue lock.
RetireGeneration(w) ==
  LET t == wf[w].task
      r == row[t]
  IN /\ At(w, "observed") /\ exact[w]
     /\ r.state = "ready" /\ Unleased(r) /\ ~Pending(r) /\ RecordMatches(t)
     /\ Put(t, Cancelled(r), NULL)
     /\ record' = [record EXCEPT ![t].status = "open"]
     /\ EndHandling(w)
     /\ UNCHANGED <<counter, made, origin, newest, epic, sj, replay>>

\* The action fails or is interrupted; the job is retried later.
AbandonAction(w) ==
  /\ ~At(w, "idle")
  /\ EndHandling(w) /\ Forget(w)
  /\ UNCHANGED <<store, sj, replay>>

-----------------------------------------------------------------------------
(* Replay of landed rows to the terminal audit *)

Landings == {t \in Tasks : row[t].state = "integrated" /\ row[t].seq > cursor}

\* items(states = integrated, after = cursor), and the rows it returns.
ReadLandings ==
  /\ batch = {} /\ Landings # {}
  /\ batch' = {[task |-> t, row |-> row[t]] : t \in Landings}
  /\ UNCHANGED <<store, wf, exact, sj, cursor, audited>>

Oldest(b) == \A c \in batch : b.row.seq <= c.row.seq

\* Rows are staged in the order of their sequences; the cursor is saved after
\* each.  A row that was not staged ends the batch.
StageRow(b, accepted) ==
  LET t == b.task
      done == /\ row[t] = b.row
              /\ Staging(record[t]) \/ (Stageable(record[t], row[t]) /\ accepted)
  IN /\ Oldest(b)
     /\ record' = [record EXCEPT ![t] = IF row[t] = b.row
                                          THEN Staged(@, row[t], accepted) ELSE @]
     /\ IF done THEN /\ audited' = audited \cup {[task |-> t, seq |-> row[t].seq,
                                                  sub |-> row[t].sub]}
                     /\ cursor' = row[t].seq
                     /\ batch' = batch \ {b}
                ELSE batch' = {} /\ UNCHANGED <<cursor, audited>>
     /\ UNCHANGED <<row, counter, made, origin, newest, epic, wf, exact, sj>>

StageLanding(accepted) == \E b \in batch : StageRow(b, accepted)

-----------------------------------------------------------------------------
Tracker(t) ==
  \/ SubmitNew(t) \/ SubmitAgain(t) \/ LeaseExpires(t)
  \/ \E status \in {"open", "terminal"} : MoveTask(t, status)
  \/ \E s \in Submitters : ReadSubmission(s, t)

Deliver(w) ==
  \/ RecoverRow(w) \/ RepairRecord(w) \/ RecoverLanding(w) \/ PrepareRebase(w)
  \/ AbortRebase(w) \/ ResumePublication(w) \/ PublishHead(w) \/ CompletePublication(w)
  \/ AuthorizePush(w) \/ LandHead(w) \/ PrepareTerminal(w) \/ RetireGeneration(w)
  \/ AbandonAction(w)
  \/ \E b \in BOOLEAN : ConsumeRetry(w, b) \/ PreparePublication(w, b) \/ RunGate(w, b)
                          \/ FinishLanded(w, b) \/ FinishBlocked(w, b) \/ StageTerminal(w, b)

Next ==
  \/ \E t \in Tasks : Tracker(t) \/ \E w \in Handlers : Observe(w, t)
  \/ \E s \in Submitters : QueueSubmission(s) \/ FinishSubmission(s)
  \/ \E w \in Handlers : Deliver(w)
  \/ Restart \/ ReadLandings \/ \E b \in BOOLEAN : StageLanding(b)

Spec == Init /\ [][Next]_vars

-----------------------------------------------------------------------------
(* Properties *)

\* Type correctness of the rows, the records, the jobs and the replay.
HandlersTypeOK ==
  /\ StoreTypeOK
  /\ wf \in [Handlers -> Handling]
  /\ exact \in [Handlers -> BOOLEAN]
  /\ sj \in [Submitters -> Submissions]
  /\ cursor \in 0..MaxSeq
  /\ batch \subseteq [task : Tasks, row : Rows]
  /\ audited \subseteq [task : Tasks, seq : 0..MaxSeq, sub : Nullable(Pairs)]

\* The audit replay misses no landing: an integrated row that the cursor has
\* passed was consumed with exactly the pair that it has now, although the row
\* is replaced and lands again under a new sequence while a batch holds the old
\* one (_replay_project_integrated_audit_batch_owned).
CursorMissesNothing ==
  \A t \in Tasks :
    row[t].state = "integrated" /\ row[t].seq <= cursor
      => [task |-> t, seq |-> row[t].seq, sub |-> row[t].sub] \in audited

\* The handlers keep the promise of the queue: whatever a stale action, a crash
\* inside a rebase, a resubmission or the replay does, the steps they take are
\* landing, delivering what landed, noting what is delivered, auditing what is
\* delivered and noted, or taking it back.
HandlersDeliver == D!Spec
=============================================================================
