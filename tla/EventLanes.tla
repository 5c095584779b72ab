----------------------------- MODULE EventLanes -----------------------------
(***************************************************************************)
(* The event lanes of one task: oompah/workflow_jobs.py (materialize_event *)
(* and retire_event_lane) as oompah/implementation_workflow.py calls them. *)
(*                                                                         *)
(* A scan derives one decision from the task's facts and reconciles it     *)
(* into the fact lane.  A caller of schedule_event puts an event into the  *)
(* imperative lane, which is stronger.  Both take a generation first and   *)
(* write later, so that others write in between; one ordering row fences   *)
(* them.  A lane's cursor names its last event and the row made for it.    *)
(* Workers run the rows as WorkflowJobs says.                              *)
(***************************************************************************)
EXTENDS Integers

CONSTANTS
  Scans,       \* reconcile passes that may be under way at once
  Calls,       \* callers of schedule_event
  Events,      \* event revisions
  Decisions,   \* decision revisions
  Event,       \* [Decisions -> Events or NULL]: the action a decision needs
  MaxGen,      \* bound of the generations handed out
  MaxSeq,      \* bound of workflow_event_sequence
  NULL         \* SQL NULL

Lanes == {"fact", "imperative"}

Nullable(S) == S \cup {NULL}

Seqs == 1..MaxSeq
Gens == 1..MaxGen

\* "detached" stands for running without a deadline, behind a call that was
\* abandoned; "over" for completed, exhausted, superseded and cancelled.
LiveStates == {"queued", "running", "detached", "retry_wait"}

\* quarantined: the phase says so, which outlives a restart.  verified: the
\* checkpoint holds a verification.  claimed, detached: the row ever was
\* claimed, ever lost a call that went on running.
Row == [lane : Lanes, event : Events, state : LiveStates \cup {"over"},
        quarantined : BOOLEAN, verified : BOOLEAN,
        claimed : BOOLEAN, detached : BOOLEAN]

Cursor == [event : Events, seq : Seqs]

Ordering == [gen : Gens, rev : Events \cup Decisions]

\* A call holds its generation until it returns, and then its row.
CallRecord == [event : Events, gen : Nullable(Gens), job : Nullable(Seqs)]

ASSUME LanesAssumption ==
  /\ Event \in [Decisions -> Nullable(Events)]
  /\ Events \cap Decisions = {}
  /\ MaxGen \in Nat /\ MaxSeq \in Nat
  /\ NULL \notin Events \cup Seqs \cup Gens
  /\ NULL \notin Row \cup Cursor \cup Ordering \cup CallRecord

VARIABLES
  jobs,       \* rows of the two lanes, by the sequence number of their key
  cursor,     \* workflow_event_cursors: [Lanes -> event and sequence number]
  order,      \* workflow_event_ordering of the task
  meta,       \* the two generation counters of schema_meta
  seq,        \* workflow_event_sequence
  scans,      \* generation of each pass between its allocation and its write
  calls,      \* the last call of each caller
  since       \* history: rows that were live at some time of the caller's call

vars == <<jobs, cursor, order, meta, seq, scans, calls, since>>
tables == <<jobs, cursor, order, seq>>

-----------------------------------------------------------------------------
(***************************************************************************)
(* Rows.                                                                   *)
(***************************************************************************)

NewRow(lane, e) == [lane |-> lane, event |-> e, state |-> "queued",
                    quarantined |-> FALSE, verified |-> FALSE,
                    claimed |-> FALSE, detached |-> FALSE]

\* Of a row that is over only the lane and the event are read again.
Over(r) == [NewRow(r.lane, r.event) EXCEPT !.state = "over"]

Live(i)    == jobs[i] # NULL /\ jobs[i].state \in LiveStates
LiveRows   == {i \in Seqs : Live(i)}
Running(i) == Live(i) /\ jobs[i].state \in {"running", "detached"}

\* The rows a newer event leaves alone.
Kept(i) == Running(i) /\ jobs[i].quarantined

-----------------------------------------------------------------------------
(***************************************************************************)
(* Generations.                                                            *)
(***************************************************************************)

Larger(a, b) == IF a > b THEN a ELSE b

\* Faulty variants, here and below: a definition as a plausible slip would
\* have it.  No specification uses them; they show what each property sees.
OwnGeneration(key) == meta[key] + 1

\* _next_ordering_generation_locked: beyond both counters and the ordering.
NextGeneration(key) ==
  Larger(Larger(meta["snapshot"], meta["event"]),
         IF order = NULL THEN 0 ELSE order.gen) + 1

Allocate(key) ==
  /\ NextGeneration(key) <= MaxGen
  /\ meta' = [meta EXCEPT ![key] = NextGeneration(key)]

Stale(g)         == order # NULL /\ g < order.gen
Conflict(g, rev) == order # NULL /\ g = order.gen /\ rev # order.rev
Advances(g)      == order # NULL /\ g > order.gen

-----------------------------------------------------------------------------
(***************************************************************************)
(* Materialising an event.                                                 *)
(***************************************************************************)

ChangedByRevision(lane, e, g) == cursor[lane] = NULL \/ cursor[lane].event # e

\* An equal event gets a row of its own when a newer source asks for it and
\* the row of the last one is not live any more.
Changed(lane, e, g) ==
  \/ cursor[lane] = NULL
  \/ cursor[lane].event # e
  \/ Advances(g) /\ ~Live(cursor[lane].seq)

\* The row that answers the event.
Target(lane, e, g) ==
  IF Changed(lane, e, g) THEN seq + 1 ELSE cursor[lane].seq

DisplacesOwnLane(lane, i) == jobs[i].lane = lane

\* An imperative event also supersedes the fact lane.
Displaces(lane, i) == jobs[i].lane = lane \/ lane = "imperative"

WriteWithOldSequence(lane, e, g) ==
  /\ seq < MaxSeq
  /\ seq' = IF Changed(lane, e, g) THEN seq ELSE seq + 1
  /\ cursor' = [cursor EXCEPT ![lane] = [event |-> e, seq |-> Target(lane, e, g)]]
  /\ jobs' = [jobs EXCEPT ![Target(lane, e, g)] = NewRow(lane, e)]

\* The part of materialize_event after the fences: the cursor, the row, and
\* the live rows it displaces.
Write(lane, e, g) ==
  /\ seq < MaxSeq
  /\ seq' = seq + 1
  /\ cursor' = [cursor EXCEPT ![lane] = [event |-> e, seq |-> Target(lane, e, g)]]
  /\ jobs' = [i \in Seqs |->
       IF Changed(lane, e, g) /\ i = seq + 1 THEN NewRow(lane, e)
       ELSE IF /\ i # Target(lane, e, g)
               /\ Live(i) /\ Displaces(lane, i) /\ ~Kept(i)
         THEN Over(jobs[i])
         ELSE jobs[i]]

Ordered(g, rev) == order' = [gen |-> g, rev |-> rev]

\* A live imperative row, a detached one included, protects the task from
\* decisions.
Protected == \E i \in LiveRows : jobs[i].lane = "imperative"

-----------------------------------------------------------------------------
Init ==
  /\ jobs = [i \in Seqs |-> NULL]
  /\ cursor = [lane \in Lanes |-> NULL]
  /\ order = NULL
  /\ meta = [key \in {"snapshot", "event"} |-> 0]
  /\ seq = 0
  /\ scans = [s \in Scans |-> NULL]
  /\ calls = [c \in Calls |-> NULL]
  /\ since = [c \in Calls |-> {}]

(***************************************************************************)
(* Scans.                                                                  *)
(***************************************************************************)

\* allocate_snapshot_generation, before the facts are collected.
BeginScan(s) ==
  /\ scans[s] = NULL
  /\ Allocate("snapshot")
  /\ scans' = [scans EXCEPT ![s] = NextGeneration("snapshot")]
  /\ UNCHANGED <<tables, calls, since>>

EndScan(s) ==
  /\ scans[s] # NULL
  /\ scans' = [scans EXCEPT ![s] = NULL]
  /\ UNCHANGED <<meta, calls>>

Open(c) == calls[c] # NULL /\ calls[c].gen # NULL

\* The calls under way see the rows that are live now.
Observe ==
  since' = [c \in Calls |-> IF Open(c) THEN since[c] \cup LiveRows' ELSE since[c]]

\* The pass fails, is not published, or dies with its process; or its write
\* is stale, or refused as a conflict.
DropScan(s) ==
  /\ EndScan(s)
  /\ UNCHANGED <<tables, since>>

\* reconcile_evaluated for a decision with an action.
ReconcileAction(s, d) ==
  /\ EndScan(s)
  /\ Event[d] # NULL
  /\ ~Stale(scans[s]) /\ ~Conflict(scans[s], d)
  /\ Ordered(scans[s], d)
  /\ \/ /\ Protected
        /\ UNCHANGED <<jobs, cursor, seq, since>>
     \/ /\ ~Protected
        /\ Write("fact", Event[d], scans[s])
        /\ Observe

RetiredRetries(i) == jobs[i].state = "retry_wait" /\ ~jobs[i].verified

\* retire_event_lane leaves running rows, and retries of a verified effect.
Retired(i) ==
  \/ jobs[i].state = "queued"
  \/ jobs[i].state = "retry_wait" /\ ~jobs[i].verified

ReconcileNoActionStale(s, d) ==
  /\ EndScan(s)
  /\ Event[d] = NULL
  /\ Ordered(scans[s], d)
  /\ jobs' = [i \in Seqs |->
       IF Live(i) /\ jobs[i].lane = "fact" /\ Retired(i)
         THEN Over(jobs[i]) ELSE jobs[i]]
  /\ UNCHANGED <<cursor, seq, since>>

\* reconcile_evaluated for a decision without one.
ReconcileNoAction(s, d) ==
  /\ EndScan(s)
  /\ Event[d] = NULL
  /\ ~Stale(scans[s]) /\ ~Conflict(scans[s], d)
  /\ Ordered(scans[s], d)
  /\ jobs' = [i \in Seqs |->
       IF Live(i) /\ jobs[i].lane = "fact" /\ Retired(i)
         THEN Over(jobs[i]) ELSE jobs[i]]
  /\ UNCHANGED <<cursor, seq, since>>

(***************************************************************************)
(* Imperative events.                                                      *)
(***************************************************************************)

\* schedule_event takes its generation in a transaction of its own.
BeginCall(c, e) ==
  /\ ~Open(c)
  /\ Allocate("event")
  /\ calls' = [calls EXCEPT ![c] = [event |-> e, gen |-> NextGeneration("event"),
                                    job |-> NULL]]
  /\ since' = [since EXCEPT ![c] = LiveRows]
  /\ UNCHANGED <<tables, scans>>

EndCall(c) ==
  /\ Open(c)
  /\ UNCHANGED <<meta, scans>>

Answer(c, job) == calls' = [calls EXCEPT ![c].gen = NULL, ![c].job = job]

\* The caller dies before it writes, or its write raises: it is overtaken by
\* another revision, or in conflict.  Nothing of the event is left.
DropCall(c) ==
  /\ EndCall(c)
  /\ calls' = [calls EXCEPT ![c] = NULL]
  /\ since' = [since EXCEPT ![c] = {}]
  /\ UNCHANGED tables

MaterializeEvent(c) ==
  /\ EndCall(c)
  /\ ~Stale(calls[c].gen) /\ ~Conflict(calls[c].gen, calls[c].event)
  /\ Answer(c, Target("imperative", calls[c].event, calls[c].gen))
  /\ Ordered(calls[c].gen, calls[c].event)
  /\ Write("imperative", calls[c].event, calls[c].gen)
  /\ Observe

\* A call overtaken by an equal event is answered with that event's row.
EqualOvertook(c) ==
  /\ Stale(calls[c].gen)
  /\ order.rev = calls[c].event
  /\ cursor["imperative"] # NULL
  /\ cursor["imperative"].event = calls[c].event

OvertakenEvent(c) ==
  /\ EndCall(c)
  /\ EqualOvertook(c)
  /\ Answer(c, cursor["imperative"].seq)
  /\ UNCHANGED <<tables, since>>

(***************************************************************************)
(* Workers and restarts.                                                   *)
(***************************************************************************)

\* Only the row changes.
Put(i, r) ==
  /\ jobs' = [jobs EXCEPT ![i] = r]
  /\ UNCHANGED <<cursor, order, meta, seq, scans, calls, since>>

In(i, state) == Live(i) /\ jobs[i].state = state

\* claim_next: one row of a task runs at a time.
Claim(i) ==
  /\ In(i, "queued") \/ In(i, "retry_wait")
  /\ \A k \in Seqs : ~Running(k)
  /\ Put(i, [jobs[i] EXCEPT !.state = "running", !.claimed = TRUE])

\* checkpoint: any of them ends the phase "quarantined".
Checkpoint(i, verified) ==
  /\ In(i, "running")
  /\ Put(i, [jobs[i] EXCEPT !.quarantined = FALSE, !.verified = @ \/ verified])

\* A charged failure, a deferral, or the recovery of an expired lease.
GiveBack(i, state) ==
  /\ In(i, "running")
  /\ Put(i, [jobs[i] EXCEPT !.state = state])

\* quarantine_owned: a call of the worker timed out and goes on.
Detach(i) ==
  /\ In(i, "running")
  /\ Put(i, [jobs[i] EXCEPT !.state = "detached", !.quarantined = TRUE,
                            !.detached = TRUE])

\* settle_quarantined_call: the call returned, or failed.
Settle(i, state) ==
  /\ In(i, "detached")
  /\ Put(i, [jobs[i] EXCEPT !.state = state, !.quarantined = FALSE])

\* recover_abandoned: the process died with the call; the phase stays.
Abandon(i) ==
  /\ In(i, "detached")
  /\ Put(i, [jobs[i] EXCEPT !.state = "queued"])

\* complete; or the last attempt fails or is recovered; or an invocation
\* that found its evidence stale supersedes the row, whoever holds it now.
End(i) ==
  /\ Live(i) /\ jobs[i].claimed
  /\ Put(i, Over(jobs[i]))

-----------------------------------------------------------------------------
Scan(s) ==
  \/ BeginScan(s) \/ DropScan(s)
  \/ \E d \in Decisions : ReconcileAction(s, d) \/ ReconcileNoAction(s, d)

Call(c) ==
  \/ \E e \in Events : BeginCall(c, e)
  \/ DropCall(c) \/ MaterializeEvent(c) \/ OvertakenEvent(c)

Worker(i) ==
  \/ Claim(i) \/ Detach(i) \/ Abandon(i) \/ End(i)
  \/ \E verified \in BOOLEAN : Checkpoint(i, verified)
  \/ \E state \in {"queued", "retry_wait"} : GiveBack(i, state) \/ Settle(i, state)

Next ==
  \/ \E s \in Scans : Scan(s)
  \/ \E c \in Calls : Call(c)
  \/ \E i \in Seqs : Worker(i)

Spec == Init /\ [][Next]_vars

-----------------------------------------------------------------------------
(***************************************************************************)
(* Properties.                                                             *)
(***************************************************************************)

\* The values of the tables and of the calls: a call has a generation or an
\* answer, and no row is made under a number that the counter has not reached.
EventLanesTypeOK ==
  /\ jobs \in [Seqs -> Nullable(Row)]
  /\ cursor \in [Lanes -> Nullable(Cursor)]
  /\ order \in Nullable(Ordering)
  /\ meta \in [{"snapshot", "event"} -> 0..MaxGen]
  /\ seq \in 0..MaxSeq
  /\ scans \in [Scans -> Nullable(Gens)]
  /\ calls \in [Calls -> Nullable(CallRecord)]
  /\ since \in [Calls -> SUBSET Seqs]
  /\ \A c \in Calls : calls[c] # NULL => (Open(c) <=> calls[c].job = NULL)
  /\ \A i \in Seqs : i > seq => jobs[i] = NULL

\* Generations under way.
Pending == {scans[s] : s \in Scans} \cup
           {calls[c].gen : c \in {x \in Calls : Open(x)}}

\* The store never meets two decisions under one generation (the error "one
\* event snapshot produced conflicting decisions"), although two counters
\* hand them out and callers write in any order.
NoConflictingSnapshot == order = NULL \/ order.gen \notin Pending

Attached == {i \in LiveRows : ~jobs[i].detached}

\* Of the rows without a lost call, at most one is live, whatever lane it is
\* in, and it is the one its lane's cursor names: an older disposition never
\* runs beside a newer one, and no scan schedules past an imperative event.
OneLiveDisposition ==
  \A i \in Attached :
    /\ cursor[jobs[i].lane] = [event |-> jobs[i].event, seq |-> i]
    /\ \A k \in Attached : k = i

\* A fact row that no worker has touched is what the newest decision asks
\* for: overtaken scans leave none behind, and none survives a decision
\* without an action or an imperative event.
UnclaimedIsCurrent ==
  \A i \in LiveRows :
    jobs[i].lane = "fact" /\ ~jobs[i].claimed =>
      /\ order # NULL /\ order.rev \in Decisions
      /\ Event[order.rev] = jobs[i].event

\* The row a caller of schedule_event gets back is of its event and was live
\* at some time of its call: an equal event that ended before is never taken
\* for the answer, whatever was written between allocation and write.
AnsweredEventsRan ==
  \A c \in Calls : calls[c] # NULL /\ calls[c].job # NULL =>
    /\ calls[c].job \in since[c]
    /\ jobs[calls[c].job].lane = "imperative"
    /\ jobs[calls[c].job].event = calls[c].event

\* A live row ends by its own worker, or by a write newer than the ordering:
\* a pass or a call that was overtaken while it collected its facts displaces
\* nothing.  An imperative row ends only by its worker or a newer event, never
\* by what a scan decides (materialize_event, retire_event_lane).
DisplacedByNewer ==
  [][\A i \in LiveRows \ LiveRows' :
       \/ jobs[i].claimed /\ UNCHANGED order
       \/ /\ Advances(order'.gen)
          /\ jobs[i].lane = "imperative" => order'.rev \in Events]_vars
=============================================================================
