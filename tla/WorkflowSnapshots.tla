------------------------- MODULE WorkflowSnapshots -------------------------
(***************************************************************************)
(* Snapshot authority of the job ledger (workflow_jobs.py) and the passes  *)
(* that move it (workflow_runtime.py, workflow_controller.py).             *)
(*                                                                         *)
(* A pass allocates a generation, captures what is in force, accepts the   *)
(* generation, stages membership, cursors and jobs in transactions of      *)
(* their own, and publishes or puts the captured rows back.  Workers claim *)
(* and finish jobs all the while.                                          *)
(*                                                                         *)
(* One project; a decision asks for at most one job.  The passes' process  *)
(* locks are left out: only the ledger's fence holds between processes.    *)
(***************************************************************************)
EXTENDS Integers, FiniteSets

CONSTANTS
    Tasks,        \* task identities of the project
    Decisions,    \* semantic revisions an evaluation may produce
    Acting,       \* the decisions that ask for a job
    Recurring,    \* the decisions that carry a reassessment deadline
    Scans,        \* passes that may be under way together
    Tokens,       \* lease tokens
    MaxGen,       \* bound on allocated generations
    MaxAttempts,
    NULL

ASSUME SnapshotAssumption ==
    /\ Acting \subseteq Decisions
    /\ Recurring \subseteq Decisions
    /\ MaxGen \in Nat \ {0}
    /\ MaxAttempts \in Nat \ {0}
    /\ NULL \notin Tokens
    /\ NULL \notin Decisions \X (1 .. MaxGen)

VARIABLES
    allocated, accepted, published,   \* the three generation markers
    member,   \* task -> generation of its membership row, 0 for none
    cursor,   \* task -> schedule cursor
    job,      \* task -> job generation -> managed row
    scan,     \* pass -> where it stands and what it captured
    calls     \* invocations under way: <<task, job generation, token>>

vars == <<allocated, accepted, published, member, cursor, job, scan, calls>>
markers == <<allocated, accepted, published>>
authority == <<member, cursor>>

-----------------------------------------------------------------------------

\* A job generation is the decision and the snapshot that activated it.
JobGens == Decisions \X (1 .. MaxGen)

\* retry_wait is "queued": when a retry falls due is left open.
JobStates == {"absent", "queued", "running", "completed", "exhausted",
              "superseded"}
Row == [state : JobStates, quarantined : BOOLEAN, attempts : 0 .. MaxAttempts,
        token : Tokens \cup {NULL}]
NoRow == [state |-> "absent", quarantined |-> FALSE, attempts |-> 0,
          token |-> NULL]

\* The decision of a cursor is the first half of its job generation;
\* "materialized" stands for materialized_job_generation = job_generation.
Cursor == [snapshot : 0 .. MaxGen, generation : JobGens \cup {NULL},
           materialized : BOOLEAN]
NoCursor == [snapshot |-> 0, generation |-> NULL, materialized |-> FALSE]

View == [member : [Tasks -> 0 .. MaxGen], cursor : [Tasks -> Cursor],
         job : [Tasks -> [JobGens -> Row]]]

Phases == {"idle", "scanning", "captured", "accepted", "staging", "failed",
           "failing"}
Plan == UNION {[window -> Decisions] : window \in SUBSET Tasks}
Scan == [pc : Phases, gen : 0 .. MaxGen, plan : Plan, view : View \cup {NULL},
         rearmed : SUBSET (Tasks \X JobGens)]
NoPlan == [t \in {} |-> NULL]
Idle == [pc |-> "idle", gen |-> 0, plan |-> NoPlan, view |-> NULL,
         rearmed |-> {}]

\* The newest allocation, accepted: what every staged write requires.
Current(g) == allocated = g /\ accepted = g

Quarantined(r) == r.state = "running" /\ r.quarantined
Leased(r)      == r.state = "running" /\ ~r.quarantined
Active(r)      == r.state \in {"queued", "running"}

Superseded(r) == [r EXCEPT !.state = "superseded", !.token = NULL]

\* What a replacement does to a row: a detached call keeps its row.
Retired(r) == IF Active(r) /\ ~Quarantined(r) THEN Superseded(r) ELSE r

Requeued(r) ==
    [r EXCEPT !.state = IF r.attempts < MaxAttempts THEN "queued"
                                                    ELSE "exhausted",
              !.quarantined = FALSE, !.token = NULL]

Move(s, phase) == scan' = [scan EXCEPT ![s].pc = phase]
End(s)         == scan' = [scan EXCEPT ![s] = Idle]
SetJob(t, j, r) == job' = [job EXCEPT ![t][j] = r]

\* The pass still holds what it captured.
Holding(s) == scan[s].pc \in {"captured", "accepted", "staging"}

-----------------------------------------------------------------------------
(* A reconciliation pass.                                                  *)

Allocate(s) ==
    /\ scan[s].pc = "idle" /\ allocated < MaxGen
    /\ allocated' = allocated + 1
    /\ scan' = [scan EXCEPT ![s] = [Idle EXCEPT !.pc = "scanning",
                                               !.gen = allocated + 1]]
    /\ UNCHANGED <<accepted, published, authority, job, calls>>

Capture(s) ==
    /\ scan[s].pc = "scanning"
    /\ scan' = [scan EXCEPT ![s].pc = "captured",
           ![s].view = [member |-> member, cursor |-> cursor, job |-> job],
           ![s].rearmed = {}]
    /\ UNCHANGED <<markers, authority, job, calls>>

Acceptable(g) == g = allocated /\ accepted < g

Accept(s) ==
    /\ scan[s].pc = "captured" /\ Acceptable(scan[s].gen)
    /\ accepted' = scan[s].gen
    /\ Move(s, "accepted")
    /\ UNCHANGED <<allocated, published, authority, job, calls>>

\* Every task of the tracker is expected; those outside the bounded window are
\* not evaluated and keep the generation of their row.
ReconcileMembership(s) ==
    /\ scan[s].pc = "accepted" /\ Current(scan[s].gen)
    /\ \E expected \in SUBSET Tasks : \E evaluated \in SUBSET expected :
       \E plan \in [evaluated -> Decisions] :
        /\ member' = [t \in Tasks |->
               IF t \notin expected THEN 0
               ELSE IF t \in evaluated \/ member[t] = 0 THEN scan[s].gen
               ELSE member[t]]
        /\ cursor' = [t \in Tasks |->
               IF t \in expected THEN cursor[t] ELSE NoCursor]
        /\ job' = [t \in Tasks |->
               IF t \in expected THEN job[t]
               ELSE [j \in JobGens |-> Retired(job[t][j])]]
        /\ scan' = [scan EXCEPT ![s].pc = "staging", ![s].plan = plan]
    /\ UNCHANGED <<markers, calls>>

\* An unchanged decision keeps its job generation, unless its deadline asks
\* for another run of what has ended.
Rotates(t, d, due) ==
    \/ cursor[t].generation = NULL
    \/ cursor[t].generation[1] # d
    \/ /\ d \in Recurring
       /\ LET r == job[t][cursor[t].generation]
          IN  r.state = "superseded" \/ (r.state = "completed" /\ due)

Activated(t, d, g, due) ==
    IF Rotates(t, d, due) THEN <<d, g>> ELSE cursor[t].generation

\* The rows of a task once job generation j of decision d is materialised.
\* (Faulty variants, here and below, are what a plausible slip would make of
\* the definition that follows; no behaviour uses them.)
ScheduledBeside(t, d, j) ==
    [i \in JobGens |->
        IF i = j /\ d \in Acting /\ job[t][i].state = "absent"
        THEN [NoRow EXCEPT !.state = "queued"] ELSE job[t][i]]

Scheduled(t, d, j) ==
    [i \in JobGens |->
        IF i = j /\ d \in Acting
        THEN IF job[t][i].state = "absent"
             THEN [NoRow EXCEPT !.state = "queued"] ELSE job[t][i]
        ELSE Retired(job[t][i])]

ScheduleCarrying(s, t) ==
    /\ scan[s].pc = "staging" /\ t \in DOMAIN scan[s].plan
    /\ Current(scan[s].gen)
    /\ \E due, selected \in BOOLEAN :
        LET d == scan[s].plan[t]
            j == Activated(t, d, scan[s].gen, due)
        IN  /\ cursor' = [cursor EXCEPT ![t] =
                  [snapshot |-> scan[s].gen, generation |-> j,
                   materialized |-> selected \/ cursor[t].materialized]]
            /\ job' = IF selected
                      THEN [job EXCEPT ![t] = Scheduled(t, d, j)] ELSE job
    /\ scan' = [scan EXCEPT ![s].plan =
           [u \in DOMAIN scan[s].plan \ {t} |-> scan[s].plan[u]]]
    /\ UNCHANGED <<markers, member, calls>>

\* activate_schedule and reconcile_schedule in the domain's transaction; the
\* window of materialised jobs is bounded, that of activated cursors is not.
Schedule(s, t) ==
    /\ scan[s].pc = "staging" /\ t \in DOMAIN scan[s].plan
    /\ Current(scan[s].gen)
    /\ \E due, selected \in BOOLEAN :
        LET d == scan[s].plan[t]
            j == Activated(t, d, scan[s].gen, due)
        IN  /\ cursor' = [cursor EXCEPT ![t] =
                  [snapshot |-> scan[s].gen, generation |-> j,
                   materialized |-> selected \/
                       (cursor[t].generation = j /\ cursor[t].materialized)]]
            /\ job' = IF selected
                      THEN [job EXCEPT ![t] = Scheduled(t, d, j)] ELSE job
    /\ scan' = [scan EXCEPT ![s].plan =
           [u \in DOMAIN scan[s].plan \ {t} |-> scan[s].plan[u]]]
    /\ UNCHANGED <<markers, member, calls>>

Publish(s) ==
    /\ scan[s].pc = "staging" /\ DOMAIN scan[s].plan = {}
    /\ Current(scan[s].gen) /\ published < scan[s].gen
    /\ published' = scan[s].gen
    /\ End(s)
    /\ UNCHANGED <<allocated, accepted, authority, job, calls>>

\* restore_snapshot_authority, row by row.
RestoredOverDetached(s, t, j) ==
    LET r == job[t][j]
        v == scan[s].view.job[t][j]
    IN  IF <<t, j>> \in scan[s].rearmed THEN r
        ELSE IF v.state # "absent" THEN v
        ELSE IF Active(r) THEN Superseded(r)
        ELSE r

RestoredOverRearmed(s, t, j) ==
    LET r == job[t][j]
        v == scan[s].view.job[t][j]
    IN  IF Quarantined(r) THEN r
        ELSE IF v.state # "absent" THEN v
        ELSE IF Active(r) THEN Superseded(r)
        ELSE r

Restored(s, t, j) ==
    LET r == job[t][j]
        v == scan[s].view.job[t][j]
    IN  IF Quarantined(r) \/ <<t, j>> \in scan[s].rearmed THEN r
        ELSE IF v.state # "absent" THEN v
        ELSE IF Active(r) THEN Superseded(r)
        ELSE r

\* A pass that could not publish ends, or reports the failure of its scan
\* under the same generation.
AfterFailureUnnamed(s) ==
    End(s) \/ scan' = [scan EXCEPT ![s] = [Idle EXCEPT !.pc = "failed"]]

AfterFailure(s) ==
    \/ End(s)
    \/ scan' = [scan EXCEPT ![s] = [Idle EXCEPT !.pc = "failed",
                                               !.gen = scan[s].gen]]

Rollback(s) ==
    /\ scan[s].pc \in {"accepted", "staging"}
    /\ Current(scan[s].gen) /\ published < scan[s].gen
    /\ member' = scan[s].view.member
    /\ cursor' = scan[s].view.cursor
    /\ job' = [t \in Tasks |-> [j \in JobGens |-> Restored(s, t, j)]]
    /\ accepted' = published
    /\ AfterFailure(s)
    /\ UNCHANGED <<allocated, published, calls>>

\* The publisher and its compensator both failed.
FailedRollback(s) ==
    /\ scan[s].pc = "staging" /\ DOMAIN scan[s].plan = {}
    /\ Current(scan[s].gen) /\ published < scan[s].gen
    /\ accepted' = published
    /\ AfterFailure(s)
    /\ UNCHANGED <<allocated, published, authority, job, calls>>

\* A crash, or a step refused because the generation is no longer current:
\* what was staged stays.
Abandon(s) ==
    /\ scan[s].pc # "idle"
    /\ End(s)
    /\ UNCHANGED <<markers, authority, job, calls>>

\* record_liveness_scan_failure: a version of the failure is published with
\* no membership, cursor or job of its own.
AcceptFailure(s) ==
    /\ scan[s].pc \in {"scanning", "failed"}
    /\ Current(scan[s].gen) \/ Acceptable(scan[s].gen)
    /\ accepted' = scan[s].gen
    /\ Move(s, "failing")
    /\ UNCHANGED <<allocated, published, authority, job, calls>>

PublishFailure(s) ==
    /\ scan[s].pc = "failing"
    /\ Current(scan[s].gen) /\ published < scan[s].gen
    /\ published' = scan[s].gen
    /\ End(s)
    /\ UNCHANGED <<allocated, accepted, authority, job, calls>>

-----------------------------------------------------------------------------
(* The workers, as far as a snapshot can meet them; WorkflowJobs has the   *)
(* lease clock, the owners and the restarts.                               *)

\* A token no row, captured row or invocation carries.
Fresh(k) ==
    /\ \A t \in Tasks : \A j \in JobGens : job[t][j].token # k
    /\ \A s \in Scans : Holding(s) =>
           \A t \in Tasks : \A j \in JobGens : scan[s].view.job[t][j].token # k
    /\ \A c \in calls : c[3] # k

\* A marker that was never written compares equal to nothing.
Claimable(t, j) ==
    /\ job[t][j].state = "queued" /\ job[t][j].attempts < MaxAttempts
    /\ member[t] # 0 /\ cursor[t].snapshot = member[t]
    /\ cursor[t].generation = j /\ cursor[t].materialized
    /\ published # 0 /\ accepted = published
    /\ \A i \in JobGens : job[t][i].state # "running"

Claim(t, j, k) ==
    /\ Claimable(t, j) /\ Fresh(k)
    /\ SetJob(t, j, [state |-> "running", quarantined |-> FALSE,
                     attempts |-> job[t][j].attempts + 1, token |-> k])
    /\ calls' = calls \cup {<<t, j, k>>}
    /\ UNCHANGED <<markers, authority, scan>>

Holds(t, j, k) == <<t, j, k>> \in calls /\ job[t][j].token = k
Owns(t, j, k)  == Holds(t, j, k) /\ Leased(job[t][j])

Complete(t, j, k) ==
    /\ Owns(t, j, k)
    /\ SetJob(t, j, [job[t][j] EXCEPT !.state = "completed", !.token = NULL])
    /\ calls' = calls \ {<<t, j, k>>}
    /\ UNCHANGED <<markers, authority, scan>>

\* A failure that is not retryable exhausts the row at once.
Fail(t, j, k) ==
    /\ Owns(t, j, k)
    /\ \/ SetJob(t, j, Requeued(job[t][j]))
       \/ SetJob(t, j, [job[t][j] EXCEPT !.state = "exhausted", !.token = NULL])
    /\ calls' = calls \ {<<t, j, k>>}
    /\ UNCHANGED <<markers, authority, scan>>

\* The invocation finds that it lost its row.
LoseLease(t, j, k) ==
    /\ <<t, j, k>> \in calls
    /\ job[t][j].state # "running" \/ job[t][j].token # k
    /\ calls' = calls \ {<<t, j, k>>}
    /\ UNCHANGED <<markers, authority, job, scan>>

Quarantine(t, j, k) ==
    /\ Owns(t, j, k)
    /\ SetJob(t, j, [job[t][j] EXCEPT !.quarantined = TRUE])
    /\ UNCHANGED <<markers, authority, scan, calls>>

\* The detached call returned: its attempt is resumed, or it failed.
Settle(t, j, k) ==
    /\ Holds(t, j, k) /\ Quarantined(job[t][j])
    /\ LET r == job[t][j]
       IN  \/ SetJob(t, j, [r EXCEPT !.state = "queued", !.quarantined = FALSE,
                 !.token = NULL,
                 !.attempts = IF r.attempts = 0 THEN 0 ELSE r.attempts - 1])
           \/ SetJob(t, j, Requeued(r))
           \/ SetJob(t, j, [r EXCEPT !.state = "exhausted",
                                     !.quarantined = FALSE, !.token = NULL])
    /\ calls' = calls \ {<<t, j, k>>}
    /\ UNCHANGED <<markers, authority, scan>>

RecoverExpired(t, j) ==
    /\ Leased(job[t][j])
    /\ SetJob(t, j, Requeued(job[t][j]))
    /\ UNCHANGED <<markers, authority, scan, calls>>

Supersede(t, j) ==
    /\ Active(job[t][j]) /\ ~Quarantined(job[t][j])
    /\ SetJob(t, j, Superseded(job[t][j]))
    /\ UNCHANGED <<markers, authority, scan, calls>>

\* The rearm event is later than the sequence a pass captured.
Rearm(t, j) ==
    /\ job[t][j].state \in {"completed", "exhausted"}
    /\ SetJob(t, j, [NoRow EXCEPT !.state = "queued"])
    /\ scan' = [s \in Scans |->
           IF Holding(s)
           THEN [scan[s] EXCEPT !.rearmed = @ \cup {<<t, j>>}]
           ELSE scan[s]]
    /\ UNCHANGED <<markers, authority, calls>>

-----------------------------------------------------------------------------

Init ==
    /\ allocated = 0 /\ accepted = 0 /\ published = 0
    /\ member = [t \in Tasks |-> 0]
    /\ cursor = [t \in Tasks |-> NoCursor]
    /\ job = [t \in Tasks |-> [j \in JobGens |-> NoRow]]
    /\ scan = [s \in Scans |-> Idle]
    /\ calls = {}

Pass(s) ==
    \/ Allocate(s) \/ Capture(s) \/ Accept(s) \/ ReconcileMembership(s)
    \/ \E t \in Tasks : Schedule(s, t)
    \/ Publish(s) \/ Rollback(s) \/ FailedRollback(s) \/ Abandon(s)
    \/ AcceptFailure(s) \/ PublishFailure(s)

Worker(t, j, k) ==
    \/ Claim(t, j, k) \/ Complete(t, j, k) \/ Fail(t, j, k)
    \/ LoseLease(t, j, k) \/ Quarantine(t, j, k) \/ Settle(t, j, k)

Maintenance(t, j) == RecoverExpired(t, j) \/ Supersede(t, j) \/ Rearm(t, j)

Next ==
    \/ \E s \in Scans : Pass(s)
    \/ \E t \in Tasks : \E j \in JobGens :
           (\E k \in Tokens : Worker(t, j, k)) \/ Maintenance(t, j)

Spec == Init /\ [][Next]_vars

-----------------------------------------------------------------------------

\* Every marker, row, captured view and pass has its shape.
SnapshotTypeOK ==
    /\ allocated \in 0 .. MaxGen /\ accepted \in 0 .. MaxGen
    /\ published \in 0 .. MaxGen
    /\ member \in [Tasks -> 0 .. MaxGen]
    /\ cursor \in [Tasks -> Cursor]
    /\ job \in [Tasks -> [JobGens -> Row]]
    /\ calls \subseteq Tasks \X JobGens \X Tokens
    /\ scan \in [Scans -> Scan]
    /\ \A s \in Scans : /\ scan[s].pc # "idle" => scan[s].gen # 0
                        /\ Holding(s) => scan[s].view \in View

Permits(c, j) == c.generation # NULL /\ (c.generation = j \/ ~c.materialized)

\* A live lease belongs to the job generation of the task's cursor, or to an
\* older one while the next waits to be materialised: whatever passes stage,
\* abandon or put back, no task runs for a decision that was replaced
\* (reconcile_schedule, reconcile_snapshot_membership,
\* restore_snapshot_authority).
RunningIsAuthorised ==
    \A t \in Tasks : \A j \in JobGens :
        Leased(job[t][j]) => Permits(cursor[t], j)

\* A cursor and the rows it names: it was scheduled by a snapshot that the
\* task's membership has seen, its job generation was activated by that
\* snapshot or an earlier one, and a generation it calls materialised has its
\* job.
Names(c, m, rows) ==
    /\ c.snapshot <= m
    /\ c.generation # NULL =>
          /\ c.generation[2] <= c.snapshot
          /\ c.materialized /\ c.generation[1] \in Acting =>
                rows[c.generation].state # "absent"

\* No cursor is ahead of its membership, or says that work was scheduled that
\* has no job: every later pass would take it for done.  Half staged passes
\* and rollbacks put the tables back one by one (activate_schedule,
\* reconcile_snapshot_membership, restore_snapshot_authority).
CursorBacked == \A t \in Tasks : Names(cursor[t], member[t], job[t])

\* The row of a detached call leaves quarantine only when that call settles:
\* no retirement, replacement or rollback lets a replacement overlap it.
QuarantineHeld ==
    [][\A t \in Tasks : \A j \in JobGens :
          Quarantined(job[t][j]) /\ job'[t][j] # job[t][j]
              => <<t, j, job[t][j].token>> \in calls \ calls']_vars

\* A job ends as completed only by the completion of an invocation that held
\* its lease: putting a captured row back never completes a job that was
\* rearmed since, nor one that never ran.
OnlyWorkersFinish ==
    [][\A t \in Tasks : \A j \in JobGens :
          job[t][j].state # "completed" /\ job'[t][j].state = "completed"
              => <<t, j, job[t][j].token>> \in calls \ calls']_vars

\* "Terminal rows are immutable through the public API": a completed job
\* returns to work only through an explicit rearm.
TerminalRowsImmutable ==
    [][\A t \in Tasks : \A j \in JobGens :
          job[t][j].state = "completed" /\ job'[t][j].state # "completed"
              => Rearm(t, j)]_vars

=============================================================================
