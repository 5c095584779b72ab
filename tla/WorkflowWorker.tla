--------------------------- MODULE WorkflowWorker ---------------------------
(***************************************************************************)
(* The resumable worker of oompah: oompah/workflow_worker.py, over the     *)
(* ledger of WorkflowJobs.                                                 *)
(*                                                                         *)
(* An invocation (_execute_claimed) takes one claimed row through a saga:  *)
(* revalidate, inspect, apply the external effect, verify it, build and    *)
(* execute a task transition, complete.  It persists a checkpoint before   *)
(* and after every external call, so that the next claim resumes.  Calls   *)
(* are bounded: one that does not return in time is detached and the row   *)
(* is quarantined until the call ends or its process dies.                 *)
(*                                                                         *)
(* The state of an invocation is what it does next.  An external call is   *)
(* three steps: it starts, it takes effect, it returns; everything may     *)
(* happen in between.  Raising and the store call of the except clause     *)
(* that catches it are one step, since the raise itself is local.          *)
(***************************************************************************)
EXTENDS WorkflowJobs

CONSTANTS
  Signals,       \* bound: lifecycle signals that may reach a worker
  MaxRevision,   \* bound: revisions of a task in its tracker
  MaxApplied     \* bound: commits of one row's effect that are counted

ASSUME WorkerAssumption ==
  /\ \A j \in Jobs : LaneOf(j) = "runtime"
  /\ Signals \subseteq {"draining", "interrupted"}
  /\ MaxRevision \in Nat
  /\ MaxApplied \in Nat

VARIABLES
  cp,          \* checkpoint_json of each row, the part that resumes a saga
  saga,        \* the invocation behind each ticket
  monitored,   \* quarantined calls whose settlement monitor still runs
  watched,     \* quarantined calls whose recycle timer still runs
  recycle,     \* owners whose process was asked to restart and may do so
  stranded,    \* detached calls whose recycle request or restart failed
  mode,        \* whether the worker of each owner accepts claims
  applied,     \* how often the external effect of the row was committed
  executed,    \* intents of the row that moved the task in the tracker
  reached,     \* rows whose task got the status that their intent requests
  revision,    \* authority version of each task in the tracker
  overlapped   \* rows claimed while an older apply call was in flight

watch     == <<monitored, watched, recycle, stranded>>
world     == <<applied, executed, reached, revision>>
sagaVars  == <<cp, saga, monitored, watched, recycle, stranded, mode, applied,
               executed, reached, revision, overlapped>>
allVars   == <<vars, sagaVars>>

Revisions == 0..MaxRevision

\* effect, verified, intent and moved are the keys "effect", "verification",
\* "transition_intent" and "transition" of the checkpoint; settled is the
\* settlement of its "transition_compensation".
Checkpoints == [effect : BOOLEAN, verified : BOOLEAN, intent : Nullable(Revisions),
                moved : BOOLEAN, settled : {"no", "exhausted", "superseded"}]

NoCheckpoint == [effect |-> FALSE, verified |-> FALSE, intent |-> NULL,
                 moved |-> FALSE, settled |-> "no"]

\* What an invocation does next.  "applied" and "moved" are an apply and a
\* transition call that took effect and did not return yet.
HandlerCalls == {"claimed", "inspect", "apply", "applied", "verify", "build",
                 "undo_failed", "undo_stale", "finalize"}
Calls        == HandlerCalls \cup {"transition", "moved"}
Steps        == Calls \cup {"pending", "failing", "superseding", "ended"}

\* fenced: late-effect authority was withdrawn.  authority: this invocation
\* entered apply (effect_authority_started).
Invocations == [pc : Steps, intent : Nullable(Revisions),
                authority : BOOLEAN, fenced : BOOLEAN]

NewInvocation == [pc |-> "claimed", intent |-> NULL,
                  authority |-> FALSE, fenced |-> FALSE]

-----------------------------------------------------------------------------
At(t, pc) == saga[t].pc = pc

\* The invocation was not told to withdraw, and runs its own code.
Live(t) == ~saga[t].fenced

Interruptible(t) == mode[t.owner] = "interrupted"

\* check_interrupted passes: live lease, no interrupt.
Passes(t) == Live(t) /\ Owns(t) /\ ~Interruptible(t)

Goto(t, pc)      == saga' = [saga EXCEPT ![t].pc = pc]
KeepInvocations  == saga' = [u \in tickets' |-> saga[u]]
SetCheckpoint(t, c) == cp' = [cp EXCEPT ![t.job] = c]

\* _checkpoint: the phases of the worker are all "working" here.
Save(t, c) == Passes(t) /\ Checkpoint(t, "working") /\ SetCheckpoint(t, c)

\* Parts of the state that most steps leave alone.
Quiet == UNCHANGED <<watch, mode, world, overlapped>>

SagaInit ==
  /\ Init
  /\ cp = [j \in Jobs |-> NoCheckpoint]
  /\ saga = [t \in {} |-> NewInvocation]
  /\ monitored = {} /\ watched = {} /\ recycle = {} /\ stranded = {}
  /\ mode = [o \in Owners |-> "accepting"]
  /\ applied = [j \in Jobs |-> 0]
  /\ executed = [j \in Jobs |-> {}]
  /\ reached = {}
  /\ revision = [task \in Tasks |-> 0]
  /\ overlapped = {}

-----------------------------------------------------------------------------
(***************************************************************************)
(* Claim, revalidation and resumption.                                     *)
(***************************************************************************)

\* claim_next of a worker that accepts; execute_claimed starts the saga.
Claim(o, j, tok) ==
  /\ mode[o] = "accepting"
  /\ ClaimNext(o, j, tok)
  /\ saga' = [u \in tickets' |-> IF u \in tickets THEN saga[u] ELSE NewInvocation]
  /\ overlapped' = IF \E u \in tickets : u.job = j /\ At(u, "apply")
                     THEN overlapped \cup {j} ELSE overlapped
  /\ UNCHANGED <<cp, watch, mode, world>>

ResumeFromScratch(c) == "inspect"

\* Where the saved checkpoint lets the saga resume.
Resume(c) ==
  CASE ~c.effect                                    -> "inspect"
    [] c.effect /\ ~c.verified                      -> "verify"
    [] c.effect /\ c.verified /\ c.moved            -> "finalize"
    [] c.effect /\ c.verified /\ ~c.moved /\ c.intent # NULL -> "transition"
    [] OTHER                                        -> "build"

RevalidateAnyway(t) ==
  /\ At(t, "claimed")
  /\ Save(t, cp[t.job])
  /\ saga' = [saga EXCEPT ![t].pc = Resume(cp[t.job]),
                          ![t].intent = cp[t.job].intent]
  /\ Quiet

\* The evidence is current: checkpoint it with what was saved, and resume.
Revalidate(t) ==
  /\ At(t, "claimed")
  /\ cp[t.job].settled = "no"
  /\ Save(t, cp[t.job])
  /\ saga' = [saga EXCEPT ![t].pc = Resume(cp[t.job]),
                          ![t].intent = cp[t.job].intent]
  /\ Quiet

\* The evidence changed within the generation of a job with a deadline.
Reassess(t, deadline) ==
  /\ At(t, "claimed")
  /\ cp[t.job].settled = "no"
  /\ Passes(t)
  /\ DeferUntil(t, deadline)
  /\ KeepInvocations
  /\ UNCHANGED cp /\ Quiet

\* store.supersede, which asks for no token: on a durable stale settlement or
\* stale evidence at the start, after a stale transition, or because a
\* handler raised WorkflowActionSuperseded (compensated first, if by build).
SupersedeOwn(t) ==
  /\ Live(t)
  /\ saga[t].pc \in HandlerCalls \cup {"superseding", "failing"}
  /\ At(t, "claimed") => cp[t.job].settled # "exhausted"
  /\ Supersede(t.job)
  /\ Goto(t, "ended")
  /\ UNCHANGED cp /\ Quiet

(***************************************************************************)
(* The external effect.                                                    *)
(***************************************************************************)

InspectBlind(t) ==
  /\ At(t, "inspect")
  /\ Save(t, NoCheckpoint)
  /\ Goto(t, "pending")
  /\ Quiet

\* inspect: an effect that is already there is recorded, never repeated.
Inspect(t) ==
  /\ At(t, "inspect")
  /\ IF applied[t.job] > 0
       THEN /\ Save(t, [NoCheckpoint EXCEPT !.effect = TRUE])
            /\ Goto(t, "verify")
       ELSE /\ Save(t, NoCheckpoint)
            /\ Goto(t, "pending")
  /\ Quiet

\* The last check before apply is called.
StartApply(t) ==
  /\ At(t, "pending")
  /\ Passes(t)
  /\ saga' = [saga EXCEPT ![t].pc = "apply", ![t].authority = TRUE]
  /\ UNCHANGED <<vars, cp>> /\ Quiet

\* The effect is committed, whoever holds the lease by now.
ApplyCommits(t) ==
  /\ At(t, "apply")
  /\ applied[t.job] < MaxApplied
  /\ applied' = [applied EXCEPT ![t.job] = @ + 1]
  /\ Goto(t, "applied")
  /\ UNCHANGED <<vars, cp, watch, mode, executed, reached, revision, overlapped>>

ApplyReturns(t) ==
  /\ At(t, "applied")
  /\ Save(t, [NoCheckpoint EXCEPT !.effect = TRUE])
  /\ Goto(t, "verify")
  /\ Quiet

Verify(t) ==
  /\ At(t, "verify")
  /\ Save(t, [NoCheckpoint EXCEPT !.effect = TRUE, !.verified = TRUE])
  /\ Goto(t, "build")
  /\ Quiet

(***************************************************************************)
(* The task transition.                                                    *)
(***************************************************************************)

BuildUnsaved(t) ==
  /\ At(t, "build")
  /\ Passes(t)
  /\ revision[TaskOf[t.job]] < MaxRevision
  /\ saga' = [saga EXCEPT ![t].pc = "transition",
                          ![t].intent = revision[TaskOf[t.job]]]
  /\ UNCHANGED <<vars, cp>> /\ Quiet

\* build_transition: no transition is needed, or the intent, which expects
\* the revision it was built from, is persisted before it is executed.
Build(t) ==
  /\ At(t, "build")
  /\ \/ /\ Passes(t)
        /\ Goto(t, "finalize")
        /\ UNCHANGED <<vars, cp>>
     \/ LET now == revision[TaskOf[t.job]]
        IN /\ now < MaxRevision
           /\ Save(t, [NoCheckpoint EXCEPT !.effect = TRUE, !.verified = TRUE,
                                           !.intent = now])
           /\ saga' = [saga EXCEPT ![t].pc = "transition", ![t].intent = now]
  /\ Quiet

\* The transition service, seen from the worker.  The intent is executed if
\* the task still has the revision it expects.  Otherwise its outcome is in
\* the journal or the task has the requested status already (replayed), or it
\* is stale, which it cannot be while its own move is the task's last one.
TransitionCommits(t) ==
  LET task   == TaskOf[t.job]
      intent == saga[t].intent
  IN /\ At(t, "transition")
     /\ \/ /\ intent = revision[task]
           /\ executed' = [executed EXCEPT ![t.job] = @ \cup {intent}]
           /\ reached' = reached \cup {t.job}
           /\ revision' = [revision EXCEPT ![task] = @ + 1]
           /\ Goto(t, "moved")
        \/ /\ intent # revision[task]
           /\ t.job \in reached
           /\ Goto(t, "moved")
           /\ UNCHANGED <<executed, reached, revision>>
        \/ /\ intent # revision[task]
           /\ ~(intent \in executed[t.job] /\ revision[task] = intent + 1)
           /\ Goto(t, "undo_stale")
           /\ UNCHANGED <<executed, reached, revision>>
     /\ UNCHANGED <<vars, cp, watch, mode, applied, overlapped>>

TransitionReturnsUnchecked(t) ==
  /\ At(t, "moved") \/ At(t, "undo_stale")
  /\ Save(t, [NoCheckpoint EXCEPT !.effect = TRUE, !.verified = TRUE,
                                  !.intent = saga[t].intent, !.moved = TRUE])
  /\ Goto(t, "finalize")
  /\ Quiet

TransitionReturns(t) ==
  /\ At(t, "moved")
  /\ Save(t, [NoCheckpoint EXCEPT !.effect = TRUE, !.verified = TRUE,
                                  !.intent = saga[t].intent, !.moved = TRUE])
  /\ Goto(t, "finalize")
  /\ Quiet

\* A failed, deferred or rejected transition, or a permanent build failure:
\* retry while an attempt is left, else compensate and then fail.
TransitionFails(t, retryable, delay) ==
  /\ Live(t)
  /\ \/ At(t, "transition") \/ At(t, "moved")
     \/ At(t, "build") /\ ~retryable
  /\ IF retryable /\ rows[t.job].attempts < MaxAttempts
       THEN Fail(t, TRUE, delay) /\ KeepInvocations
       ELSE Goto(t, "undo_failed") /\ UNCHANGED vars
  /\ UNCHANGED cp /\ Quiet

\* compensate_transition_failure, when the handler has one: its settlement is
\* a durable barrier against a replay of the transition.
Compensate(t) ==
  LET stale == At(t, "undo_stale")
  IN /\ stale \/ At(t, "undo_failed")
     /\ Live(t)
     /\ \/ UNCHANGED <<vars, cp>>
        \/ Save(t, [cp[t.job] EXCEPT !.settled = IF stale THEN "superseded"
                                                          ELSE "exhausted"])
     /\ Goto(t, IF stale THEN "superseding" ELSE "failing")
     /\ Quiet

\* The terminal failure, after a compensation in this or an earlier claim.
FailCompensated(t) ==
  /\ Live(t)
  /\ At(t, "failing") \/ (At(t, "claimed") /\ cp[t.job].settled = "exhausted")
  /\ Fail(t, FALSE, 0)
  /\ KeepInvocations
  /\ UNCHANGED cp /\ Quiet

\* finalize_transition and store.complete.
Finalize(t) ==
  /\ At(t, "finalize")
  /\ Live(t)
  /\ Complete(t)
  /\ KeepInvocations
  /\ UNCHANGED cp /\ Quiet

(***************************************************************************)
(* Failures, deferrals and interruption.                                   *)
(***************************************************************************)

\* A handler call raises; the failure is charged (_fail).
Raise(t, retryable, delay) ==
  /\ Live(t)
  /\ saga[t].pc \in HandlerCalls
  /\ At(t, "build") => retryable
  /\ At(t, "claimed") => cp[t.job].settled # "exhausted"
  /\ Fail(t, retryable, delay)
  /\ KeepInvocations
  /\ UNCHANGED cp /\ Quiet

\* WorkflowAdministrativeDeferral before the effect: the attempt is given
\* back.  From apply, only with the handler's proof that nothing started.
DeferAdministratively(t, delay) ==
  /\ Live(t)
  /\ saga[t].pc \in {"claimed", "inspect", "apply"}
  /\ ~cp[t.job].effect
  /\ cp[t.job].settled = "no"
  /\ DeferWithoutAttempt(t, delay)
  /\ KeepInvocations
  /\ UNCHANGED cp /\ Quiet

\* check_interrupted raised WorkflowActionInterrupted at a boundary.
Interrupted(t, delay) ==
  /\ Live(t)
  /\ Interruptible(t)
  /\ saga[t].pc \in Calls \cup {"pending"}
  /\ IF saga[t].authority THEN Fail(t, TRUE, delay) ELSE DeferWithoutAttempt(t, delay)
  /\ KeepInvocations
  /\ UNCHANGED cp /\ Quiet

\* The invocation ends without an acknowledgement: the lease is lost or the
\* store unavailable, or a detached call that holds no quarantine ended.
EndUnacknowledged(t) ==
  /\ Forget(t)
  /\ KeepInvocations
  /\ UNCHANGED cp /\ Quiet

HeartbeatOfTheCall(t) ==
  /\ saga[t].pc # "ended"
  /\ Renew(t)
  /\ UNCHANGED <<cp, saga>> /\ Quiet

\* The heartbeat of the invocation; it does not outlive it in a detached call.
Heartbeat(t) ==
  /\ Live(t)
  /\ saga[t].pc # "ended"
  /\ Renew(t)
  /\ UNCHANGED <<cp, saga>> /\ Quiet

(***************************************************************************)
(* Timed-out calls.                                                        *)
(***************************************************************************)

\* The call is detached and the row quarantined; both monitors start.
QuarantineCall(t) ==
  /\ Live(t)
  /\ saga[t].pc \in Calls
  /\ Quarantine(t)
  /\ saga' = [saga EXCEPT ![t].fenced = TRUE]
  /\ monitored' = monitored \cup {t}
  /\ watched' = watched \cup {t}
  /\ UNCHANGED <<cp, recycle, stranded, mode, world, overlapped>>

\* quarantine_owned commits after its caller stopped waiting for it, or the
\* invocation was cancelled: no monitor starts.
QuarantineUnwatched(t) ==
  /\ Live(t)
  /\ saga[t].pc \in Calls
  /\ Quarantine(t)
  /\ saga' = [saga EXCEPT ![t].fenced = TRUE]
  /\ UNCHANGED cp /\ Quiet

\* The quarantine could not be persisted; the call goes on.
QuarantineUnavailable(t) ==
  /\ Live(t)
  /\ saga[t].pc \in Calls
  /\ saga' = [saga EXCEPT ![t].fenced = TRUE]
  /\ UNCHANGED <<vars, cp>> /\ Quiet

EndMonitors(t) ==
  /\ monitored' = monitored \ {t}
  /\ watched' = watched \ {t}
  /\ stranded' = stranded \ {t}
  /\ UNCHANGED <<recycle, mode, world, overlapped>>

SettleOkUncommitted(t) ==
  /\ t \in monitored
  /\ IF saga[t].pc \in {"apply", "applied"}
       THEN SettleReturned(t, "working")
            /\ SetCheckpoint(t, [cp[t.job] EXCEPT !.effect = TRUE])
       ELSE SettleReturned(t, "intent") /\ UNCHANGED cp
  /\ KeepInvocations
  /\ EndMonitors(t)

\* The detached call returned; an apply leaves its receipt in the checkpoint.
SettleOk(t) ==
  /\ t \in monitored
  /\ ~At(t, "apply")
  /\ IF At(t, "applied")
       THEN SettleReturned(t, "working")
            /\ SetCheckpoint(t, [cp[t.job] EXCEPT !.effect = TRUE])
       ELSE SettleReturned(t, "intent") /\ UNCHANGED cp
  /\ KeepInvocations
  /\ EndMonitors(t)

SettleBad(t, retryable, delay) ==
  /\ t \in monitored
  /\ SettleFailed(t, retryable, delay)
  /\ UNCHANGED cp
  /\ KeepInvocations
  /\ EndMonitors(t)

\* The settlement could not be stored; the quarantine stays.
SettleLost(t) ==
  /\ t \in monitored
  /\ monitored' = monitored \ {t}
  /\ UNCHANGED <<vars, cp, saga, watched, recycle, stranded, mode, world, overlapped>>

\* A timer that dies with the settlement monitor.
RecycleIfRunning(t, heard) ==
  /\ t \in watched \cap monitored
  /\ watched' = watched \ {t}
  /\ recycle' = IF heard THEN recycle \cup {t.owner} ELSE recycle
  /\ stranded' = IF heard THEN stranded ELSE stranded \cup {t}
  /\ UNCHANGED <<vars, cp, saga, monitored, mode, world, overlapped>>

\* The quarantine outlived its bound, whether or not the call returned: ask
\* once for a restart of the process.  The request is heard unless the store,
\* the handler's preparation or the observer raises, or there is no observer.
RequestRecycle(t, heard) ==
  /\ t \in watched
  /\ HoldsToken(t) /\ Quarantined(rows[t.job])
  /\ watched' = watched \ {t}
  /\ recycle' = IF heard THEN recycle \cup {t.owner} ELSE recycle
  /\ stranded' = IF heard THEN stranded ELSE stranded \cup {t}
  /\ UNCHANGED <<vars, cp, saga, monitored, mode, world, overlapped>>

\* graceful_restart gives up and goes on with the old process; requests that
\* joined it are not made again.
RestartFails(o) ==
  /\ o \in recycle
  /\ recycle' = recycle \ {o}
  /\ stranded' = stranded \cup {t \in detached \ watched : t.owner = o}
  /\ UNCHANGED <<vars, cp, saga, monitored, watched, mode, world, overlapped>>

(***************************************************************************)
(* The process and everything outside it.                                  *)
(***************************************************************************)

DrainReleasing(o) ==
  /\ "draining" \in Signals
  /\ Up(o)
  /\ mode[o] = "accepting"
  /\ mode' = [mode EXCEPT ![o] = "draining"]
  /\ rows' = [j \in Jobs |-> IF rows[j].owner = o THEN Recovered(rows[j]) ELSE rows[j]]
  /\ UNCHANGED <<tickets, sampled, detached, proc, spent, cp, saga, watch, world,
                 overlapped>>

\* drain: no new claims; running invocations go on.
Drain(o) ==
  /\ "draining" \in Signals
  /\ Up(o)
  /\ mode[o] = "accepting"
  /\ mode' = [mode EXCEPT ![o] = "draining"]
  /\ UNCHANGED <<vars, cp, saga, watch, world, overlapped>>

\* interrupt: running invocations stop at their next boundary.
Interrupt(o) ==
  /\ "interrupted" \in Signals
  /\ Up(o)
  /\ mode[o] # "interrupted"
  /\ mode' = [mode EXCEPT ![o] = "interrupted"]
  /\ UNCHANGED <<vars, cp, saga, watch, world, overlapped>>

\* The process dies with its calls, its monitors and its flags.
Die(o) ==
  /\ Crash(o)
  /\ KeepInvocations
  /\ monitored' = {t \in monitored : t.owner # o}
  /\ watched' = {t \in watched : t.owner # o}
  /\ stranded' = {t \in stranded : t.owner # o}
  /\ recycle' = recycle \ {o}
  /\ mode' = [mode EXCEPT ![o] = "accepting"]
  /\ UNCHANGED <<cp, world, overlapped>>

\* Somebody else moves the task, perhaps to a status that a row requests.
ExternalMove(task, there) ==
  /\ revision[task] < MaxRevision
  /\ there \subseteq {j \in Jobs : TaskOf[j] = task /\ cp[j].intent # NULL}
  /\ revision' = [revision EXCEPT ![task] = @ + 1]
  /\ reached' = reached \cup there
  /\ UNCHANGED <<vars, cp, saga, watch, mode, applied, executed, overlapped>>

\* Operations of the ledger that touch no invocation.
LedgerStep ==
  /\ \/ \E j \in Jobs : Enqueue(j) \/ Supersede(j) \/ Cancel(j)
     \/ \E task \in Tasks, keep \in Generations : SupersedeTask(task, keep)
     \/ RecoverExpired("runtime")
     \/ \E o \in Owners, dead \in Owners, phase \in Phases :
           RecoverAbandoned(o, dead, phase)
     \/ Tick
     \/ \E o \in Owners : StartProcess(o) \/ FinishStart(o)
  /\ UNCHANGED sagaVars

-----------------------------------------------------------------------------
Saga(t) ==
  \/ Revalidate(t) \/ SupersedeOwn(t)
  \/ Inspect(t) \/ StartApply(t) \/ ApplyCommits(t) \/ ApplyReturns(t) \/ Verify(t)
  \/ Build(t) \/ TransitionCommits(t) \/ TransitionReturns(t)
  \/ Compensate(t) \/ FailCompensated(t) \/ Finalize(t)
  \/ \E delay \in 0..MaxDelay :
        \/ Reassess(t, delay) \/ DeferAdministratively(t, delay) \/ Interrupted(t, delay)
        \/ \E retryable \in BOOLEAN :
              TransitionFails(t, retryable, delay) \/ Raise(t, retryable, delay)
  \/ EndUnacknowledged(t) \/ Heartbeat(t)

TimedOut(t) ==
  \/ QuarantineCall(t) \/ QuarantineUnwatched(t) \/ QuarantineUnavailable(t)
  \/ SettleOk(t) \/ SettleLost(t)
  \/ \E heard \in BOOLEAN : RequestRecycle(t, heard)
  \/ \E retryable \in BOOLEAN, delay \in 0..MaxDelay : SettleBad(t, retryable, delay)

SagaNext ==
  \/ \E o \in Owners, j \in Jobs, tok \in Tokens : Claim(o, j, tok)
  \/ \E t \in tickets : Saga(t) \/ TimedOut(t)
  \/ \E o \in Owners : Drain(o) \/ Interrupt(o) \/ Die(o) \/ RestartFails(o)
  \/ \E task \in Tasks, there \in SUBSET Jobs : ExternalMove(task, there)
  \/ LedgerStep

SagaSpec == SagaInit /\ [][SagaNext]_allVars

\* The recycle timers run out; a restart that was asked for happens or fails;
\* time passes, and a worker that is up and accepts claims polls its lane.
WorkerFairness ==
  /\ WF_allVars(Tick /\ UNCHANGED sagaVars)
  /\ WF_allVars(/\ \E o \in Owners : Up(o) /\ mode[o] = "accepting"
                /\ RecoverExpired("runtime") /\ UNCHANGED sagaVars)
  /\ \A o \in Owners :
       /\ WF_allVars(o \in recycle /\ (Die(o) \/ RestartFails(o)))
       /\ \A tok \in Tokens, j \in Jobs :
            LET t == [job |-> j, token |-> tok, owner |-> o]
            IN WF_allVars(\E heard \in BOOLEAN : RequestRecycle(t, heard))

FairSagaSpec == SagaSpec /\ WorkerFairness

-----------------------------------------------------------------------------
(***************************************************************************)
(* Properties.                                                             *)
(***************************************************************************)

\* Every variable of the worker has its type.
SagaTypeOK ==
  /\ cp \in [Jobs -> Checkpoints]
  /\ saga \in [tickets -> Invocations]
  /\ monitored \subseteq detached
  /\ watched \subseteq detached
  /\ recycle \subseteq Owners
  /\ stranded \subseteq detached
  /\ mode \in [Owners -> {"accepting", "draining", "interrupted"}]
  /\ applied \in [Jobs -> 0..MaxApplied]
  /\ executed \in [Jobs -> SUBSET Revisions]
  /\ reached \subseteq Jobs
  /\ revision \in [Tasks -> Revisions]
  /\ overlapped \subseteq Jobs

\* Retries, crashes, timeouts and late answers repeat no external effect: it
\* is committed twice only if the row was claimed again while an apply call
\* of a lost lease was still in flight, which inspect cannot see.
AppliedOnce == \A j \in Jobs : applied[j] > 1 => j \in overlapped

\* A row moves its task at most once, by the intent its checkpoint holds:
\* the intent is persisted before it is executed, and a resumed or an
\* overlapping invocation replays it instead of building another one.
OnlyJournaledIntent == \A j \in Jobs : executed[j] \subseteq {cp[j].intent}

\* No row moves its task before its external effect was committed and verified,
\* whichever invocations applied, settled, verified and moved, and whatever
\* became of their leases (execute_claimed, settle_quarantined_call).
MovesAfterEffect ==
  \A j \in Jobs : executed[j] # {} =>
    applied[j] > 0 /\ cp[j].effect /\ cp[j].verified

\* No checkpoint, settlement or recovery forgets progress: a receipt, a
\* verification, an intent, an outcome or a compensation stays.
ProgressDurable ==
  [][\A j \in Jobs :
       /\ cp[j].effect => cp'[j].effect
       /\ cp[j].verified => cp'[j].verified
       /\ cp[j].intent # NULL => cp'[j].intent = cp[j].intent
       /\ cp[j].moved => cp'[j].moved
       /\ cp[j].settled # "no" => cp'[j] = cp[j]]_allVars

\* A completed row did everything it promised: its effect is committed and
\* verified, its transition (if any) was applied and brought the task to the
\* requested status since the intent was built, and nothing was undone.
CompletedMeansDone ==
  \A j \in Jobs : rows[j].state = "completed" =>
    /\ applied[j] > 0
    /\ cp[j].effect /\ cp[j].verified /\ cp[j].settled = "no"
    /\ cp[j].intent # NULL => cp[j].moved /\ j \in reached

\* A durable compensation is a barrier: no later claim executes the
\* transition that was compensated (_settle_transition_compensation).
CompensationIsBarrier ==
  [][\A t \in tickets \cap DOMAIN saga' :
       (~At(t, "transition") /\ saga'[t].pc = "transition")
         => cp'[t.job].settled = "no"]_allVars

\* The worker uses the ledger only as its operations allow.
WorkerImplementsLedger == Spec

\* A quarantine with its recycle timer ends, also when the call hangs for ever
\* or its settlement could not be stored, unless the one request for a restart
\* or the restart itself failed: then it is the operator's (_monitor_quarantined_call).
WatchedQuarantineEnds ==
  \A j \in Jobs, tok \in Tokens, o \in Owners :
    LET t == [job |-> j, token |-> tok, owner |-> o]
    IN t \in watched ~> t \notin detached \/ t \in stranded

\* A lease that nobody renews any more: its invocation is gone, or was told to
\* withdraw without a quarantine on the row (the store refused to persist it).
Unattended(j, tok) ==
  /\ Running(rows[j])
  /\ rows[j].token = tok
  /\ rows[j].lease # NULL
  /\ \A t \in tickets : t.job = j /\ t.token = tok => ~Live(t)

\* While some worker accepts claims, an unattended lease does not last, though
\* the call behind it may hang for ever: the heartbeat must have stopped, so
\* that the deadline comes and recovery takes the row (_execute_claimed).
UnattendedLeaseEnds ==
  <>[](\E o \in Owners : Up(o) /\ mode[o] = "accepting") =>
    \A j \in Jobs, tok \in Tokens : Unattended(j, tok) ~> ~Unattended(j, tok)

\* "an expired or reclaimed worker therefore cannot publish late state": an
\* invocation whose token is no longer the row's does not change the row.
StaleWorkerInert ==
  [][\A t \in tickets \cap DOMAIN saga' :
       (saga'[t] # saga[t] /\ ~HoldsToken(t)) => rows'[t.job] = rows[t.job]]_allVars

=============================================================================
