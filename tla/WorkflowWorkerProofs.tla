------------------------ MODULE WorkflowWorkerProofs ------------------------
(***************************************************************************)
(* The resumable worker for every set of jobs, tasks, runtimes and tokens. *)
(*                                                                         *)
(* First the worker is shown to use the ledger only as its operations      *)
(* allow: whatever its sagas do, the rows evolve as WorkflowJobs says.     *)
(* Every theorem about the ledger therefore holds of the worker.           *)
(*                                                                         *)
(* Then an inductive invariant of the saga, SagaInv, gives what the worker *)
(* promises of the external effect, the transition and the checkpoints.    *)
(***************************************************************************)
EXTENDS WorkflowWorker, WorkflowJobsProofs

\* A saga step of an invocation is a ledger operation of its ticket, or
\* leaves the ledger alone.
LEMMA InvocationSteps ==
  ASSUME IndInv, NEW t \in tickets, Saga(t) \/ TimedOut(t)
  PROVE  \/ Invocation(t)
         \/ Supersede(t.job)
         \/ UNCHANGED vars
  <1>1. "working" \in Phases /\ 0 \in 0..MaxDelay
    BY LedgerAssumption DEF Phases
  <1>2. ASSUME NEW c, Save(t, c) PROVE Invocation(t)
    BY <1>1, <1>2 DEF Save, Invocation
  <1>3. \/ Revalidate(t) \/ Inspect(t) \/ ApplyReturns(t) \/ Verify(t)
        \/ TransitionReturns(t)
        => Invocation(t)
    BY <1>2 DEF Revalidate, Inspect, ApplyReturns, Verify, TransitionReturns
  <1>4. StartApply(t) \/ ApplyCommits(t) \/ TransitionCommits(t) => UNCHANGED vars
    BY DEF StartApply, ApplyCommits, TransitionCommits
  <1>5. Build(t) \/ Compensate(t) => Invocation(t) \/ UNCHANGED vars
    BY <1>2 DEF Build, Compensate
  <1>6. SupersedeOwn(t) => Supersede(t.job)
    BY DEF SupersedeOwn
  <1>7. FailCompensated(t) \/ Finalize(t) \/ EndUnacknowledged(t) \/ Heartbeat(t)
        => Invocation(t)
    BY <1>1 DEF FailCompensated, Finalize, EndUnacknowledged, Heartbeat, Invocation
  <1>8. ASSUME NEW delay \in 0..MaxDelay,
               Reassess(t, delay) \/ DeferAdministratively(t, delay)
               \/ Interrupted(t, delay)
        PROVE  Invocation(t)
    BY <1>8 DEF Reassess, DeferAdministratively, Interrupted, Invocation
  <1>9. ASSUME NEW delay \in 0..MaxDelay, NEW retryable \in BOOLEAN,
               TransitionFails(t, retryable, delay) \/ Raise(t, retryable, delay)
        PROVE  Invocation(t) \/ UNCHANGED vars
    BY <1>9 DEF TransitionFails, Raise, Invocation
  <1>10. CASE Saga(t)
    BY <1>10, <1>3, <1>4, <1>5, <1>6, <1>7, <1>8, <1>9 DEF Saga
  <1>11. CASE TimedOut(t)
    BY <1>11 DEF TimedOut, QuarantineCall, QuarantineUnwatched,
                 QuarantineUnavailable, SettleOk, SettleLost, RequestRecycle,
                 SettleBad, Invocation
  <1> QED
    BY <1>10, <1>11

\* Every step of the worker is a step of the ledger, or leaves it alone.
LEMMA SagaStepIsLedgerStep ==
  ASSUME IndInv, [SagaNext]_allVars
  PROVE  [Next]_vars
  <1>1. CASE UNCHANGED allVars
    BY <1>1 DEF allVars
  <1>2. CASE \E o \in Owners, j \in Jobs, tok \in Tokens : Claim(o, j, tok)
    BY <1>2 DEF Claim, Next, Claiming
  <1>3. CASE \E t \in tickets : Saga(t) \/ TimedOut(t)
    <2>1. PICK t \in tickets : Saga(t) \/ TimedOut(t)
      BY <1>3
    <2>2. t.job \in Jobs
      BY DEF IndInv, HolderInv, Ticket
    <2> QED
      BY <2>1, <2>2, InvocationSteps DEF Next, Scheduling
  <1>4. CASE \E o \in Owners : Drain(o) \/ Interrupt(o) \/ Die(o) \/ RestartFails(o)
    BY <1>4 DEF Drain, Interrupt, Die, RestartFails, Next, Environment, vars
  <1>5. CASE \E task \in Tasks, there \in SUBSET Jobs : ExternalMove(task, there)
    BY <1>5 DEF ExternalMove
  <1>6. CASE LedgerStep
    BY <1>6 DEF LedgerStep, Next, Scheduling, Claiming, Environment, Lanes
  <1> QED
    BY <1>1, <1>2, <1>3, <1>4, <1>5, <1>6 DEF SagaNext

\* The ledger's inductive invariant holds of the worker.
LEMMA LedgerInvariant == SagaSpec => []IndInv
  <1>1. SagaInit => IndInv
    BY InitIndInv DEF SagaInit
  <1>2. IndInv /\ [SagaNext]_allVars => IndInv'
    BY SagaStepIsLedgerStep, StepKeeps
  <1> QED
    BY <1>1, <1>2, PTL DEF SagaSpec

\* Whatever the sagas, timeouts and signals of the worker do, the rows evolve
\* as the ledger's operations allow: the worker implements WorkflowJobs.
THEOREM Refinement == SagaSpec => WorkerImplementsLedger
  <1>1. SagaInit => Init
    BY DEF SagaInit
  <1>2. IndInv /\ [SagaNext]_allVars => [Next]_vars
    BY SagaStepIsLedgerStep
  <1> QED
    BY <1>1, <1>2, LedgerInvariant, PTL
    DEF SagaSpec, Spec, WorkerImplementsLedger

-----------------------------------------------------------------------------
(***************************************************************************)
(* The inductive invariant of the saga.                                    *)
(*                                                                         *)
(* A checkpoint never promises more than the world shows (CheckpointInv);  *)
(* an invocation stands where the checkpoint of its row says (StepInv),    *)
(* the part of it that only the holder of the lease knows being Fits; and  *)
(* an apply call excludes every other way to the effect (EffectInv),       *)
(* unless the row was claimed while that call was in flight.               *)
(***************************************************************************)

CheckpointOK(c, j) ==
  /\ c.effect => applied[j] > 0
  /\ c.verified => c.effect
  /\ c.intent # NULL => c.verified /\ c.intent < MaxRevision
  /\ c.moved => c.intent # NULL /\ j \in reached
  /\ executed[j] \subseteq {c.intent}

DoneCheckpoint(c) ==
  /\ c.verified
  /\ c.settled = "no"
  /\ c.intent # NULL => c.moved

\* What the holder of the lease knows of its checkpoint.
Fits(pc, c) ==
  /\ pc \notin {"claimed", "failing", "superseding", "ended"} => c.settled = "no"
  /\ pc \in {"inspect", "pending", "apply", "applied"} => ~c.effect
  /\ pc = "verify" => c.effect /\ ~c.verified
  /\ pc = "build" => c.verified /\ c.intent = NULL
  /\ pc \in {"transition", "moved", "undo_stale"} => ~c.moved
  /\ pc = "finalize" => DoneCheckpoint(c)

CheckpointInv ==
  \A j \in Jobs :
    /\ CheckpointOK(cp[j], j)
    /\ rows[j].state = "completed" => DoneCheckpoint(cp[j])

\* These steps of an invocation carry its intent.
Transiting == {"transition", "moved", "undo_stale"}

StepInv ==
  \A t \in tickets :
    /\ At(t, "applied") => applied[t.job] > 0
    /\ saga[t].pc \in Transiting =>
         cp[t.job].intent # NULL /\ saga[t].intent = cp[t.job].intent
    /\ At(t, "moved") => t.job \in reached
    /\ HoldsToken(t) => Fits(saga[t].pc, cp[t.job])

\* Nothing else is about to apply the effect of the row of t.
SoleApply(t) ==
  /\ applied[t.job] = 0
  /\ \A u \in tickets : u.job = t.job /\ u # t => ~At(u, "apply") /\ ~HoldsToken(u)

EffectInv ==
  \A j \in Jobs \ overlapped :
    /\ applied[j] <= 1
    /\ \A t \in tickets : t.job = j =>
         /\ At(t, "pending") /\ HoldsToken(t) => applied[j] = 0
         /\ At(t, "apply") => SoleApply(t)

SagaInv == SagaTypeOK /\ CheckpointInv /\ StepInv /\ EffectInv

\* The body of ProgressDurable.
Grows(old, new) ==
  /\ old.effect => new.effect
  /\ old.verified => new.verified
  /\ old.intent # NULL => new.intent = old.intent
  /\ old.moved => new.moved
  /\ old.settled # "no" => new = old

-----------------------------------------------------------------------------
(***************************************************************************)
(* Types.                                                                  *)
(***************************************************************************)

\* One invocation moves, perhaps with an intent; the others stay.
LEMMA Moves ==
  ASSUME SagaTypeOK, NEW t \in tickets, NEW new \in Invocations,
         saga' = [saga EXCEPT ![t] = new], tickets' = tickets
  PROVE  /\ saga' \in [tickets' -> Invocations]
         /\ saga'[t] = new
         /\ \A u \in tickets \ {t} : saga'[u] = saga[u]
  BY DEF SagaTypeOK

\* Moves, for a step that changes only what the invocation does next.
LEMMA MovesTo ==
  ASSUME SagaTypeOK, NEW t \in tickets, NEW pc \in Steps, Goto(t, pc),
         tickets' = tickets
  PROVE  /\ saga' \in [tickets' -> Invocations]
         /\ saga'[t].pc = pc /\ saga'[t].intent = saga[t].intent
         /\ \A u \in tickets \ {t} : saga'[u] = saga[u]
  <1> DEFINE new == [saga[t] EXCEPT !.pc = pc]
  <1>1. saga[t] \in Invocations
    BY DEF SagaTypeOK
  <1>2. new \in Invocations /\ new.pc = pc /\ new.intent = saga[t].intent
    BY <1>1 DEF Invocations
  <1>3. saga' = [saga EXCEPT ![t] = new]
    BY DEF Goto, SagaTypeOK
  <1> HIDE DEF new
  <1> QED
    BY <1>2, <1>3, Moves

\* Moves, for a step that also gives the invocation an intent.
LEMMA MovesWithIntent ==
  ASSUME SagaTypeOK, NEW t \in tickets, NEW pc \in Steps,
         NEW intent \in Nullable(Revisions),
         saga' = [saga EXCEPT ![t].pc = pc, ![t].intent = intent],
         tickets' = tickets
  PROVE  /\ saga' \in [tickets' -> Invocations]
         /\ saga'[t].pc = pc /\ saga'[t].intent = intent
         /\ \A u \in tickets \ {t} : saga'[u] = saga[u]
  <1> DEFINE new == [saga[t] EXCEPT !.pc = pc, !.intent = intent]
  <1>1. saga[t] \in Invocations
    BY DEF SagaTypeOK
  <1>2. new \in Invocations /\ new.pc = pc /\ new.intent = intent
    BY <1>1 DEF Invocations
  <1>3. saga' = [saga EXCEPT ![t] = new]
    BY DEF SagaTypeOK
  <1> HIDE DEF new
  <1> QED
    BY <1>2, <1>3, Moves

\* Moves, for the start of an apply call.
LEMMA MovesToApply ==
  ASSUME SagaTypeOK, NEW t \in tickets, tickets' = tickets,
         saga' = [saga EXCEPT ![t].pc = "apply", ![t].authority = TRUE]
  PROVE  /\ saga' \in [tickets' -> Invocations]
         /\ saga'[t].pc = "apply" /\ saga'[t].intent = saga[t].intent
         /\ \A u \in tickets \ {t} : saga'[u] = saga[u]
  <1> DEFINE new == [saga[t] EXCEPT !.pc = "apply", !.authority = TRUE]
  <1>1. saga[t] \in Invocations
    BY DEF SagaTypeOK
  <1>2. new \in Invocations /\ new.pc = "apply" /\ new.intent = saga[t].intent
    BY <1>1 DEF Invocations, Steps, Calls, HandlerCalls
  <1>3. saga' = [saga EXCEPT ![t] = new]
    BY DEF SagaTypeOK
  <1> HIDE DEF new
  <1> QED
    BY <1>2, <1>3, Moves

\* Moves, for the withdrawal of an invocation's authority.
LEMMA Fences ==
  ASSUME SagaTypeOK, NEW t \in tickets, tickets' = tickets,
         saga' = [saga EXCEPT ![t].fenced = TRUE]
  PROVE  /\ saga' \in [tickets' -> Invocations]
         /\ \A u \in tickets : /\ saga'[u].pc = saga[u].pc
                               /\ saga'[u].intent = saga[u].intent
  <1> DEFINE new == [saga[t] EXCEPT !.fenced = TRUE]
  <1>1. saga[t] \in Invocations
    BY DEF SagaTypeOK
  <1>2. new \in Invocations /\ new.pc = saga[t].pc /\ new.intent = saga[t].intent
    BY <1>1 DEF Invocations
  <1>3. saga' = [saga EXCEPT ![t] = new]
    BY DEF SagaTypeOK
  <1> HIDE DEF new
  <1> QED
    BY <1>2, <1>3, Moves

-----------------------------------------------------------------------------
(***************************************************************************)
(* What the ledger's operations do to leases and to completed rows.        *)
(***************************************************************************)

\* No invocation gets the lease of the row, which is not completed either.
Calm(k) ==
  /\ Running(rows'[k]) => Running(rows[k]) /\ rows'[k].token = rows[k].token
  /\ rows'[k].state = "completed" => rows[k].state = "completed"

\* The operations of the ledger that a saga uses, completion apart.
Uses(t) ==
  \/ Renew(t) \/ Checkpoint(t, "working") \/ Quarantine(t) \/ Forget(t)
  \/ \E delay \in 0..MaxDelay : DeferWithoutAttempt(t, delay) \/ DeferUntil(t, delay)
  \/ \E phase \in {"intent", "working"} : SettleReturned(t, phase)
  \/ \E retryable \in BOOLEAN, delay \in 0..MaxDelay :
        Fail(t, retryable, delay) \/ SettleFailed(t, retryable, delay)

\* They give no lease and complete no row.
LEMMA InvocationCalm ==
  ASSUME IndInv, NEW t \in tickets, Uses(t)
  PROVE  /\ \A k \in Jobs : Calm(k)
         /\ tickets' \subseteq tickets
  <1>1. t.job \in Jobs /\ rows = [k \in Jobs |-> rows[k]]
    BY DEF IndInv, RowsInv, HolderInv, Ticket
  <1>2. rows[t.job] \in Row
    BY <1>1 DEF IndInv, RowsInv, RowInv
  <1> DEFINE r == rows[t.job]
             Rel(state) == Released(r, state)
  <1>3. \A state \in TerminalStates \cup ActiveStates :
          Rel(state) \in Row /\ Rel(state).state = state
    BY <1>2, ReleasedFields
  <1>4. ASSUME NEW new, SetRow(t.job, new),
               \/ new.state = r.state /\ new.token = r.token
               \/ new.state \notin {"running", "completed"}
        PROVE  \A k \in Jobs : Calm(k)
    BY <1>1, <1>4 DEF SetRow, Calm, Running
  <1>5. ASSUME UNCHANGED rows PROVE \A k \in Jobs : Calm(k)
    BY <1>5 DEF Calm
  <1>6. CASE Forget(t)
    BY <1>5, <1>6 DEF Forget, EndTicket
  <1>7. CASE Renew(t)
    BY <1>2, <1>4, <1>7 DEF Renew, Row
  <1>8. CASE Checkpoint(t, "working")
    BY <1>2, <1>4, <1>8 DEF Checkpoint, Row
  <1>9. CASE Quarantine(t)
    BY <1>2, <1>4, <1>9 DEF Quarantine, Row
  <1>10. ASSUME NEW delay, DeferWithoutAttempt(t, delay)
         PROVE  (\A k \in Jobs : Calm(k)) /\ tickets' \subseteq tickets
    BY <1>3, <1>4, <1>10
    DEF DeferWithoutAttempt, EndTicket, Row, ActiveStates, TerminalStates
  <1>11. ASSUME NEW delay, DeferUntil(t, delay)
         PROVE  (\A k \in Jobs : Calm(k)) /\ tickets' \subseteq tickets
    BY <1>3, <1>4, <1>11 DEF DeferUntil, EndTicket, Row, ActiveStates, TerminalStates
  <1>12. ASSUME NEW phase, SettleReturned(t, phase)
         PROVE  (\A k \in Jobs : Calm(k)) /\ tickets' \subseteq tickets
    BY <1>3, <1>4, <1>12 DEF SettleReturned, EndTicket, Row, ActiveStates
  <1>13. ASSUME NEW retryable, NEW delay,
                Fail(t, retryable, delay) \/ SettleFailed(t, retryable, delay)
         PROVE  (\A k \in Jobs : Calm(k)) /\ tickets' \subseteq tickets
    <2>1. \A phase : [Failed(r, retryable, delay) EXCEPT !.phase = phase].state
                       \in {"retry_wait", "exhausted"}
      BY <1>3 DEF Failed, Row, ActiveStates, TerminalStates
    <2> QED
      BY <1>4, <1>13, <2>1 DEF Fail, SettleFailed, EndTicket
  <1> QED
    BY <1>6, <1>7, <1>8, <1>9, <1>10, <1>11, <1>12, <1>13 DEF Uses

\* So are the ledger operations that touch no invocation.
LEMMA LedgerCalm ==
  ASSUME IndInv, LedgerStep
  PROVE  (\A k \in Jobs : Calm(k)) /\ tickets' = tickets
  <1>1. rows = [k \in Jobs |-> rows[k]] /\ \A k \in Jobs : rows[k] \in Row
    BY DEF IndInv, RowsInv, RowInv
  <1>2. ASSUME NEW k \in Jobs, NEW state \in TerminalStates \cup ActiveStates
        PROVE  Released(rows[k], state).state = state
    BY <1>1, <1>2, ReleasedFields
  <1>3. ASSUME NEW S, rows' = RecoverAll(S) PROVE \A k \in Jobs : Calm(k)
    <2>1. \A k \in Jobs : Recovered(rows[k]).state \in {"exhausted", "queued"}
      BY <1>2 DEF Recovered, ActiveStates, TerminalStates
    <2> QED
      BY <1>3, <2>1 DEF RecoverAll, Calm, Running
  <1>4. ASSUME UNCHANGED rows PROVE \A k \in Jobs : Calm(k)
    BY <1>4 DEF Calm
  <1>5. ASSUME NEW j \in Jobs, Enqueue(j) \/ Supersede(j) \/ Cancel(j)
        PROVE  (\A k \in Jobs : Calm(k)) /\ tickets' = tickets
    <2>1. [NoRow EXCEPT !.state = "queued"].state = "queued"
      BY DEF NoRow
    <2> QED
      BY <1>1, <1>2, <1>5, <2>1
      DEF Enqueue, Supersede, Cancel, SetRow, Calm, Running, TerminalStates
  <1>6. ASSUME NEW task \in Tasks, NEW keep \in Generations, SupersedeTask(task, keep)
        PROVE  (\A k \in Jobs : Calm(k)) /\ tickets' = tickets
    BY <1>2, <1>6 DEF SupersedeTask, Calm, Running, TerminalStates
  <1>7. CASE Tick
    <2>1. \A k \in Jobs : /\ rows'[k].state = rows[k].state
                          /\ rows'[k].token = rows[k].token
      BY <1>1, <1>7 DEF Tick, Row
    <2> QED
      BY <1>7, <2>1 DEF Tick, Calm, Running
  <1> QED
    BY <1>3, <1>4, <1>5, <1>6, <1>7
    DEF LedgerStep, RecoverExpired, RecoverAbandoned, StartProcess, FinishStart

-----------------------------------------------------------------------------
(***************************************************************************)
(* The two kinds of saga steps: those that leave the checkpoints and the   *)
(* world alone, and those that save a checkpoint.                          *)
(***************************************************************************)

\* The steps of an invocation that assert nothing beyond Fits.
Plain == Steps \ ({"pending", "apply", "applied"} \cup Transiting)

\* Checkpoints and world stay; invocations stay, end, or move to a plain step
\* that fits their checkpoint.
LEMMA FrameKeeps ==
  ASSUME IndInv, SagaInv,
         UNCHANGED <<cp, applied, executed, reached, overlapped>>,
         tickets' \subseteq tickets,
         saga' \in [tickets' -> Invocations],
         \A k \in Jobs :
           /\ Running(rows'[k]) => Running(rows[k]) /\ rows'[k].token = rows[k].token
           /\ rows'[k].state = "completed" =>
                rows[k].state = "completed" \/ DoneCheckpoint(cp[k]),
         \A u \in tickets' :
           \/ saga'[u].pc = saga[u].pc /\ saga'[u].intent = saga[u].intent
           \/ /\ saga'[u].pc \in Plain
              /\ HoldsToken(u) => Fits(saga'[u].pc, cp[u.job])
  PROVE  CheckpointInv' /\ StepInv' /\ EffectInv'
  <1>1. \A u \in tickets : u.job \in Jobs
    BY DEF IndInv, HolderInv, Ticket
  <1>2. \A u \in tickets' : HoldsToken(u)' => HoldsToken(u)
    BY <1>1 DEF HoldsToken
  <1>3. CheckpointInv'
    BY DEF SagaInv, CheckpointInv, CheckpointOK, DoneCheckpoint
  <1>4. StepInv'
    <2> SUFFICES ASSUME NEW u \in tickets'
                 PROVE  /\ saga'[u].pc = "applied" => applied[u.job] > 0
                        /\ saga'[u].pc \in Transiting =>
                             /\ cp[u.job].intent # NULL
                             /\ saga'[u].intent = cp[u.job].intent
                        /\ saga'[u].pc = "moved" => u.job \in reached
                        /\ HoldsToken(u)' => Fits(saga'[u].pc, cp[u.job])
      BY DEF StepInv, At, Fits, DoneCheckpoint
    <2>1. u \in tickets /\ (HoldsToken(u)' => HoldsToken(u))
      BY <1>2
    <2>2. CASE saga'[u].pc = saga[u].pc /\ saga'[u].intent = saga[u].intent
      BY <2>1, <2>2 DEF SagaInv, StepInv, At
    <2>3. CASE saga'[u].pc \in Plain /\ (HoldsToken(u) => Fits(saga'[u].pc, cp[u.job]))
      BY <2>1, <2>3 DEF Plain, Transiting
    <2> QED
      BY <2>2, <2>3
  <1>5. \A u \in tickets' : saga'[u].pc \in {"pending", "apply"}
          => saga'[u].pc = saga[u].pc
    BY DEF Plain
  <1>6. EffectInv'
    BY <1>2, <1>5 DEF SagaInv, EffectInv, SoleApply, At
  <1> QED
    BY <1>3, <1>4, <1>6

\* The holder of the lease saves a checkpoint that is true of the world and
\* keeps the intent, and moves where the checkpoint allows.
LEMMA SaveKeeps ==
  ASSUME IndInv, SagaInv, NEW t \in tickets, NEW c \in Checkpoints, Save(t, c),
         UNCHANGED <<applied, executed, reached, overlapped>>,
         saga' \in [tickets' -> Invocations],
         \A u \in tickets \ {t} : saga'[u] = saga[u],
         CheckpointOK(c, t.job),
         Grows(cp[t.job], c),
         saga'[t].pc \notin {"apply", "applied", "moved"},
         saga'[t].pc \in Transiting => c.intent # NULL /\ saga'[t].intent = c.intent,
         saga'[t].pc = "pending" => applied[t.job] = 0,
         Fits(saga'[t].pc, c)
  PROVE  /\ CheckpointInv' /\ StepInv' /\ EffectInv'
         /\ \A j \in Jobs : Grows(cp[j], cp'[j])
  <1>1. /\ t.job \in Jobs /\ rows = [k \in Jobs |-> rows[k]]
        /\ tickets' = tickets /\ HoldsToken(t)
        /\ SetRow(t.job, [rows[t.job] EXCEPT !.phase = "working"])
        /\ cp' = [cp EXCEPT ![t.job] = c] /\ cp \in [Jobs -> Checkpoints]
    BY DEF IndInv, RowsInv, HolderInv, Ticket, Save, SetCheckpoint, Checkpoint,
           Passes, Owns, SagaInv, SagaTypeOK
  <1>2. rows[t.job] \in Row
    BY <1>1 DEF IndInv, RowsInv, RowInv
  <1>3. \A k \in Jobs : rows'[k].state = rows[k].state /\ rows'[k].token = rows[k].token
    BY <1>1, <1>2 DEF SetRow, Row
  <1>4. \A u \in tickets : u.job \in Jobs
    BY DEF IndInv, HolderInv, Ticket
  <1>5. \A u \in tickets : HoldsToken(u)' <=> HoldsToken(u)
    BY <1>3, <1>4 DEF HoldsToken, Running
  <1>6. \A u \in tickets \ {t} : u.job = t.job => ~HoldsToken(u)
    BY <1>1, OneHolder DEF IndInv
  <1>7. cp'[t.job] = c /\ \A k \in Jobs \ {t.job} : cp'[k] = cp[k]
    BY <1>1
  <1>8. CheckpointInv'
    <2>1. rows[t.job].state # "completed"
      BY <1>1 DEF HoldsToken, Running
    <2>2. ASSUME NEW k \in Jobs
          PROVE  /\ CheckpointOK(cp'[k], k)
                 /\ rows'[k].state = "completed" => DoneCheckpoint(cp'[k])
      BY <1>3, <1>7, <2>1 DEF SagaInv, CheckpointInv
    <2> QED
      BY <2>2 DEF CheckpointInv, CheckpointOK, DoneCheckpoint
  <1>9. StepInv'
    <2> SUFFICES ASSUME NEW u \in tickets
                 PROVE  /\ saga'[u].pc = "applied" => applied[u.job] > 0
                        /\ saga'[u].pc \in Transiting =>
                             /\ cp'[u.job].intent # NULL
                             /\ saga'[u].intent = cp'[u.job].intent
                        /\ saga'[u].pc = "moved" => u.job \in reached
                        /\ HoldsToken(u)' => Fits(saga'[u].pc, cp'[u.job])
      BY <1>1 DEF StepInv, At, Fits, DoneCheckpoint
    <2>1. CASE u = t
      BY <1>7, <2>1
    <2>2. CASE u # t /\ u.job = t.job
      BY <1>5, <1>6, <1>7, <2>2 DEF SagaInv, StepInv, At, Grows
    <2>3. CASE u # t /\ u.job # t.job
      BY <1>4, <1>5, <1>7, <2>3 DEF SagaInv, StepInv, At
    <2> QED
      BY <2>1, <2>2, <2>3
  <1>10. EffectInv'
    BY <1>1, <1>5 DEF SagaInv, EffectInv, SoleApply, At
  <1>11. ASSUME NEW j \in Jobs PROVE Grows(cp[j], cp'[j])
    BY <1>7 DEF Grows
  <1> QED
    BY <1>8, <1>9, <1>10, <1>11

-----------------------------------------------------------------------------
(***************************************************************************)
(* Steps that save a checkpoint.                                           *)
(***************************************************************************)

\* No checkpoint forgets progress with this step.
Progress == \A j \in Jobs : Grows(cp[j], cp'[j])

\* Types, for a step that leaves the world and the monitors alone.
LEMMA QuietTyped ==
  ASSUME SagaTypeOK, Quiet, detached \subseteq detached',
         saga' \in [tickets' -> Invocations], cp' \in [Jobs -> Checkpoints]
  PROVE  SagaTypeOK'
  BY DEF SagaTypeOK, Quiet, watch, world

\* SaveKeeps, with the types and the frame of the actions.
LEMMA SaveStep ==
  ASSUME IndInv, SagaInv, Quiet, NEW t \in tickets, NEW c \in Checkpoints, Save(t, c),
         saga' \in [tickets' -> Invocations],
         \A u \in tickets \ {t} : saga'[u] = saga[u],
         CheckpointOK(c, t.job),
         Grows(cp[t.job], c),
         saga'[t].pc \notin {"apply", "applied", "moved"},
         saga'[t].pc \in Transiting => c.intent # NULL /\ saga'[t].intent = c.intent,
         saga'[t].pc = "pending" => applied[t.job] = 0,
         Fits(saga'[t].pc, c)
  PROVE  SagaInv' /\ Progress
  <1>1. UNCHANGED <<applied, executed, reached, overlapped>>
    BY DEF Quiet, world
  <1>2. CheckpointInv' /\ StepInv' /\ EffectInv' /\ Progress
    BY <1>1, SaveKeeps DEF Progress
  <1>3. detached' = detached /\ cp' \in [Jobs -> Checkpoints]
    BY DEF Save, Checkpoint, SetCheckpoint, SagaInv, SagaTypeOK
  <1>4. SagaTypeOK'
    BY <1>3, QuietTyped DEF SagaInv
  <1> QED
    BY <1>2, <1>4 DEF SagaInv

\* What the holder of a lease that passes its checks knows.
LEMMA HolderKnows ==
  ASSUME IndInv, SagaInv, NEW t \in tickets
  PROVE  /\ t.job \in Jobs /\ cp[t.job] \in Checkpoints /\ saga[t] \in Invocations
         /\ CheckpointOK(cp[t.job], t.job)
         /\ applied[t.job] \in Nat
         /\ executed[t.job] \subseteq Revisions /\ NULL \notin Revisions
         /\ Passes(t) => HoldsToken(t)
         /\ HoldsToken(t) => Fits(saga[t].pc, cp[t.job])
         /\ At(t, "applied") => applied[t.job] > 0
         /\ saga[t].pc \in Transiting =>
              cp[t.job].intent # NULL /\ saga[t].intent = cp[t.job].intent
         /\ At(t, "moved") => t.job \in reached
  <1>1. t.job \in Jobs
    BY DEF IndInv, HolderInv, Ticket
  <1>2. NULL \notin Revisions
    BY LedgerAssumption, WorkerAssumption DEF Revisions
  <1>3. applied[t.job] \in Nat
    BY <1>1, WorkerAssumption DEF SagaInv, SagaTypeOK
  <1>4. Passes(t) => HoldsToken(t)
    BY DEF Passes, Owns
  <1> QED
    BY <1>1, <1>2, <1>3, <1>4 DEF SagaInv, SagaTypeOK, CheckpointInv, StepInv

\* A row without an effect has made no progress that a checkpoint could lose.
LEMMA NothingToLose ==
  ASSUME IndInv, SagaInv, NEW t \in tickets, HoldsToken(t),
         saga[t].pc \in {"inspect", "applied"}
  PROVE  /\ ~cp[t.job].effect /\ ~cp[t.job].verified /\ cp[t.job].intent = NULL
         /\ ~cp[t.job].moved /\ cp[t.job].settled = "no"
         /\ executed[t.job] = {}
  BY HolderKnows DEF Fits, CheckpointOK

\* The saga resumes where its checkpoint says.
LEMMA RevalidateKeeps ==
  ASSUME IndInv, SagaInv, NEW t \in tickets, Revalidate(t)
  PROVE  SagaInv' /\ Progress
  <1> DEFINE c == cp[t.job]
  <1>1. /\ Save(t, c) /\ Quiet /\ c.settled = "no" /\ c \in Checkpoints
        /\ CheckpointOK(c, t.job) /\ tickets' = tickets
        /\ saga' = [saga EXCEPT ![t].pc = Resume(c), ![t].intent = c.intent]
    BY HolderKnows DEF Revalidate, Save, Checkpoint
  <1>2. /\ Resume(c) \in Steps \ {"pending", "apply", "applied", "moved", "undo_stale"}
        /\ Fits(Resume(c), c)
        /\ Resume(c) = "transition" => c.intent # NULL
    BY <1>1 DEF Resume, Fits, DoneCheckpoint, CheckpointOK, Checkpoints, Steps,
                Calls, HandlerCalls
  <1>3. c.intent \in Nullable(Revisions)
    BY <1>1 DEF Checkpoints
  <1>4. /\ saga' \in [tickets' -> Invocations]
        /\ saga'[t].pc = Resume(c) /\ saga'[t].intent = c.intent
        /\ \A u \in tickets \ {t} : saga'[u] = saga[u]
    BY <1>1, <1>2, <1>3, MovesWithIntent DEF SagaInv
  <1>5. Grows(c, c)
    BY DEF Grows
  <1> HIDE DEF c
  <1>6. Grows(cp[t.job], c)
    BY <1>5 DEF c
  <1> QED
    BY <1>1, <1>2, <1>4, <1>6, SaveStep DEF Transiting

\* The receipt of the effect: found by inspect, or returned by apply.
LEMMA EffectKeeps ==
  ASSUME IndInv, SagaInv, NEW t \in tickets, Inspect(t) \/ ApplyReturns(t)
  PROVE  SagaInv' /\ Progress
  <1> DEFINE d == [NoCheckpoint EXCEPT !.effect = TRUE]
  <1>1. /\ NoCheckpoint \in Checkpoints /\ d \in Checkpoints
        /\ d.effect /\ ~d.verified /\ d.intent = NULL /\ ~d.moved /\ d.settled = "no"
        /\ ~NoCheckpoint.effect /\ ~NoCheckpoint.verified /\ NoCheckpoint.intent = NULL
        /\ ~NoCheckpoint.moved /\ NoCheckpoint.settled = "no"
    BY DEF NoCheckpoint, Checkpoints, Nullable
  <1> HIDE DEF d
  <1>2. HoldsToken(t) /\ tickets' = tickets /\ Quiet
    BY DEF Inspect, ApplyReturns, Save, Passes, Owns, Checkpoint
  <1>3. /\ cp[t.job] \in Checkpoints
        /\ ~cp[t.job].effect /\ ~cp[t.job].verified /\ cp[t.job].intent = NULL
        /\ ~cp[t.job].moved /\ cp[t.job].settled = "no" /\ executed[t.job] = {}
    BY <1>2, NothingToLose, HolderKnows DEF Inspect, ApplyReturns, At
  <1>4. Grows(cp[t.job], d) /\ Grows(cp[t.job], NoCheckpoint)
    BY <1>1, <1>3 DEF Grows
  <1>5. /\ CheckpointOK(NoCheckpoint, t.job)
        /\ applied[t.job] > 0 => CheckpointOK(d, t.job)
        /\ Fits("verify", d) /\ Fits("pending", NoCheckpoint)
    BY <1>1, <1>3 DEF CheckpointOK, Fits
  <1>6. "verify" \in Steps /\ "pending" \in Steps
    BY DEF Steps, Calls, HandlerCalls
  <1>7. CASE Save(t, d) /\ Goto(t, "verify") /\ applied[t.job] > 0
    BY <1>1, <1>2, <1>4, <1>5, <1>6, <1>7, MovesTo, SaveStep DEF SagaInv, Transiting
  <1>8. CASE Save(t, NoCheckpoint) /\ Goto(t, "pending") /\ ~(applied[t.job] > 0)
    <2>1. applied[t.job] = 0
      BY <1>8, HolderKnows
    <2> QED
      BY <1>1, <1>2, <1>4, <1>5, <1>6, <1>8, <2>1, MovesTo, SaveStep
      DEF SagaInv, Transiting
  <1>9. \/ Save(t, d) /\ Goto(t, "verify") /\ applied[t.job] > 0
        \/ Save(t, NoCheckpoint) /\ Goto(t, "pending") /\ ~(applied[t.job] > 0)
    BY HolderKnows DEF Inspect, ApplyReturns, d
  <1> QED
    BY <1>7, <1>8, <1>9

\* The verification of the effect.
LEMMA VerifyKeeps ==
  ASSUME IndInv, SagaInv, NEW t \in tickets, Verify(t)
  PROVE  SagaInv' /\ Progress
  <1> DEFINE c == [NoCheckpoint EXCEPT !.effect = TRUE, !.verified = TRUE]
  <1>1. /\ c \in Checkpoints
        /\ c.effect /\ c.verified /\ c.intent = NULL /\ ~c.moved /\ c.settled = "no"
    BY DEF NoCheckpoint, Checkpoints, Nullable
  <1>2. Save(t, c) /\ Goto(t, "build") /\ Quiet /\ tickets' = tickets /\ HoldsToken(t)
    BY DEF Verify, Save, Checkpoint, Passes, Owns
  <1> HIDE DEF c
  <1>3. /\ cp[t.job].effect /\ ~cp[t.job].verified /\ cp[t.job].settled = "no"
        /\ CheckpointOK(cp[t.job], t.job)
    BY <1>2, HolderKnows DEF Verify, At, Fits
  <1>4. CheckpointOK(c, t.job) /\ Grows(cp[t.job], c) /\ Fits("build", c)
    BY <1>1, <1>3 DEF CheckpointOK, Grows, Fits
  <1>5. "build" \in Steps
    BY DEF Steps, Calls, HandlerCalls
  <1> QED
    BY <1>1, <1>2, <1>4, <1>5, MovesTo, SaveStep DEF SagaInv, Transiting

\* The intent is saved before it is executed.
LEMMA IntentKeeps ==
  ASSUME IndInv, SagaInv, NEW t \in tickets, At(t, "build"), Quiet,
         revision[TaskOf[t.job]] < MaxRevision,
         Save(t, [NoCheckpoint EXCEPT !.effect = TRUE, !.verified = TRUE,
                                      !.intent = revision[TaskOf[t.job]]]),
         saga' = [saga EXCEPT ![t].pc = "transition",
                              ![t].intent = revision[TaskOf[t.job]]]
  PROVE  SagaInv' /\ Progress
  <1> DEFINE now == revision[TaskOf[t.job]]
             c == [NoCheckpoint EXCEPT !.effect = TRUE, !.verified = TRUE,
                                       !.intent = now]
  <1>1. now \in Revisions /\ now # NULL /\ now < MaxRevision
    BY HolderKnows, LedgerAssumption DEF SagaInv, SagaTypeOK
  <1>2. /\ c \in Checkpoints
        /\ c.effect /\ c.verified /\ c.intent = now /\ ~c.moved /\ c.settled = "no"
    BY <1>1 DEF NoCheckpoint, Checkpoints, Nullable
  <1>3. Save(t, c) /\ tickets' = tickets /\ HoldsToken(t)
    BY DEF Save, Checkpoint, Passes, Owns
  <1>4. saga' = [saga EXCEPT ![t].pc = "transition", ![t].intent = now]
    OBVIOUS
  <1> HIDE DEF c, now
  <1>5. /\ cp[t.job].verified /\ cp[t.job].intent = NULL /\ cp[t.job].settled = "no"
        /\ CheckpointOK(cp[t.job], t.job) /\ executed[t.job] = {}
    BY <1>3, HolderKnows DEF At, Fits, CheckpointOK
  <1>6. CheckpointOK(c, t.job) /\ Grows(cp[t.job], c) /\ Fits("transition", c)
    BY <1>1, <1>2, <1>5 DEF CheckpointOK, Grows, Fits
  <1>7. "transition" \in Steps /\ now \in Nullable(Revisions)
    BY <1>1 DEF Steps, Calls, Nullable
  <1>8. /\ saga' \in [tickets' -> Invocations]
        /\ saga'[t].pc = "transition" /\ saga'[t].intent = now
        /\ \A u \in tickets \ {t} : saga'[u] = saga[u]
    BY <1>3, <1>4, <1>7, MovesWithIntent DEF SagaInv
  <1> QED
    BY <1>1, <1>2, <1>3, <1>6, <1>8, SaveStep

\* The outcome of the transition is saved with the intent that produced it.
LEMMA OutcomeKeeps ==
  ASSUME IndInv, SagaInv, NEW t \in tickets, TransitionReturns(t)
  PROVE  SagaInv' /\ Progress
  <1> DEFINE i == saga[t].intent
             c == [NoCheckpoint EXCEPT !.effect = TRUE, !.verified = TRUE,
                                       !.intent = i, !.moved = TRUE]
  <1>1. /\ i # NULL /\ i = cp[t.job].intent /\ i \in Nullable(Revisions)
        /\ t.job \in reached /\ CheckpointOK(cp[t.job], t.job)
    BY HolderKnows DEF TransitionReturns, At, Transiting, Invocations
  <1>2. /\ c \in Checkpoints
        /\ c.effect /\ c.verified /\ c.intent = i /\ c.moved /\ c.settled = "no"
    BY <1>1 DEF NoCheckpoint, Checkpoints
  <1>3. Save(t, c) /\ Goto(t, "finalize") /\ Quiet /\ tickets' = tickets
        /\ HoldsToken(t)
    BY DEF TransitionReturns, Save, Checkpoint, Passes, Owns
  <1> HIDE DEF c, i
  <1>4. cp[t.job].settled = "no"
    BY <1>3, HolderKnows DEF TransitionReturns, At, Fits
  <1>5. CheckpointOK(c, t.job) /\ Grows(cp[t.job], c) /\ Fits("finalize", c)
    BY <1>1, <1>2, <1>4 DEF CheckpointOK, Grows, Fits, DoneCheckpoint
  <1>6. "finalize" \in Steps
    BY DEF Steps, Calls, HandlerCalls
  <1> QED
    BY <1>1, <1>2, <1>3, <1>5, <1>6, MovesTo, SaveStep DEF SagaInv, Transiting

\* A compensation is settled once, and takes nothing back from the checkpoint.
LEMMA SettlementKeeps ==
  ASSUME IndInv, SagaInv, NEW t \in tickets, Quiet,
         NEW how \in {"exhausted", "superseded"},
         Save(t, [cp[t.job] EXCEPT !.settled = how]),
         saga[t].pc \in {"undo_failed", "undo_stale"},
         NEW pc \in {"failing", "superseding"}, Goto(t, pc)
  PROVE  SagaInv' /\ Progress
  <1> DEFINE old == cp[t.job]
             c == [old EXCEPT !.settled = how]
  <1>1. HoldsToken(t) /\ tickets' = tickets
    BY DEF Save, Checkpoint, Passes, Owns
  <1>2. old \in Checkpoints /\ CheckpointOK(old, t.job) /\ old.settled = "no"
    BY <1>1, HolderKnows DEF Fits
  <1>3. /\ c \in Checkpoints
        /\ c.effect = old.effect /\ c.verified = old.verified
        /\ c.intent = old.intent /\ c.moved = old.moved
    BY <1>2 DEF Checkpoints
  <1>4. Save(t, c)
    OBVIOUS
  <1> HIDE DEF c
  <1>5. CheckpointOK(c, t.job) /\ Grows(old, c) /\ Fits(pc, c)
    BY <1>2, <1>3 DEF CheckpointOK, Grows, Fits
  <1>6. pc \in Steps
    BY DEF Steps
  <1> QED
    BY <1>1, <1>3, <1>4, <1>5, <1>6, MovesTo, SaveStep DEF SagaInv, Transiting

-----------------------------------------------------------------------------
(***************************************************************************)
(* Steps that save none.                                                   *)
(***************************************************************************)

\* FrameKeeps, with the types and the frame of the actions.
LEMMA QuietStep ==
  ASSUME IndInv, SagaInv, Quiet, UNCHANGED cp,
         tickets' \subseteq tickets, detached \subseteq detached',
         saga' \in [tickets' -> Invocations],
         \A k \in Jobs :
           /\ Running(rows'[k]) => Running(rows[k]) /\ rows'[k].token = rows[k].token
           /\ rows'[k].state = "completed" =>
                rows[k].state = "completed" \/ DoneCheckpoint(cp[k]),
         \A u \in tickets' :
           \/ saga'[u].pc = saga[u].pc /\ saga'[u].intent = saga[u].intent
           \/ /\ saga'[u].pc \in Plain
              /\ HoldsToken(u) => Fits(saga'[u].pc, cp[u.job])
  PROVE  SagaInv' /\ Progress
  <1>1. UNCHANGED <<applied, executed, reached, overlapped>>
    BY DEF Quiet, world
  <1>2. CheckpointInv' /\ StepInv' /\ EffectInv'
    BY <1>1, FrameKeeps
  <1>3. SagaTypeOK'
    BY QuietTyped DEF SagaInv, SagaTypeOK
  <1>4. Progress
    BY DEF Progress, Grows
  <1> QED
    BY <1>2, <1>3, <1>4 DEF SagaInv

\* An invocation ends with an acknowledgement or without one.
LEMMA EndKeeps ==
  ASSUME IndInv, SagaInv, NEW t \in tickets, Quiet, UNCHANGED cp,
         Uses(t) \/ (Complete(t) /\ DoneCheckpoint(cp[t.job])),
         KeepInvocations, detached' = detached
  PROVE  SagaInv' /\ Progress
  <1>1. CASE Uses(t)
    <2>1. (\A k \in Jobs : Calm(k)) /\ tickets' \subseteq tickets
      BY <1>1, InvocationCalm
    <2>2. /\ saga' \in [tickets' -> Invocations]
          /\ \A u \in tickets' : saga'[u] = saga[u]
      BY <2>1 DEF KeepInvocations, SagaInv, SagaTypeOK
    <2> QED
      BY <2>1, <2>2, QuietStep DEF Calm
  <1>2. CASE Complete(t) /\ DoneCheckpoint(cp[t.job])
    <2>1. tickets' \subseteq tickets
      BY <1>2 DEF Complete, EndTicket
    <2>2. /\ saga' \in [tickets' -> Invocations]
          /\ \A u \in tickets' : saga'[u] = saga[u]
      BY <2>1 DEF KeepInvocations, SagaInv, SagaTypeOK
    <2>3. t.job \in Jobs /\ rows[t.job] \in Row /\ rows = [k \in Jobs |-> rows[k]]
      BY DEF IndInv, RowsInv, RowInv, HolderInv, Ticket
    <2>4. [Released(rows[t.job], "completed") EXCEPT !.phase = "complete"].state
            = "completed"
      BY <2>3, ReleasedFields DEF TerminalStates, Row
    <2>5. rows'[t.job].state = "completed" /\ \A k \in Jobs \ {t.job} : rows'[k] = rows[k]
      BY <1>2, <2>3, <2>4 DEF Complete, SetRow
    <2>6. \A k \in Jobs :
           /\ Running(rows'[k]) => Running(rows[k]) /\ rows'[k].token = rows[k].token
           /\ rows'[k].state = "completed" =>
                rows[k].state = "completed" \/ DoneCheckpoint(cp[k])
      BY <1>2, <2>5 DEF Running
    <2> QED
      BY <2>1, <2>2, <2>6, QuietStep
  <1> QED
    BY <1>1, <1>2

\* An invocation moves to a plain step without saving anything.
LEMMA MoveKeeps ==
  ASSUME IndInv, SagaInv, NEW t \in tickets, Quiet, UNCHANGED cp,
         NEW pc \in Plain, Goto(t, pc),
         UNCHANGED <<tickets, detached>>, \A k \in Jobs : Calm(k),
         HoldsToken(t) => Fits(pc, cp[t.job])
  PROVE  SagaInv' /\ Progress
  <1>1. /\ saga' \in [tickets' -> Invocations]
        /\ saga'[t].pc = pc
        /\ \A u \in tickets \ {t} : saga'[u] = saga[u]
    BY MovesTo DEF Plain, SagaInv
  <1> QED
    BY <1>1, QuietStep DEF Calm

\* The saga steps that end the invocation or move it to a plain step.
LEMMA QuietSagaKeeps ==
  ASSUME IndInv, SagaInv, NEW t \in tickets,
         \/ SupersedeOwn(t) \/ FailCompensated(t) \/ Finalize(t)
         \/ EndUnacknowledged(t) \/ Heartbeat(t)
         \/ \E delay \in 0..MaxDelay :
              \/ Reassess(t, delay) \/ DeferAdministratively(t, delay)
              \/ Interrupted(t, delay)
              \/ \E retryable \in BOOLEAN :
                   TransitionFails(t, retryable, delay) \/ Raise(t, retryable, delay)
  PROVE  SagaInv' /\ Progress
  <1>1. /\ t.job \in Jobs /\ rows[t.job] \in Row /\ rows = [k \in Jobs |-> rows[k]]
        /\ 0 \in 0..MaxDelay
    BY LedgerAssumption DEF IndInv, RowsInv, RowInv, HolderInv, Ticket
  <1>2. \A pc \in {"ended", "undo_failed", "failing", "superseding", "finalize"} :
          pc \in Plain
    BY DEF Plain, Steps, Calls, HandlerCalls, Transiting
  <1>3. CASE SupersedeOwn(t)
    <2>1. Released(rows[t.job], "superseded").state = "superseded"
      BY <1>1, ReleasedFields DEF TerminalStates
    <2>2. \A k \in Jobs : Calm(k)
      BY <1>1, <1>3, <2>1 DEF SupersedeOwn, Supersede, SetRow, Calm, Running
    <2>3. Fits("ended", cp[t.job])
      BY DEF Fits
    <2> QED
      BY <1>2, <1>3, <2>2, <2>3, MoveKeeps DEF SupersedeOwn, Supersede
  <1>4. CASE Finalize(t)
    <2>1. HoldsToken(t)
      BY <1>4 DEF Finalize, Complete, May, Owns, OwnsAsSampled
    <2>2. DoneCheckpoint(cp[t.job])
      BY <1>4, <2>1, HolderKnows DEF Finalize, At, Fits
    <2> QED
      BY <1>4, <2>2, EndKeeps DEF Finalize, Complete
  <1>5. CASE Heartbeat(t)
    <2>1. \A k \in Jobs : Calm(k)
      BY <1>5, InvocationCalm DEF Heartbeat, Uses
    <2> QED
      BY <1>5, <2>1, QuietStep DEF Heartbeat, Renew, Calm, SagaInv, SagaTypeOK
  <1>6. CASE FailCompensated(t) \/ EndUnacknowledged(t)
    BY <1>1, <1>6, EndKeeps
    DEF FailCompensated, EndUnacknowledged, Uses, Fail, Forget
  <1>7. ASSUME NEW delay \in 0..MaxDelay,
               \/ Reassess(t, delay) \/ DeferAdministratively(t, delay)
               \/ Interrupted(t, delay)
        PROVE  SagaInv' /\ Progress
    BY <1>7, EndKeeps
    DEF Reassess, DeferAdministratively, Interrupted, Uses, DeferUntil,
        DeferWithoutAttempt, Fail
  <1>8. ASSUME NEW delay \in 0..MaxDelay, NEW retryable \in BOOLEAN, Raise(t, retryable, delay)
        PROVE  SagaInv' /\ Progress
    BY <1>8, EndKeeps DEF Raise, Uses, Fail
  <1>9. ASSUME NEW delay \in 0..MaxDelay, NEW retryable \in BOOLEAN,
               TransitionFails(t, retryable, delay)
        PROVE  SagaInv' /\ Progress
    <2>1. CASE Fail(t, retryable, delay) /\ KeepInvocations
      BY <1>9, <2>1, EndKeeps DEF TransitionFails, Uses, Fail
    <2>2. CASE Goto(t, "undo_failed") /\ UNCHANGED vars
      <3>1. HoldsToken(t) => Fits("undo_failed", cp[t.job])
        BY <1>9, HolderKnows DEF TransitionFails, At, Fits
      <3> QED
        BY <1>2, <1>9, <2>2, <3>1, MoveKeeps DEF TransitionFails, vars, Calm
    <2> QED
      BY <1>9, <2>1, <2>2 DEF TransitionFails
  <1> QED
    BY <1>3, <1>4, <1>5, <1>6, <1>7, <1>8, <1>9

\* Building the transition, or finding that none is needed.
LEMMA BuildKeeps ==
  ASSUME IndInv, SagaInv, NEW t \in tickets, Build(t)
  PROVE  SagaInv' /\ Progress
  <1>1. CASE Passes(t) /\ Goto(t, "finalize") /\ UNCHANGED <<vars, cp>>
    <2>1. Fits("finalize", cp[t.job])
      BY <1>1, HolderKnows DEF Build, At, Fits, DoneCheckpoint
    <2>2. "finalize" \in Plain
      BY DEF Plain, Steps, Calls, HandlerCalls, Transiting
    <2> QED
      BY <1>1, <2>1, <2>2, MoveKeeps DEF Build, vars, Calm
  <1>2. CASE ~(Passes(t) /\ Goto(t, "finalize") /\ UNCHANGED <<vars, cp>>)
    BY <1>2, IntentKeeps DEF Build
  <1> QED
    BY <1>1, <1>2

\* Compensating, whether or not the handler settles anything.
LEMMA CompensateKeeps ==
  ASSUME IndInv, SagaInv, NEW t \in tickets, Compensate(t)
  PROVE  SagaInv' /\ Progress
  <1> DEFINE how == IF At(t, "undo_stale") THEN "superseded" ELSE "exhausted"
             pc  == IF At(t, "undo_stale") THEN "superseding" ELSE "failing"
  <1>1. /\ how \in {"exhausted", "superseded"} /\ pc \in {"failing", "superseding"}
        /\ Goto(t, pc) /\ Quiet
        /\ saga[t].pc \in {"undo_failed", "undo_stale"}
        /\ \/ UNCHANGED <<vars, cp>>
           \/ Save(t, [cp[t.job] EXCEPT !.settled = how])
    BY DEF Compensate, At
  <1> HIDE DEF how, pc
  <1>2. CASE UNCHANGED <<vars, cp>>
    <2>1. pc \in Plain /\ Fits(pc, cp[t.job])
      BY <1>1 DEF Plain, Steps, Transiting, Fits
    <2> QED
      BY <1>1, <1>2, <2>1, MoveKeeps DEF vars, Calm
  <1>3. CASE Save(t, [cp[t.job] EXCEPT !.settled = how])
    BY <1>1, <1>3, SettlementKeeps
  <1> QED
    BY <1>1, <1>2, <1>3

-----------------------------------------------------------------------------
(***************************************************************************)
(* The effect and the transition, as the world sees them.                  *)
(***************************************************************************)

\* The invocation that starts to apply is alone: it holds the lease, and an
\* older call that is still in flight would have marked the row.
LEMMA StartApplyKeeps ==
  ASSUME IndInv, SagaInv, NEW t \in tickets, StartApply(t)
  PROVE  SagaInv' /\ Progress
  <1>1. /\ UNCHANGED <<vars, cp>> /\ Quiet /\ HoldsToken(t) /\ At(t, "pending")
        /\ UNCHANGED <<applied, executed, reached, overlapped, tickets, detached, rows>>
    BY DEF StartApply, Passes, Owns, vars, Quiet, world
  <1>2. /\ saga' \in [tickets' -> Invocations]
        /\ saga'[t].pc = "apply"
        /\ \A u \in tickets \ {t} : saga'[u] = saga[u]
    BY <1>1, MovesToApply DEF StartApply, SagaInv
  <1>3. SagaTypeOK' /\ Progress
    BY <1>1, <1>2, QuietTyped DEF SagaInv, SagaTypeOK, Progress, Grows
  <1>4. \A u \in tickets : HoldsToken(u)' <=> HoldsToken(u)
    BY <1>1 DEF HoldsToken
  <1>5. CheckpointInv'
    BY <1>1 DEF SagaInv, CheckpointInv, CheckpointOK, DoneCheckpoint
  <1>6. Fits("pending", cp[t.job])
    BY <1>1, HolderKnows DEF At
  <1>7. StepInv'
    <2> SUFFICES ASSUME NEW u \in tickets
                 PROVE  /\ saga'[u].pc = "applied" => applied[u.job] > 0
                        /\ saga'[u].pc \in Transiting =>
                             /\ cp[u.job].intent # NULL
                             /\ saga'[u].intent = cp[u.job].intent
                        /\ saga'[u].pc = "moved" => u.job \in reached
                        /\ HoldsToken(u)' => Fits(saga'[u].pc, cp[u.job])
      BY <1>1 DEF StepInv, At, Fits, DoneCheckpoint
    <2>1. CASE u = t
      BY <1>2, <1>6, <2>1 DEF Transiting, Fits
    <2>2. CASE u # t
      BY <1>2, <1>4, <2>2 DEF SagaInv, StepInv, At
    <2> QED
      BY <2>1, <2>2
  <1>8. EffectInv'
    <2> SUFFICES ASSUME NEW j \in Jobs \ overlapped
                 PROVE  /\ applied[j] <= 1
                        /\ \A u \in tickets : u.job = j =>
                             /\ saga'[u].pc = "pending" /\ HoldsToken(u) => applied[j] = 0
                             /\ saga'[u].pc = "apply" =>
                                  /\ applied[j] = 0
                                  /\ \A v \in tickets : v.job = j /\ v # u =>
                                       saga'[v].pc # "apply" /\ ~HoldsToken(v)
      BY <1>1, <1>4 DEF EffectInv, SoleApply, At
    <2>1. CASE j # t.job
      BY <1>2, <2>1 DEF SagaInv, EffectInv, SoleApply, At
    <2>2. CASE j = t.job
      <3>1. applied[j] = 0
        BY <1>1, <2>2 DEF SagaInv, EffectInv
      <3>2. \A v \in tickets \ {t} : v.job = j => ~At(v, "apply") /\ ~HoldsToken(v)
        BY <1>1, <2>2, OneHolder DEF SagaInv, EffectInv, SoleApply, IndInv
      <3> QED
        BY <1>2, <2>2, <3>1, <3>2 DEF At
    <2> QED
      BY <2>1, <2>2
  <1> QED
    BY <1>3, <1>5, <1>7, <1>8 DEF SagaInv

\* Outside overlapped rows, the effect is committed by the sole apply call.
LEMMA ApplyCommitsKeeps ==
  ASSUME IndInv, SagaInv, NEW t \in tickets, ApplyCommits(t)
  PROVE  SagaInv' /\ Progress
  <1>1. /\ At(t, "apply") /\ applied[t.job] < MaxApplied
        /\ applied' = [applied EXCEPT ![t.job] = @ + 1] /\ Goto(t, "applied")
        /\ UNCHANGED <<cp, executed, reached, overlapped, tickets, detached, rows,
                       monitored, watched, recycle, stranded, mode, revision>>
    BY DEF ApplyCommits, vars, watch
  <1>2. "applied" \in Steps /\ t.job \in Jobs /\ applied \in [Jobs -> 0..MaxApplied]
        /\ MaxApplied \in Nat
    BY WorkerAssumption, HolderKnows
    DEF Steps, Calls, HandlerCalls, SagaInv, SagaTypeOK
  <1>3. /\ saga' \in [tickets' -> Invocations]
        /\ saga'[t].pc = "applied"
        /\ \A u \in tickets \ {t} : saga'[u] = saga[u]
    BY <1>1, <1>2, MovesTo DEF SagaInv
  <1>4. /\ applied' \in [Jobs -> 0..MaxApplied]
        /\ applied'[t.job] = applied[t.job] + 1 /\ applied'[t.job] > 0
        /\ \A k \in Jobs : k # t.job => applied'[k] = applied[k]
    BY <1>1, <1>2
  <1>5. SagaTypeOK' /\ Progress
    BY <1>1, <1>3, <1>4 DEF SagaInv, SagaTypeOK, Progress, Grows
  <1>6. \A u \in tickets : (HoldsToken(u)' <=> HoldsToken(u)) /\ u.job \in Jobs
    BY <1>1 DEF HoldsToken, IndInv, HolderInv, Ticket
  <1>7. \A k \in Jobs : applied[k] > 0 => applied'[k] > 0
    BY <1>4
  <1>8. CheckpointInv'
    BY <1>1, <1>7 DEF SagaInv, CheckpointInv, CheckpointOK, DoneCheckpoint
  <1>9. HoldsToken(t) => Fits("apply", cp[t.job])
    BY <1>1, HolderKnows DEF At
  <1>10. StepInv'
    <2> SUFFICES ASSUME NEW u \in tickets
                 PROVE  /\ saga'[u].pc = "applied" => applied'[u.job] > 0
                        /\ saga'[u].pc \in Transiting =>
                             /\ cp[u.job].intent # NULL
                             /\ saga'[u].intent = cp[u.job].intent
                        /\ saga'[u].pc = "moved" => u.job \in reached
                        /\ HoldsToken(u)' => Fits(saga'[u].pc, cp[u.job])
      BY <1>1 DEF StepInv, At, Fits, DoneCheckpoint
    <2>1. CASE u = t
      BY <1>3, <1>4, <1>6, <1>9, <2>1 DEF Transiting, Fits
    <2>2. CASE u # t
      BY <1>3, <1>6, <1>7, <2>2 DEF SagaInv, StepInv, At
    <2> QED
      BY <2>1, <2>2
  <1>11. EffectInv'
    <2> SUFFICES ASSUME NEW j \in Jobs \ overlapped
                 PROVE  /\ applied'[j] <= 1
                        /\ \A u \in tickets : u.job = j =>
                             /\ saga'[u].pc = "pending" /\ HoldsToken(u) => applied'[j] = 0
                             /\ saga'[u].pc = "apply" =>
                                  /\ applied'[j] = 0
                                  /\ \A v \in tickets : v.job = j /\ v # u =>
                                       saga'[v].pc # "apply" /\ ~HoldsToken(v)
      BY <1>1, <1>6 DEF EffectInv, SoleApply, At
    <2>1. CASE j # t.job
      <3>1. applied'[j] = applied[j] /\ \A u \in tickets : u.job = j => saga'[u] = saga[u]
        BY <1>3, <1>4, <2>1
      <3> QED
        BY <3>1 DEF SagaInv, EffectInv, SoleApply, At
    <2>2. CASE j = t.job
      <3>1. SoleApply(t)
        BY <1>1, <2>2 DEF SagaInv, EffectInv
      <3>2. applied'[j] = 1
        BY <1>4, <2>2, <3>1 DEF SoleApply
      <3> QED
        BY <1>3, <2>2, <3>1, <3>2 DEF SoleApply, At
    <2> QED
      BY <2>1, <2>2
  <1> QED
    BY <1>5, <1>8, <1>10, <1>11 DEF SagaInv

\* Whoever executes a transition executes the intent that the row journaled.
LEMMA TransitionCommitsKeeps ==
  ASSUME IndInv, SagaInv, NEW t \in tickets, TransitionCommits(t)
  PROVE  SagaInv' /\ Progress
  <1> DEFINE task == TaskOf[t.job]
             intent == saga[t].intent
  <1>1. /\ At(t, "transition")
        /\ UNCHANGED <<cp, applied, overlapped, tickets, detached, rows,
                       monitored, watched, recycle, stranded, mode>>
    BY DEF TransitionCommits, vars, watch
  <1>2. /\ t.job \in Jobs /\ task \in Tasks /\ cp[t.job] \in Checkpoints
        /\ intent # NULL /\ intent = cp[t.job].intent
        /\ intent \in Revisions /\ intent < MaxRevision
        /\ HoldsToken(t) => Fits("transition", cp[t.job])
    BY <1>1, HolderKnows, LedgerAssumption
    DEF At, Transiting, CheckpointOK, Checkpoints, Nullable
  <1>3. PICK pc \in {"moved", "undo_stale"} : Goto(t, pc)
    BY DEF TransitionCommits
  <1>4. /\ saga' \in [tickets' -> Invocations]
        /\ saga'[t].pc = pc /\ saga'[t].intent = intent
        /\ \A u \in tickets \ {t} : saga'[u] = saga[u]
    BY <1>1, <1>3, MovesTo DEF SagaInv, Steps, Calls, HandlerCalls
  <1>5. /\ executed' \in [Jobs -> SUBSET Revisions]
        /\ \A k \in Jobs : executed'[k] \subseteq executed[k] \cup {cp[k].intent}
        /\ reached \subseteq reached' /\ reached' \subseteq Jobs
        /\ revision' \in [Tasks -> Revisions]
        /\ pc = "moved" => t.job \in reached'
    <2>1. CASE /\ intent = revision[task]
               /\ executed' = [executed EXCEPT ![t.job] = @ \cup {intent}]
               /\ reached' = reached \cup {t.job}
               /\ revision' = [revision EXCEPT ![task] = @ + 1]
      <3>1. intent + 1 \in Revisions
        BY <1>2, WorkerAssumption DEF Revisions
      <3> QED
        BY <1>2, <2>1, <3>1 DEF SagaInv, SagaTypeOK
    <2>2. CASE UNCHANGED <<executed, reached, revision>> /\ t.job \in reached
      BY <2>2 DEF SagaInv, SagaTypeOK
    <2>3. CASE UNCHANGED <<executed, reached, revision>> /\ Goto(t, "undo_stale")
      <3>1. pc = "undo_stale"
        BY <1>1, <1>4, <2>3, MovesTo DEF SagaInv, Steps, Calls, HandlerCalls
      <3> QED
        BY <2>3, <3>1 DEF SagaInv, SagaTypeOK
    <2> QED
      BY <2>1, <2>2, <2>3 DEF TransitionCommits
  <1>6. SagaTypeOK' /\ Progress
    BY <1>1, <1>4, <1>5 DEF SagaInv, SagaTypeOK, Progress, Grows
  <1>7. \A u \in tickets : HoldsToken(u)' <=> HoldsToken(u)
    BY <1>1 DEF HoldsToken
  <1>8. CheckpointInv'
    BY <1>1, <1>5 DEF SagaInv, CheckpointInv, CheckpointOK, DoneCheckpoint
  <1>9. StepInv'
    <2> SUFFICES ASSUME NEW u \in tickets
                 PROVE  /\ saga'[u].pc = "applied" => applied[u.job] > 0
                        /\ saga'[u].pc \in Transiting =>
                             /\ cp[u.job].intent # NULL
                             /\ saga'[u].intent = cp[u.job].intent
                        /\ saga'[u].pc = "moved" => u.job \in reached'
                        /\ HoldsToken(u)' => Fits(saga'[u].pc, cp[u.job])
      BY <1>1 DEF StepInv, At, Fits, DoneCheckpoint
    <2>1. CASE u = t
      BY <1>2, <1>4, <1>5, <1>7, <2>1 DEF Fits
    <2>2. CASE u # t
      BY <1>4, <1>5, <1>7, <2>2 DEF SagaInv, StepInv, At
    <2> QED
      BY <2>1, <2>2
  <1>10. EffectInv'
    BY <1>1, <1>4, <1>7 DEF SagaInv, EffectInv, SoleApply, At
  <1> QED
    BY <1>6, <1>8, <1>9, <1>10 DEF SagaInv

\* Others may move the task at any time.
LEMMA ExternalMoveKeeps ==
  ASSUME IndInv, SagaInv, NEW task \in Tasks, NEW there \in SUBSET Jobs,
         ExternalMove(task, there)
  PROVE  SagaInv' /\ Progress
  <1>1. /\ UNCHANGED <<cp, saga, applied, executed, overlapped, tickets, detached, rows,
                       monitored, watched, recycle, stranded, mode>>
        /\ reached' = reached \cup there
        /\ revision' = [revision EXCEPT ![task] = @ + 1]
        /\ revision[task] < MaxRevision
    BY DEF ExternalMove, vars, watch
  <1>2. revision' \in [Tasks -> Revisions]
    BY <1>1, WorkerAssumption DEF SagaInv, SagaTypeOK, Revisions
  <1>3. SagaTypeOK' /\ Progress
    BY <1>1, <1>2 DEF SagaInv, SagaTypeOK, Progress, Grows
  <1>4. \A u \in tickets : HoldsToken(u)' <=> HoldsToken(u)
    BY <1>1 DEF HoldsToken
  <1>5. CheckpointInv'
    BY <1>1 DEF SagaInv, CheckpointInv, CheckpointOK, DoneCheckpoint
  <1>6. StepInv'
    BY <1>1, <1>4 DEF SagaInv, StepInv, At, Fits, DoneCheckpoint
  <1>7. EffectInv'
    BY <1>1, <1>4 DEF SagaInv, EffectInv, SoleApply, At
  <1> QED
    BY <1>3, <1>5, <1>6, <1>7 DEF SagaInv

-----------------------------------------------------------------------------
(***************************************************************************)
(* Claims, timed-out calls and the process.                                *)
(***************************************************************************)

\* A claim gives the lease to a new invocation and to no other.
LEMMA ClaimFacts ==
  ASSUME IndInv, NEW o \in Owners, NEW j \in Jobs, NEW tok \in Tokens,
         ClaimNext(o, j, tok)
  PROVE  /\ \A u \in tickets : HoldsToken(u)' => HoldsToken(u)
         /\ \A k \in Jobs : rows'[k].state = "completed" => rows[k].state = "completed"
         /\ [job |-> j, token |-> tok, owner |-> o] \notin tickets
  <1> DEFINE S == ExpiredJobs(LaneOf(j))
             rec == RecoverAll(S)
  <1>1. /\ rows' = [rec EXCEPT ![j] = Claimed(rec[j], o, tok)]
        /\ tok \in FreshTokens /\ Claimable(rec, j, LaneOf(j))
    BY DEF ClaimNext
  <1>2. \A k \in Jobs : rows[k] \in Row
    BY DEF IndInv, RowsInv, RowInv
  <1>3. ASSUME NEW k \in Jobs
        PROVE  /\ k \in S => rec[k].state \in {"exhausted", "queued"} /\ rec[k] \in Row
               /\ k \notin S => rec[k] = rows[k]
    BY <1>2, ReleasedFields DEF RecoverAll, Recovered, TerminalStates, ActiveStates
  <1>4. \A u \in tickets : u.job \in Jobs /\ u.token # tok /\ u.token \in Tokens
    BY <1>1 DEF FreshTokens, IndInv, HolderInv, Ticket
  <1>5. DOMAIN rec = Jobs
    BY DEF RecoverAll
  <1> HIDE DEF rec, S
  <1>6. rec[j] \in Row
    BY <1>2, <1>3
  <1>7. Claimed(rec[j], o, tok).token = tok /\ Claimed(rec[j], o, tok).state = "running"
    BY <1>6 DEF Claimed, Row
  <1>8. rows'[j] = Claimed(rec[j], o, tok) /\ \A k \in Jobs \ {j} : rows'[k] = rec[k]
    BY <1>1, <1>5
  <1>9. ASSUME NEW u \in tickets, HoldsToken(u)' PROVE HoldsToken(u)
    <2>1. u.job # j
      BY <1>4, <1>7, <1>8, <1>9 DEF HoldsToken
    <2> QED
      BY <1>3, <1>4, <1>8, <1>9, <2>1 DEF HoldsToken, Running
  <1>10. \A k \in Jobs : rows'[k].state = "completed" => rows[k].state = "completed"
    BY <1>3, <1>7, <1>8
  <1> QED
    BY <1>4, <1>9, <1>10

\* A claim keeps the invariant: it marks the row if an apply is in flight.
LEMMA SagaClaimKeeps ==
  ASSUME IndInv, SagaInv, NEW o \in Owners, NEW j \in Jobs, NEW tok \in Tokens,
         Claim(o, j, tok)
  PROVE  SagaInv' /\ Progress
  <1> DEFINE n == [job |-> j, token |-> tok, owner |-> o]
  <1>1. /\ ClaimNext(o, j, tok)
        /\ saga' = [u \in tickets' |-> IF u \in tickets THEN saga[u] ELSE NewInvocation]
        /\ overlapped \subseteq overlapped' /\ overlapped' \subseteq Jobs
        /\ (\E u \in tickets : u.job = j /\ At(u, "apply")) => j \in overlapped'
        /\ UNCHANGED <<cp, monitored, watched, recycle, stranded, mode, applied,
                       executed, reached, revision, detached>>
        /\ tickets' = tickets \cup {n}
    BY DEF Claim, ClaimNext, watch, world, SagaInv, SagaTypeOK
  <1>2. /\ \A u \in tickets : HoldsToken(u)' => HoldsToken(u)
        /\ \A k \in Jobs : rows'[k].state = "completed" => rows[k].state = "completed"
        /\ n \notin tickets
    BY <1>1, ClaimFacts
  <1>3. NewInvocation \in Invocations /\ NewInvocation.pc = "claimed"
    BY DEF NewInvocation, Invocations, Nullable, Steps, Calls, HandlerCalls
  <1>4. n.job = j
    OBVIOUS
  <1> HIDE DEF n
  <1>5. /\ saga' \in [tickets' -> Invocations]
        /\ saga'[n].pc = "claimed" /\ \A u \in tickets : saga'[u] = saga[u]
    BY <1>1, <1>2, <1>3 DEF SagaInv, SagaTypeOK
  <1>6. SagaTypeOK' /\ Progress
    BY <1>1, <1>5 DEF SagaInv, SagaTypeOK, Progress, Grows
  <1>7. CheckpointInv'
    BY <1>1, <1>2 DEF SagaInv, CheckpointInv, CheckpointOK, DoneCheckpoint
  <1>8. StepInv'
    <2> SUFFICES ASSUME NEW u \in tickets'
                 PROVE  /\ saga'[u].pc = "applied" => applied[u.job] > 0
                        /\ saga'[u].pc \in Transiting =>
                             /\ cp[u.job].intent # NULL
                             /\ saga'[u].intent = cp[u.job].intent
                        /\ saga'[u].pc = "moved" => u.job \in reached
                        /\ HoldsToken(u)' => Fits(saga'[u].pc, cp[u.job])
      BY <1>1 DEF StepInv, At, Fits, DoneCheckpoint
    <2>1. CASE u = n
      BY <1>5, <2>1 DEF Transiting, Fits
    <2>2. CASE u \in tickets
      BY <1>2, <1>5, <2>2 DEF SagaInv, StepInv, At
    <2> QED
      BY <1>1, <2>1, <2>2
  <1>9. EffectInv'
    <2> SUFFICES ASSUME NEW k \in Jobs \ overlapped'
                 PROVE  /\ applied[k] <= 1
                        /\ \A u \in tickets' : u.job = k =>
                             /\ saga'[u].pc = "pending" /\ HoldsToken(u)' => applied[k] = 0
                             /\ saga'[u].pc = "apply" =>
                                  /\ applied[k] = 0
                                  /\ \A v \in tickets' : v.job = k /\ v # u =>
                                       saga'[v].pc # "apply" /\ ~HoldsToken(v)'
      BY <1>1 DEF EffectInv, SoleApply, At
    <2>1. k \notin overlapped
      BY <1>1
    <2>2. CASE k = j
      <3>1. \A u \in tickets' : u.job = k => saga'[u].pc # "apply"
        BY <1>1, <1>5, <2>2 DEF At
      <3> QED
        BY <1>1, <1>2, <1>5, <2>1, <3>1 DEF SagaInv, EffectInv, At
    <2>3. CASE k # j
      <3>1. \A u \in tickets' : u.job = k => u \in tickets
        BY <1>1, <1>4, <2>3
      <3> QED
        BY <1>2, <1>5, <2>1, <3>1 DEF SagaInv, EffectInv, SoleApply, At
    <2> QED
      BY <2>2, <2>3
  <1> QED
    BY <1>6, <1>7, <1>8, <1>9 DEF SagaInv

\* A timed-out call is fenced, and settled at most once.
LEMMA TimedOutKeeps ==
  ASSUME IndInv, SagaInv, NEW t \in tickets, TimedOut(t)
  PROVE  SagaInv' /\ Progress
  <1> USE DEF watch, world
  <1>1. ASSUME UNCHANGED rows PROVE \A k \in Jobs : Calm(k)
    BY <1>1 DEF Calm
  <1>2. CASE QuarantineCall(t) \/ QuarantineUnwatched(t)
    <2>1. /\ UNCHANGED <<cp, applied, executed, reached, overlapped, tickets>>
          /\ detached' = detached \cup {t}
          /\ saga' = [saga EXCEPT ![t].fenced = TRUE] /\ Quarantine(t)
      BY <1>2 DEF QuarantineCall, QuarantineUnwatched, Quarantine, Quiet
    <2>2. \A k \in Jobs : Calm(k)
      BY <2>1, InvocationCalm DEF Uses
    <2>3. /\ saga' \in [tickets' -> Invocations]
          /\ \A u \in tickets : /\ saga'[u].pc = saga[u].pc
                                /\ saga'[u].intent = saga[u].intent
      BY <2>1, Fences DEF SagaInv
    <2>4. CheckpointInv' /\ StepInv' /\ EffectInv'
      BY <2>1, <2>2, <2>3, FrameKeeps DEF Calm
    <2>5. SagaTypeOK' /\ Progress
      BY <1>2, <2>1, <2>3
      DEF QuarantineCall, QuarantineUnwatched, Quiet, SagaInv, SagaTypeOK, Progress,
          Grows
    <2> QED
      BY <2>4, <2>5 DEF SagaInv
  <1>3. CASE QuarantineUnavailable(t)
    <2>1. /\ saga' \in [tickets' -> Invocations]
          /\ \A u \in tickets : /\ saga'[u].pc = saga[u].pc
                                /\ saga'[u].intent = saga[u].intent
      BY <1>3, Fences DEF QuarantineUnavailable, vars, SagaInv
    <2> QED
      BY <1>1, <1>3, <2>1, QuietStep DEF QuarantineUnavailable, vars, Calm
  <1>4. CASE SettleLost(t) \/ \E heard \in BOOLEAN : RequestRecycle(t, heard)
    <2>1. /\ UNCHANGED <<cp, applied, executed, reached, overlapped, tickets, saga, rows>>
          /\ saga' \in [tickets' -> Invocations]
      BY <1>4 DEF SettleLost, RequestRecycle, vars, SagaInv, SagaTypeOK
    <2>2. CheckpointInv' /\ StepInv' /\ EffectInv'
      BY <1>1, <2>1, FrameKeeps DEF Calm
    <2>3. t.owner \in Owners
      BY DEF IndInv, HolderInv, Ticket
    <2>4. SagaTypeOK' /\ Progress
      BY <1>4, <2>1, <2>3
      DEF SettleLost, RequestRecycle, vars, SagaInv, SagaTypeOK, Progress, Grows
    <2> QED
      BY <2>2, <2>4 DEF SagaInv
  <1>5. ASSUME Uses(t), UNCHANGED cp, KeepInvocations, EndMonitors(t),
               detached' = detached \ {t}
        PROVE  SagaInv' /\ Progress
    <2>1. (\A k \in Jobs : Calm(k)) /\ tickets' \subseteq tickets
      BY <1>5, InvocationCalm
    <2>2. /\ saga' \in [tickets' -> Invocations]
          /\ \A u \in tickets' : saga'[u] = saga[u]
      BY <1>5, <2>1 DEF KeepInvocations, SagaInv, SagaTypeOK
    <2>3. UNCHANGED <<applied, executed, reached, overlapped>>
      BY <1>5 DEF EndMonitors
    <2>4. CheckpointInv' /\ StepInv' /\ EffectInv'
      BY <1>5, <2>1, <2>2, <2>3, FrameKeeps DEF Calm
    <2>5. SagaTypeOK' /\ Progress
      BY <1>5, <2>2 DEF EndMonitors, SagaInv, SagaTypeOK, Progress, Grows
    <2> QED
      BY <2>4, <2>5 DEF SagaInv
  <1>6. CASE \E retryable \in BOOLEAN, delay \in 0..MaxDelay : SettleBad(t, retryable, delay)
    BY <1>5, <1>6 DEF SettleBad, Uses, SettleFailed
  <1>7. CASE SettleOk(t) /\ ~At(t, "applied")
    BY <1>5, <1>7 DEF SettleOk, Uses, SettleReturned
  <1>8. CASE SettleOk(t) /\ At(t, "applied")
    <2> DEFINE c == [cp[t.job] EXCEPT !.effect = TRUE]
    <2>1. /\ SettleReturned(t, "working") /\ SetCheckpoint(t, c)
          /\ KeepInvocations /\ EndMonitors(t)
          /\ detached' = detached \ {t} /\ HoldsToken(t)
          /\ t \notin tickets'
          /\ UNCHANGED <<applied, executed, reached, overlapped>>
      BY <1>8 DEF SettleOk, SettleReturned, EndMonitors, EndTicket
    <2>2. (\A k \in Jobs : Calm(k)) /\ tickets' \subseteq tickets
      BY <2>1, InvocationCalm DEF Uses
    <2>3. /\ saga' \in [tickets' -> Invocations]
          /\ \A u \in tickets' : saga'[u] = saga[u]
      BY <2>1, <2>2 DEF KeepInvocations, SagaInv, SagaTypeOK
    <2>4. /\ t.job \in Jobs /\ cp[t.job] \in Checkpoints /\ cp[t.job].settled = "no"
          /\ CheckpointOK(cp[t.job], t.job) /\ applied[t.job] > 0
          /\ \A u \in tickets : u.job \in Jobs
      BY <1>8, <2>1, HolderKnows DEF At, Fits
    <2>5. /\ c \in Checkpoints /\ c.effect /\ c.verified = cp[t.job].verified
          /\ c.intent = cp[t.job].intent /\ c.moved = cp[t.job].moved
      BY <2>4 DEF Checkpoints
    <2>6. /\ cp' \in [Jobs -> Checkpoints] /\ cp'[t.job] = c
          /\ \A k \in Jobs \ {t.job} : cp'[k] = cp[k]
      BY <2>1, <2>4, <2>5 DEF SetCheckpoint, SagaInv, SagaTypeOK
    <2> HIDE DEF c
    <2>7. CheckpointOK(c, t.job) /\ Grows(cp[t.job], c)
      BY <2>4, <2>5 DEF CheckpointOK, Grows
    <2>8. SagaTypeOK'
      BY <2>1, <2>3, <2>6 DEF EndMonitors, SagaInv, SagaTypeOK
    <2>9. Progress
      BY <2>6, <2>7 DEF Progress, Grows
    <2>10. CheckpointInv'
      <3>1. rows[t.job].state # "completed"
        BY <2>1 DEF HoldsToken, Running
      <3>2. ASSUME NEW k \in Jobs
            PROVE  /\ CheckpointOK(cp'[k], k)
                   /\ rows'[k].state = "completed" => DoneCheckpoint(cp'[k])
        BY <2>2, <2>6, <2>7, <3>1 DEF SagaInv, CheckpointInv, Calm
      <3> QED
        BY <2>1, <3>2 DEF CheckpointInv, CheckpointOK, DoneCheckpoint
    <2>11. \A u \in tickets' : HoldsToken(u)' => HoldsToken(u) /\ u.job # t.job
      <3>1. \A u \in tickets' : HoldsToken(u)' => HoldsToken(u)
        BY <2>2, <2>4 DEF Calm, HoldsToken
      <3> QED
        BY <2>1, <2>2, <3>1, OneHolder DEF IndInv
    <2>12. StepInv'
      <3> SUFFICES ASSUME NEW u \in tickets'
                   PROVE  /\ saga'[u].pc = "applied" => applied[u.job] > 0
                          /\ saga'[u].pc \in Transiting =>
                               /\ cp'[u.job].intent # NULL
                               /\ saga'[u].intent = cp'[u.job].intent
                          /\ saga'[u].pc = "moved" => u.job \in reached
                          /\ HoldsToken(u)' => Fits(saga'[u].pc, cp'[u.job])
        BY <2>1 DEF StepInv, At, Fits, DoneCheckpoint
      <3>1. u \in tickets /\ saga'[u] = saga[u] /\ u.job \in Jobs
        BY <2>2, <2>3, <2>4
      <3>2. cp'[u.job].intent = cp[u.job].intent
        BY <2>5, <2>6, <3>1
      <3> QED
        BY <2>6, <2>11, <3>1, <3>2 DEF SagaInv, StepInv, At
    <2>13. EffectInv'
      BY <2>1, <2>2, <2>3, <2>11 DEF SagaInv, EffectInv, SoleApply, At
    <2> QED
      BY <2>8, <2>9, <2>10, <2>12, <2>13 DEF SagaInv
  <1> QED
    BY <1>2, <1>3, <1>4, <1>6, <1>7, <1>8 DEF TimedOut

\* Signals and deaths of the process, and the other ledger operations.
LEMMA OutsideKeeps ==
  ASSUME IndInv, SagaInv,
         LedgerStep \/ \E o \in Owners : Drain(o) \/ Interrupt(o) \/ Die(o) \/ RestartFails(o)
  PROVE  SagaInv' /\ Progress
  <1> USE DEF world
  <1>1. CASE LedgerStep
    <2>1. (\A k \in Jobs : Calm(k)) /\ tickets' = tickets
      BY <1>1, LedgerCalm
    <2>2. UNCHANGED sagaVars /\ detached' = detached
      BY <1>1
      DEF LedgerStep, Enqueue, Supersede, Cancel, SupersedeTask, RecoverExpired,
          RecoverAbandoned, Tick, StartProcess, FinishStart
    <2>3. Quiet /\ UNCHANGED <<cp, saga>> /\ saga' \in [tickets' -> Invocations]
      BY <2>1, <2>2 DEF sagaVars, Quiet, watch, SagaInv, SagaTypeOK
    <2> QED
      BY <2>1, <2>2, <2>3, QuietStep DEF Calm
  <1>2. ASSUME NEW o \in Owners, Drain(o) \/ Interrupt(o) \/ Die(o) \/ RestartFails(o)
        PROVE  SagaInv' /\ Progress
    <2>1. /\ UNCHANGED <<cp, applied, executed, reached, overlapped, rows>>
          /\ tickets' \subseteq tickets
      BY <1>2 DEF Drain, Interrupt, Die, RestartFails, Crash, watch, vars
    <2>2. /\ saga' \in [tickets' -> Invocations]
          /\ \A u \in tickets' : saga'[u] = saga[u]
      BY <1>2, <2>1
      DEF Drain, Interrupt, Die, RestartFails, vars, KeepInvocations, SagaInv, SagaTypeOK
    <2>3. CheckpointInv' /\ StepInv' /\ EffectInv'
      BY <2>1, <2>2, FrameKeeps
    <2>4. mode' \in [Owners -> {"accepting", "draining", "interrupted"}]
      BY <1>2 DEF Drain, Interrupt, Die, RestartFails, SagaInv, SagaTypeOK
    <2>5. monitored' \subseteq detached' /\ watched' \subseteq detached'
          /\ recycle' \subseteq Owners /\ stranded' \subseteq detached'
          /\ revision' = revision
      BY <1>2 DEF Drain, Interrupt, Die, RestartFails, Crash, watch, vars, SagaInv, SagaTypeOK
    <2>6. SagaTypeOK' /\ Progress
      BY <2>1, <2>2, <2>4, <2>5 DEF SagaInv, SagaTypeOK, Progress, Grows
    <2> QED
      BY <2>3, <2>6 DEF SagaInv
  <1> QED
    BY <1>1, <1>2

\* Every step of the worker keeps the invariant and the progress made.
LEMMA SagaStepKeeps ==
  ASSUME IndInv, SagaInv, [SagaNext]_allVars
  PROVE  SagaInv' /\ Progress
  <1>1. CASE UNCHANGED allVars
    <2>1. Quiet /\ UNCHANGED <<cp, saga, rows, tickets, detached>>
      BY <1>1 DEF allVars, vars, sagaVars, Quiet, watch, world
    <2> QED
      BY <2>1, QuietStep DEF SagaInv, SagaTypeOK
  <1>2. ASSUME NEW t \in tickets, Saga(t) PROVE SagaInv' /\ Progress
    BY <1>2, RevalidateKeeps, EffectKeeps, VerifyKeeps, BuildKeeps, OutcomeKeeps,
       CompensateKeeps, QuietSagaKeeps, StartApplyKeeps, ApplyCommitsKeeps,
       TransitionCommitsKeeps
    DEF Saga
  <1> QED
    BY <1>1, <1>2, SagaClaimKeeps, TimedOutKeeps, ExternalMoveKeeps, OutsideKeeps
    DEF SagaNext

\* The empty ledger satisfies it.
LEMMA InitSagaInv == SagaInit => SagaInv
  <1> SUFFICES ASSUME SagaInit PROVE SagaInv
    OBVIOUS
  <1>1. /\ NoCheckpoint \in Checkpoints
        /\ ~NoCheckpoint.effect /\ ~NoCheckpoint.verified /\ NoCheckpoint.intent = NULL
        /\ ~NoCheckpoint.moved
    BY DEF NoCheckpoint, Checkpoints, Nullable
  <1>2. 0 \in Revisions /\ 0 \in 0..MaxApplied
    BY WorkerAssumption DEF Revisions
  <1>3. tickets = {} /\ \A j \in Jobs : rows[j].state = "absent"
    BY DEF SagaInit, Init, NoRow
  <1>4. saga \in [tickets -> Invocations]
    BY <1>3 DEF SagaInit
  <1>5. SagaTypeOK
    BY <1>1, <1>2, <1>3, <1>4 DEF SagaInit, SagaTypeOK
  <1>6. CheckpointInv
    BY <1>1, <1>3 DEF SagaInit, CheckpointInv, CheckpointOK
  <1>7. StepInv /\ EffectInv
    BY <1>3 DEF SagaInit, StepInv, EffectInv
  <1> QED
    BY <1>5, <1>6, <1>7 DEF SagaInv

\* An invocation starts a transition only as it saves a checkpoint.
LEMMA TransitionEntered ==
  ASSUME IndInv, SagaInv, SagaNext, NEW u \in tickets \cap tickets',
         ~At(u, "transition"), saga'[u].pc = "transition"
  PROVE  \E c \in Checkpoints : Save(u, c)
  <1>1. saga \in [tickets -> Invocations] /\ saga[u].pc # "transition"
    BY DEF SagaInv, SagaTypeOK, At
  <1>2. ~KeepInvocations /\ ~UNCHANGED saga
    BY <1>1 DEF KeepInvocations
  <1>3. \A t \in tickets, pc \in Steps \ {"transition"} :
          Goto(t, pc) => tickets' # tickets
    BY <1>1, MovesTo DEF SagaInv
  <1>4. \A t \in tickets :
          \/ saga' = [saga EXCEPT ![t].fenced = TRUE]
          \/ saga' = [saga EXCEPT ![t].pc = "apply", ![t].authority = TRUE]
          => tickets' # tickets
    BY <1>1, Fences, MovesToApply DEF SagaInv
  <1>5. {"ended", "verify", "pending", "applied", "build", "finalize", "moved",
         "undo_stale", "undo_failed", "failing", "superseding"}
          \subseteq Steps \ {"transition"}
    BY DEF Steps, Calls, HandlerCalls
  <1>6. ASSUME NEW o \in Owners, NEW j \in Jobs, NEW tok \in Tokens PROVE ~Claim(o, j, tok)
    BY <1>1 DEF Claim
  <1>7. ~LedgerStep /\ (\A task \in Tasks, there \in SUBSET Jobs : ~ExternalMove(task, there))
        /\ \A o \in Owners : ~Drain(o) /\ ~Interrupt(o) /\ ~Die(o) /\ ~RestartFails(o)
    BY <1>2 DEF LedgerStep, sagaVars, ExternalMove, Drain, Interrupt, Die,
           RestartFails
  <1>8. PICK t \in tickets : Saga(t) \/ TimedOut(t)
    BY <1>6, <1>7 DEF SagaNext
  <1>9. ~TimedOut(t)
    BY <1>2, <1>4, <1>8
    DEF TimedOut, QuarantineCall, QuarantineUnwatched, QuarantineUnavailable,
        Quarantine, SettleOk, SettleLost, RequestRecycle, SettleBad, vars
  <1>10. /\ ~FailCompensated(t) /\ ~Finalize(t) /\ ~EndUnacknowledged(t) /\ ~Heartbeat(t)
         /\ \A delay \in 0..MaxDelay :
              /\ ~Reassess(t, delay) /\ ~DeferAdministratively(t, delay)
              /\ ~Interrupted(t, delay)
              /\ \A retryable \in BOOLEAN : ~Raise(t, retryable, delay)
    BY <1>2
    DEF FailCompensated, Finalize, EndUnacknowledged, Heartbeat, Reassess,
        DeferAdministratively, Interrupted, Raise
  <1>11. \A delay \in 0..MaxDelay, retryable \in BOOLEAN :
           ~TransitionFails(t, retryable, delay)
    BY <1>2, <1>3, <1>5 DEF TransitionFails, vars
  <1>12. ~SupersedeOwn(t) /\ ~StartApply(t) /\ ~ApplyCommits(t) /\ ~TransitionCommits(t)
    BY <1>3, <1>4, <1>5
    DEF SupersedeOwn, Supersede, StartApply, ApplyCommits, TransitionCommits, vars
  <1>13. ~Inspect(t) /\ ~ApplyReturns(t) /\ ~Verify(t) /\ ~TransitionReturns(t)
    BY <1>3, <1>5
    DEF Inspect, ApplyReturns, Verify, TransitionReturns, Save, Checkpoint
  <1>14. ~Compensate(t)
    BY <1>3, <1>5 DEF Compensate, Save, Checkpoint, vars
  <1>15. Revalidate(t) \/ Build(t)
    BY <1>8, <1>9, <1>10, <1>11, <1>12, <1>13, <1>14 DEF Saga
  <1> DEFINE now == revision[TaskOf[t.job]]
             d == [NoCheckpoint EXCEPT !.effect = TRUE, !.verified = TRUE, !.intent = now]
  <1>16. /\ t.job \in Jobs /\ cp[t.job] \in Checkpoints /\ now \in Revisions
         /\ saga[t] \in Invocations
    BY HolderKnows, LedgerAssumption DEF SagaInv, SagaTypeOK
  <1>17. d \in Checkpoints
    BY <1>16 DEF NoCheckpoint, Checkpoints, Nullable
  <1>18. Save(t, cp[t.job]) \/ Save(t, d)
    BY <1>3, <1>5, <1>15 DEF Revalidate, Build, vars
  <1>19. u = t
    BY <1>1, <1>15 DEF Revalidate, Build, Goto
  <1> QED
    BY <1>16, <1>17, <1>18, <1>19

-----------------------------------------------------------------------------
(***************************************************************************)
(* The theorems.                                                           *)
(***************************************************************************)

\* The saga's inductive invariant holds in every reachable state.
THEOREM SagaInvariance == SagaSpec => []SagaInv
  <1>1. IndInv /\ SagaInv /\ [SagaNext]_allVars => SagaInv'
    BY SagaStepKeeps
  <1> QED
    BY <1>1, InitSagaInv, LedgerInvariant, PTL DEF SagaSpec

\* Every variable of the worker keeps its type.
THEOREM SagaTypeCorrect == SagaSpec => []SagaTypeOK
  <1>1. SagaInv => SagaTypeOK
    BY DEF SagaInv
  <1> QED
    BY <1>1, SagaInvariance, PTL

\* However many workers, crashes, timeouts and late answers there are, the
\* external effect of a row is repeated only if the row was claimed while an
\* older apply call was in flight.
THEOREM EffectAppliedOnce == SagaSpec => []AppliedOnce
  <1>1. SagaInv => AppliedOnce
    BY WorkerAssumption DEF SagaInv, SagaTypeOK, EffectInv, AppliedOnce
  <1> QED
    BY <1>1, SagaInvariance, PTL

\* A row moves its task by the one intent that its checkpoint journaled.
THEOREM IntentJournaled == SagaSpec => []OnlyJournaledIntent
  <1>1. SagaInv => OnlyJournaledIntent
    BY DEF SagaInv, CheckpointInv, CheckpointOK, OnlyJournaledIntent
  <1> QED
    BY <1>1, SagaInvariance, PTL

\* A row whose intent moved the task has its effect committed and verified:
\* only the saved intent was executed, and it was saved over both receipts.
THEOREM MoveFollowsEffect == SagaSpec => []MovesAfterEffect
  <1>1. SagaInv => MovesAfterEffect
    <2> SUFFICES ASSUME SagaInv, NEW j \in Jobs, executed[j] # {}
                 PROVE  applied[j] > 0 /\ cp[j].effect /\ cp[j].verified
      BY DEF MovesAfterEffect
    <2>1. PICK n \in executed[j] : n \in Revisions
      BY DEF SagaInv, SagaTypeOK
    <2>2. CheckpointOK(cp[j], j)
      BY DEF SagaInv, CheckpointInv
    <2>3. cp[j].intent = n
      BY <2>1, <2>2 DEF CheckpointOK
    <2>4. cp[j].intent # NULL
      BY <2>1, <2>3, WorkerAssumption, LedgerAssumption DEF Revisions
    <2> QED
      BY <2>2, <2>4 DEF CheckpointOK
  <1> QED
    BY <1>1, SagaInvariance, PTL

\* A completed row has its effect applied and verified, and its transition
\* (if it has one) made.
THEOREM CompletionSound == SagaSpec => []CompletedMeansDone
  <1>1. SagaInv => CompletedMeansDone
    BY DEF SagaInv, CheckpointInv, CheckpointOK, DoneCheckpoint, CompletedMeansDone
  <1> QED
    BY <1>1, SagaInvariance, PTL

\* No step of anybody takes progress out of a checkpoint.
THEOREM ProgressKept == SagaSpec => ProgressDurable
  <1>1. IndInv /\ SagaInv /\ [SagaNext]_allVars => [Progress]_allVars
    BY SagaStepKeeps
  <1>2. SagaSpec => [][Progress]_allVars
    BY <1>1, SagaInvariance, LedgerInvariant, PTL DEF SagaSpec
  <1> QED
    BY <1>2 DEF ProgressDurable, Progress, Grows

\* A transition that was compensated is executed by no later claim.
THEOREM CompensationFinal == SagaSpec => CompensationIsBarrier
  <1> DEFINE A == \A t \in tickets \cap DOMAIN saga' :
                    (~At(t, "transition") /\ saga'[t].pc = "transition")
                      => cp'[t.job].settled = "no"
  <1>1. ASSUME IndInv, SagaInv, SagaNext PROVE A
    <2> SUFFICES ASSUME NEW t \in tickets \cap DOMAIN saga',
                        ~At(t, "transition"), saga'[t].pc = "transition"
                 PROVE  cp'[t.job].settled = "no"
      OBVIOUS
    <2>1. SagaInv'
      BY <1>1, SagaStepKeeps
    <2>2. t \in tickets \cap tickets'
      BY <2>1 DEF SagaInv, SagaTypeOK
    <2>3. PICK c \in Checkpoints : Save(t, c)
      BY <1>1, <2>2, TransitionEntered
    <2>4. t.job \in Jobs /\ rows[t.job] \in Row /\ rows = [k \in Jobs |-> rows[k]]
      BY <1>1, <2>2 DEF IndInv, RowsInv, RowInv, HolderInv, Ticket
    <2>5. HoldsToken(t)'
      BY <2>3, <2>4
      DEF Save, Checkpoint, SetRow, Passes, Owns, HoldsToken, Running, Row
    <2>6. Fits("transition", cp'[t.job])
      BY <2>1, <2>2, <2>5 DEF SagaInv, StepInv, Fits, DoneCheckpoint
    <2> QED
      BY <2>6 DEF Fits
  <1>2. IndInv /\ SagaInv /\ [SagaNext]_allVars => [A]_allVars
    BY <1>1
  <1>3. SagaSpec => [][A]_allVars
    <2> HIDE DEF A
    <2> QED
      BY <1>2, SagaInvariance, LedgerInvariant, PTL DEF SagaSpec
  <1> QED
    BY <1>3 DEF CompensationIsBarrier

=============================================================================
