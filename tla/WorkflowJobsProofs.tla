------------------------- MODULE WorkflowJobsProofs -------------------------
(***************************************************************************)
(* Safety of the job ledger for every set of jobs, tasks, runtimes and     *)
(* tokens and every budget, lease and delay.                               *)
(*                                                                         *)
(* The inductive invariant IndInv says what every single row satisfies     *)
(* (RowInv) and how rows and invocations fit together (HolderInv).  The    *)
(* first part is preserved because every operation maps a row to one of a  *)
(* few successors, each covered by a lemma; the second because tokens are  *)
(* fresh and processes take their invocations with them.                   *)
(***************************************************************************)
EXTENDS WorkflowJobs, TLAPS

RowInv(r, s, j) ==
  /\ r \in Row
  /\ s \in 0..MaxAttempts
  /\ r.state = "absent" => s = 0
  /\ r.state \in {"queued", "retry_wait"} => r.attempts = s /\ s < MaxAttempts
  /\ Running(r) => r.attempts = s + 1
  /\ IF Running(r)
       THEN /\ r.owner # NULL
            /\ r.token # NULL
            /\ r.lease = NULL => r.phase = "quarantined"
       ELSE r.owner = NULL /\ r.token = NULL /\ r.lease = NULL
  /\ r.state # "retry_wait" => r.retry = NULL
  /\ r.phase = "finalizing" => Kind[j] = "audit"

RowsInv ==
  /\ rows = [j \in Jobs |-> rows[j]]
  /\ spent = [j \in Jobs |-> spent[j]]
  /\ \A j \in Jobs : RowInv(rows[j], spent[j], j)

HolderInv ==
  /\ tickets \subseteq Ticket
  /\ sampled \subseteq tickets
  /\ detached \subseteq tickets
  /\ proc \in [Owners -> {"down", "starting", "up"}]
  /\ \A t \in tickets : proc[t.owner] # "down"
  /\ \A t \in tickets : HoldsToken(t) => rows[t.job].owner = t.owner

IndInv == RowsInv /\ HolderInv /\ DetachedCallFenced /\ OneRunningPerTask

-----------------------------------------------------------------------------
(***************************************************************************)
(* What the row operations keep.                                           *)
(***************************************************************************)

\* A released row keeps its attempts and phase and has no lease.
LEMMA ReleasedFields ==
  ASSUME NEW r \in Row, NEW state \in TerminalStates \cup ActiveStates
  PROVE  /\ Released(r, state) \in Row
         /\ Released(r, state).state = state
         /\ Released(r, state).phase = r.phase
         /\ Released(r, state).attempts = r.attempts
         /\ Released(r, state).owner = NULL
         /\ Released(r, state).token = NULL
         /\ Released(r, state).lease = NULL
         /\ Released(r, state).retry = NULL
  BY DEF Released, Row, Nullable

\* Revoking an active row (supersede, cancel) keeps the row invariant.
LEMMA RevokedRow ==
  ASSUME NEW r, NEW s, NEW j, RowInv(r, s, j),
         NEW state \in {"superseded", "cancelled"}
  PROVE  RowInv(Released(r, state), s, j) /\ ~Running(Released(r, state))
  BY ReleasedFields DEF RowInv, Running, TerminalStates, ActiveStates

\* Recovery of a running row charges the attempt it took.
LEMMA RecoveredRow ==
  ASSUME NEW r, NEW s, NEW j, RowInv(r, s, j), Running(r)
  PROVE  RowInv(Recovered(r), s + 1, j) /\ ~Running(Recovered(r))
  <1> DEFINE st == IF r.attempts >= MaxAttempts THEN "exhausted" ELSE "queued"
  <1>1. /\ r \in Row /\ r.attempts \in 0..MaxAttempts /\ s \in 0..MaxAttempts
        /\ r.attempts = s + 1
    BY DEF RowInv, Row
  <1>2. st \in TerminalStates \cup ActiveStates
    BY DEF TerminalStates, ActiveStates
  <1>3. Recovered(r) = Released(r, st)
    BY DEF Recovered
  <1>4. st = "queued" => s + 1 < MaxAttempts
    BY <1>1, LedgerAssumption
  <1>5. s + 1 \in 0..MaxAttempts
    BY <1>1, LedgerAssumption
  <1> QED
    BY <1>1, <1>2, <1>3, <1>4, <1>5, ReleasedFields DEF RowInv, Running

\* A claim starts the attempt that the row still has.
LEMMA ClaimedRow ==
  ASSUME NEW r, NEW s, NEW j, RowInv(r, s, j), Due(r), r.attempts < MaxAttempts,
         NEW o \in Owners, NEW tok \in Tokens
  PROVE  /\ RowInv(Claimed(r, o, tok), s, j)
         /\ Running(Claimed(r, o, tok))
         /\ Claimed(r, o, tok).owner = o
         /\ Claimed(r, o, tok).token = tok
  <1>1. /\ r \in Row /\ r.attempts \in 0..MaxAttempts /\ r.attempts = s
        /\ r.phase = "finalizing" => Kind[j] = "audit"
        /\ s \in 0..MaxAttempts
    BY DEF RowInv, Row, Due
  <1>2. LeaseSeconds \in 0..LeaseSeconds /\ r.attempts + 1 \in 0..MaxAttempts
    BY <1>1, LedgerAssumption
  <1>3. Claimed(r, o, tok) \in Row
    BY <1>1, <1>2 DEF Claimed, Row, Nullable, ActiveStates
  <1>4. o # NULL /\ tok # NULL /\ LeaseSeconds # NULL
    BY LedgerAssumption
  <1>5. /\ Claimed(r, o, tok).state = "running"
        /\ Claimed(r, o, tok).phase = r.phase
        /\ Claimed(r, o, tok).attempts = r.attempts + 1
        /\ Claimed(r, o, tok).owner = o
        /\ Claimed(r, o, tok).token = tok
        /\ Claimed(r, o, tok).lease = LeaseSeconds
        /\ Claimed(r, o, tok).retry = NULL
    BY <1>1 DEF Claimed, Row
  <1> QED
    BY <1>1, <1>3, <1>4, <1>5 DEF RowInv, Running

\* A charged failure waits for a retry only while an attempt is left.
LEMMA FailedRow ==
  ASSUME NEW r, NEW s, NEW j, RowInv(r, s, j), Running(r),
         NEW retryable \in BOOLEAN, NEW delay \in 0..MaxDelay,
         NEW phase \in Phases, phase = "finalizing" => Kind[j] = "audit"
  PROVE  LET new == [Failed(r, retryable, delay) EXCEPT !.phase = phase]
         IN  RowInv(new, s + 1, j) /\ ~Running(new)
  <1>1. /\ r \in Row /\ r.attempts \in 0..MaxAttempts /\ s \in 0..MaxAttempts
        /\ r.attempts = s + 1
    BY DEF RowInv, Row
  <1>2. s + 1 \in 0..MaxAttempts
    BY <1>1, LedgerAssumption
  <1>3. CASE retryable /\ r.attempts < MaxAttempts
    <2>1. Failed(r, retryable, delay)
            = [Released(r, "retry_wait") EXCEPT !.retry = delay]
      BY <1>3 DEF Failed
    <2> DEFINE rel == Released(r, "retry_wait")
               new == [Failed(r, retryable, delay) EXCEPT !.phase = phase]
    <2>2. /\ rel \in Row /\ rel.state = "retry_wait"
          /\ rel.attempts = r.attempts
          /\ rel.owner = NULL /\ rel.token = NULL /\ rel.lease = NULL
      BY <1>1, ReleasedFields DEF ActiveStates
    <2>3. new = [rel EXCEPT !.retry = delay, !.phase = phase]
      BY <2>1
    <2> HIDE DEF rel, new
    <2>4. /\ new \in Row /\ new.state = "retry_wait" /\ new.phase = phase
          /\ new.attempts = r.attempts
          /\ new.owner = NULL /\ new.token = NULL /\ new.lease = NULL
      BY <2>2, <2>3 DEF Row, Nullable
    <2>5. RowInv(new, s + 1, j) /\ ~Running(new)
      BY <1>1, <1>2, <1>3, <2>4 DEF RowInv, Running
    <2> QED
      BY <2>5 DEF new
  <1>4. CASE ~(retryable /\ r.attempts < MaxAttempts)
    <2>1. Failed(r, retryable, delay) = Released(r, "exhausted")
      BY <1>4 DEF Failed
    <2> QED
      BY <1>1, <1>2, <2>1, ReleasedFields
      DEF RowInv, Running, Row, TerminalStates
  <1> QED
    BY <1>3, <1>4

\* A refund takes back the uncharged attempt in flight, and no other.
LEMMA RefundedRow ==
  ASSUME NEW r, NEW s, NEW j, RowInv(r, s, j), Running(r),
         NEW new \in Row, new.state \in {"queued", "retry_wait", "superseded"},
         new.attempts = Refund(r),
         new.owner = NULL, new.token = NULL, new.lease = NULL,
         new.state # "retry_wait" => new.retry = NULL,
         new.phase = "finalizing" => Kind[j] = "audit"
  PROVE  RowInv(new, s, j) /\ ~Running(new)
  <1>1. /\ r.attempts \in 0..MaxAttempts /\ s \in 0..MaxAttempts
        /\ r.attempts = s + 1
    BY DEF RowInv, Row
  <1>2. Refund(r) = s /\ s < MaxAttempts
    BY <1>1, LedgerAssumption DEF Refund
  <1> QED
    BY <1>1, <1>2 DEF RowInv, Running

\* A completed or cancelled invocation leaves a terminal row.
LEMMA FinishedRow ==
  ASSUME NEW r, NEW s, NEW j, RowInv(r, s, j),
         NEW state \in {"completed", "cancelled"}
  PROVE  LET new == [Released(r, state) EXCEPT !.phase = "complete"]
         IN  RowInv(new, s, j) /\ ~Running(new)
  BY ReleasedFields DEF RowInv, Running, Row, Phases, TerminalStates, ActiveStates

\* Time only shortens what is left of a lease or a delay.
LEMMA LaterRow ==
  ASSUME NEW r, NEW s, NEW j, RowInv(r, s, j)
  PROVE  /\ RowInv([r EXCEPT !.lease = Later(r.lease), !.retry = Later(r.retry)], s, j)
         /\ r.lease = NULL => Later(r.lease) = NULL
  <1>1. ASSUME NEW n \in Nat, NEW left \in Nullable(0..n)
        PROVE  /\ Later(left) \in Nullable(0..n)
               /\ Later(left) = NULL <=> left = NULL
    BY <1>1, LedgerAssumption DEF Nullable, Later
  <1>2. /\ Later(r.lease) \in Nullable(0..LeaseSeconds)
        /\ Later(r.retry) \in Nullable(0..MaxDelay)
        /\ Later(r.lease) = NULL <=> r.lease = NULL
        /\ Later(r.retry) = NULL <=> r.retry = NULL
    BY <1>1, LedgerAssumption DEF RowInv, Row
  <1>3. r \in Row
    BY DEF RowInv
  <1> DEFINE new == [r EXCEPT !.lease = Later(r.lease), !.retry = Later(r.retry)]
  <1>4. /\ new \in Row /\ new.state = r.state /\ new.phase = r.phase
        /\ new.attempts = r.attempts /\ new.owner = r.owner /\ new.token = r.token
        /\ new.lease = Later(r.lease) /\ new.retry = Later(r.retry)
    BY <1>2, <1>3 DEF Row
  <1> HIDE DEF new
  <1>5. RowInv(new, s, j)
    BY <1>2, <1>4 DEF RowInv, Running
  <1> QED
    BY <1>2, <1>5 DEF new

-----------------------------------------------------------------------------
(***************************************************************************)
(* The three things a step does to a row other than claiming it: nothing,  *)
(* taking it out of the running state, or rewriting it under its lease.    *)
(***************************************************************************)

Untouched(k) == rows'[k] = rows[k] /\ spent'[k] = spent[k]

LetGo(k) ==
  /\ RowInv(rows'[k], spent'[k], k)
  /\ ~Running(rows'[k])
  /\ \A t \in detached' : t.job # k

Rewritten(k) ==
  /\ RowInv(rows'[k], spent'[k], k)
  /\ Running(rows[k]) /\ Running(rows'[k])
  /\ rows'[k].owner = rows[k].owner
  /\ rows'[k].token = rows[k].token
  /\ \A t \in detached' : t.job = k => Quarantined(rows'[k]) /\ rows'[k].lease = NULL

\* Two invocations never hold the lease of one row.
LEMMA OneHolder ==
  ASSUME HolderInv, NEW t \in tickets, NEW u \in tickets,
         HoldsToken(t), HoldsToken(u), t.job = u.job
  PROVE  t = u
  <1>1. t.owner = u.owner /\ t.token = u.token
    BY DEF HolderInv, HoldsToken
  <1> QED
    BY <1>1 DEF HolderInv, Ticket

\* An invocation that can act on its lease is not a detached one.
LEMMA OwnersNotDetached ==
  ASSUME DetachedCallFenced, NEW t, May(t) \/ Owns(t) \/ OwnsAsSampled(t)
  PROVE  t \notin detached
  BY DEF DetachedCallFenced, May, Owns, OwnsAsSampled

\* Nor does it share its row with a detached one.
LEMMA OwnerAlone ==
  ASSUME HolderInv, DetachedCallFenced, NEW t \in tickets,
         May(t) \/ Owns(t) \/ OwnsAsSampled(t),
         NEW u \in detached
  PROVE  u.job # t.job
  BY DEF DetachedCallFenced, May, Owns, OwnsAsSampled

\* A step without a claim keeps the invariant.
LEMMA StepWithoutClaim ==
  ASSUME IndInv,
         rows' = [k \in Jobs |-> rows'[k]], spent' = [k \in Jobs |-> spent'[k]],
         \A k \in Jobs : Untouched(k) \/ LetGo(k) \/ Rewritten(k),
         tickets' \subseteq tickets,
         sampled' \subseteq tickets',
         detached' \subseteq tickets',
         \A t \in detached' \ detached : HoldsToken(t) /\ Rewritten(t.job),
         proc' = proc
  PROVE  IndInv'
  <1>1. RowsInv'
    BY DEF IndInv, RowsInv, Untouched, LetGo, Rewritten
  <1>2. ASSUME NEW t \in tickets', HoldsToken(t)'
        PROVE  rows'[t.job].owner = t.owner
    <2>1. t \in tickets /\ t.job \in Jobs /\ t.token \in Tokens
      BY DEF IndInv, HolderInv, Ticket
    <2>2. HoldsToken(t) /\ rows'[t.job].owner = rows[t.job].owner
      BY <1>2, <2>1 DEF Untouched, LetGo, Rewritten, HoldsToken
    <2> QED
      BY <2>1, <2>2 DEF IndInv, HolderInv
  <1>3. HolderInv'
    BY <1>2 DEF IndInv, HolderInv
  <1>4. DetachedCallFenced'
    <2> SUFFICES ASSUME NEW t \in detached'
                 PROVE  /\ HoldsToken(t)' /\ Quarantined(rows'[t.job])
                        /\ rows'[t.job].lease = NULL
      BY DEF DetachedCallFenced
    <2>1. t \in tickets /\ t.job \in Jobs
      BY DEF IndInv, HolderInv, Ticket
    <2>2. CASE t \in detached
      <3>1. HoldsToken(t) /\ Quarantined(rows[t.job]) /\ rows[t.job].lease = NULL
        BY <2>2 DEF IndInv, DetachedCallFenced
      <3> QED
        BY <2>1, <3>1 DEF Untouched, LetGo, Rewritten, HoldsToken
    <2>3. CASE t \notin detached
      BY <2>1, <2>3 DEF Rewritten, HoldsToken
    <2> QED
      BY <2>2, <2>3
  <1>5. OneRunningPerTask'
    <2>1. \A k \in Jobs : Running(rows'[k]) => Running(rows[k])
      BY DEF Untouched, LetGo, Rewritten
    <2> QED
      BY <2>1 DEF IndInv, OneRunningPerTask
  <1> QED
    BY <1>1, <1>3, <1>4, <1>5 DEF IndInv

\* A step that leases one row under a fresh token keeps the invariant.
LEMMA StepWithClaim ==
  ASSUME IndInv,
         NEW j \in Jobs, NEW o \in Owners, NEW tok \in FreshTokens, Up(o),
         rows' = [k \in Jobs |-> rows'[k]], spent' = [k \in Jobs |-> spent'[k]],
         \A k \in Jobs \ {j} : Untouched(k) \/ LetGo(k),
         RowInv(rows'[j], spent'[j], j),
         Running(rows'[j]), rows'[j].owner = o, rows'[j].token = tok,
         \A t \in detached : t.job # j,
         \A k \in Jobs \ {j} : (TaskOf[k] = TaskOf[j] /\ Running(rows'[k]))
            => {Kind[k], Kind[j]} = {"implementation", "repair"},
         tickets' = tickets \cup {[job |-> j, token |-> tok, owner |-> o]},
         UNCHANGED <<sampled, detached, proc>>
  PROVE  IndInv'
  <1>1. RowsInv'
    BY DEF IndInv, RowsInv, Untouched, LetGo
  <1>2. tok \in Tokens /\ (\A t \in tickets : t.token # tok)
    BY DEF FreshTokens
  <1>3. ASSUME NEW t \in tickets', HoldsToken(t)'
        PROVE  rows'[t.job].owner = t.owner
    <2>1. CASE t = [job |-> j, token |-> tok, owner |-> o]
      BY <2>1
    <2>2. CASE t \in tickets
      <3>1. t.job \in Jobs /\ t.token \in Tokens /\ t.token # tok
        BY <1>2, <2>2 DEF IndInv, HolderInv, Ticket
      <3>2. t.job # j
        BY <1>3, <3>1 DEF HoldsToken
      <3>3. HoldsToken(t) /\ rows'[t.job].owner = rows[t.job].owner
        BY <1>3, <3>1, <3>2 DEF Untouched, LetGo, HoldsToken
      <3> QED
        BY <2>2, <3>3 DEF IndInv, HolderInv
    <2> QED
      BY <2>1, <2>2
  <1>4. HolderInv'
    BY <1>2, <1>3 DEF IndInv, HolderInv, Ticket, Up
  <1>5. DetachedCallFenced'
    <2> SUFFICES ASSUME NEW t \in detached
                 PROVE  /\ HoldsToken(t)' /\ Quarantined(rows'[t.job])
                        /\ rows'[t.job].lease = NULL
      BY DEF DetachedCallFenced
    <2>1. t \in tickets /\ t.job \in Jobs \ {j}
      BY DEF IndInv, HolderInv, Ticket
    <2>2. HoldsToken(t) /\ Quarantined(rows[t.job]) /\ rows[t.job].lease = NULL
      BY DEF IndInv, DetachedCallFenced
    <2> QED
      BY <2>1, <2>2 DEF Untouched, LetGo, HoldsToken
  <1>6. OneRunningPerTask'
    <2>1. \A k \in Jobs \ {j} : Running(rows'[k]) => Running(rows[k])
      BY DEF Untouched, LetGo
    <2>2. ASSUME NEW k \in Jobs, NEW l \in Jobs, k # l, TaskOf[k] = TaskOf[l],
                 Running(rows'[k]), Running(rows'[l])
          PROVE  {Kind[k], Kind[l]} = {"implementation", "repair"}
      <3>1. CASE k # j /\ l # j
        BY <2>1, <2>2, <3>1 DEF IndInv, OneRunningPerTask
      <3>2. CASE k = j
        BY <2>2, <3>2
      <3>3. CASE l = j
        BY <2>2, <3>3
      <3> QED
        BY <3>1, <3>2, <3>3
    <2> QED
      BY <2>2 DEF OneRunningPerTask
  <1> QED
    BY <1>1, <1>4, <1>5, <1>6 DEF IndInv

-----------------------------------------------------------------------------
(***************************************************************************)
(* The invariant holds initially and every action keeps it.                *)
(***************************************************************************)

\* The empty ledger satisfies the invariant.
LEMMA InitIndInv == Init => IndInv
  <1> SUFFICES ASSUME Init PROVE IndInv
    OBVIOUS
  <1>1. NoRow \in Row /\ NoRow.state = "absent" /\ NoRow.phase = "intent"
        /\ NoRow.owner = NULL /\ NoRow.token = NULL /\ NoRow.lease = NULL
        /\ NoRow.retry = NULL
    BY LedgerAssumption DEF NoRow, Row, Nullable, Phases
  <1>2. RowsInv
    BY <1>1, LedgerAssumption DEF Init, RowsInv, RowInv, Running
  <1>3. HolderInv /\ DetachedCallFenced
    BY DEF Init, HolderInv, DetachedCallFenced
  <1>4. OneRunningPerTask
    BY <1>1 DEF Init, OneRunningPerTask, Running
  <1> QED
    BY <1>2, <1>3, <1>4 DEF IndInv

\* A fresh row, new or rearmed, has its whole budget.
LEMMA FreshRow ==
  ASSUME NEW j \in Jobs
  PROVE  LET new == [NoRow EXCEPT !.state = "queued"]
         IN  RowInv(new, 0, j) /\ ~Running(new)
  <1> DEFINE new == [NoRow EXCEPT !.state = "queued"]
  <1>1. /\ new \in Row /\ new.state = "queued" /\ new.phase = "intent"
        /\ new.owner = NULL /\ new.token = NULL /\ new.lease = NULL
        /\ new.attempts = 0 /\ new.retry = NULL
    BY LedgerAssumption DEF NoRow, Row, Nullable, Phases, ActiveStates
  <1> HIDE DEF new
  <1>2. RowInv(new, 0, j) /\ ~Running(new)
    BY <1>1, LedgerAssumption DEF RowInv, Running
  <1> QED
    BY <1>2 DEF new

\* The scheduler's operations keep the invariant.
LEMMA SchedulingKeeps ==
  ASSUME IndInv, Scheduling
  PROVE  IndInv'
  <1> USE DEF IndInv, RowsInv
  <1>1. /\ detached \subseteq tickets /\ sampled \subseteq tickets
        /\ \A t \in detached : HoldsToken(t) /\ Quarantined(rows[t.job])
    BY DEF HolderInv, DetachedCallFenced
  <1>2. ASSUME NEW j \in Jobs, Enqueue(j) PROVE IndInv'
    <2>1. spent[j] = 0 /\ ~Running(rows[j])
      BY <1>2 DEF Enqueue, RowInv, Running
    <2>2. LetGo(j)
      BY <1>1, <1>2, <2>1, FreshRow DEF Enqueue, SetRow, LetGo, HoldsToken
    <2>3. \A k \in Jobs : Untouched(k) \/ LetGo(k)
      BY <1>2, <2>2 DEF Enqueue, SetRow, Untouched
    <2> QED
      BY <1>1, <1>2, <2>3, StepWithoutClaim DEF Enqueue, SetRow
  <1>3. ASSUME NEW j \in Jobs, NEW state \in {"superseded", "cancelled"},
               ~Quarantined(rows[j]), SetRow(j, Released(rows[j], state)),
               UNCHANGED <<tickets, sampled, detached, proc, spent>>
        PROVE  IndInv'
    <2>1. LetGo(j)
      BY <1>1, <1>3, RevokedRow DEF SetRow, LetGo
    <2>2. \A k \in Jobs : Untouched(k) \/ LetGo(k)
      BY <1>3, <2>1 DEF SetRow, Untouched
    <2> QED
      BY <1>1, <1>3, <2>2, StepWithoutClaim DEF SetRow
  <1>4. ASSUME NEW j \in Jobs, Supersede(j) \/ Cancel(j) PROVE IndInv'
    BY <1>3, <1>4 DEF Supersede, Cancel
  <1>5. ASSUME NEW j \in Jobs, Rearm(j) PROVE IndInv'
    <2>1. ~Running(rows[j])
      BY <1>5 DEF Rearm, Running
    <2>2. LetGo(j)
      BY <1>1, <1>5, <2>1, FreshRow DEF Rearm, SetRow, LetGo, HoldsToken
    <2>3. \A k \in Jobs : Untouched(k) \/ LetGo(k)
      BY <1>5, <2>2 DEF Rearm, SetRow, Untouched
    <2> QED
      BY <1>1, <1>5, <2>3, StepWithoutClaim DEF Rearm, SetRow
  <1>6. ASSUME NEW task \in Tasks, NEW keep \in Generations, SupersedeTask(task, keep)
        PROVE  IndInv'
    <2>1. \A k \in SupersededBy(task, keep) : LetGo(k)
      BY <1>1, <1>6, RevokedRow DEF SupersedeTask, SupersededBy, LetGo
    <2>2. \A k \in Jobs : Untouched(k) \/ LetGo(k)
      BY <1>6, <2>1 DEF SupersedeTask, Untouched
    <2> QED
      BY <1>1, <1>6, <2>2, StepWithoutClaim DEF SupersedeTask
  <1> QED
    BY <1>2, <1>4, <1>5, <1>6 DEF Scheduling

\* What recovery does to each row: expired rows and a dead owner's rows are
\* charged and let go, and neither can belong to a detached call.
LEMMA RecoveryLetsGo ==
  ASSUME IndInv, NEW S \in SUBSET Jobs,
         \A k \in S : Running(rows[k]) /\ (\A t \in detached : t.job # k),
         UNCHANGED detached,
         NEW k \in Jobs, rows'[k] = RecoverAll(S)[k], spent'[k] = ChargeAll(S)[k]
  PROVE  Untouched(k) \/ LetGo(k)
  <1>1. CASE k \in S
    <2>1. RowInv(rows'[k], spent'[k], k) /\ ~Running(rows'[k])
      BY <1>1, RecoveredRow DEF IndInv, RowsInv, RecoverAll, ChargeAll
    <2> QED
      BY <1>1, <2>1 DEF LetGo
  <1>2. CASE k \notin S
    BY <1>2 DEF RecoverAll, ChargeAll, Untouched
  <1> QED
    BY <1>1, <1>2

\* Expired rows are running and hold no detached call.
LEMMA ExpiredFacts ==
  ASSUME IndInv, NEW lane
  PROVE  /\ ExpiredJobs(lane) \in SUBSET Jobs
         /\ \A k \in ExpiredJobs(lane) :
               Running(rows[k]) /\ (\A t \in detached : t.job # k)
  BY LedgerAssumption
  DEF IndInv, DetachedCallFenced, ExpiredJobs, LaneJobs, Expired

\* Rows abandoned by a dead owner are running and hold no detached call.
LEMMA AbandonedFacts ==
  ASSUME IndInv, NEW dead, NEW phase, proc[dead] = "down"
  PROVE  /\ AbandonedJobs(dead, phase) \in SUBSET Jobs
         /\ \A k \in AbandonedJobs(dead, phase) :
               Running(rows[k]) /\ (\A t \in detached : t.job # k)
  BY DEF IndInv, HolderInv, DetachedCallFenced, AbandonedJobs, LaneJobs

\* A claim leaves at most a repair beside implementation work on the task.
LEMMA ClaimKeeps ==
  ASSUME IndInv, NEW o \in Owners, NEW j \in Jobs, NEW tok \in Tokens,
         ClaimNext(o, j, tok)
  PROVE  IndInv'
  <1> DEFINE lane == LaneOf(j)
             recovered == RecoverAll(ExpiredJobs(lane))
  <1>1. /\ Claimable(recovered, j, lane)
        /\ rows' = [recovered EXCEPT ![j] = Claimed(recovered[j], o, tok)]
        /\ tickets' = tickets \cup {[job |-> j, token |-> tok, owner |-> o]}
    BY DEF ClaimNext
  <1>2. j \in Jobs /\ LaneOf(j) = lane
    OBVIOUS
  <1>3. recovered = [k \in Jobs |-> recovered[k]]
    BY DEF RecoverAll
  <1>4. /\ spent' = ChargeAll(ExpiredJobs(lane))
        /\ UNCHANGED <<sampled, detached, proc>>
        /\ Up(o) /\ tok \in FreshTokens
    BY DEF ClaimNext
  <1> HIDE DEF lane, recovered
  <1>5. \A k \in Jobs : RowInv(recovered[k], spent'[k], k)
    <2> SUFFICES ASSUME NEW k \in Jobs PROVE RowInv(recovered[k], spent'[k], k)
      OBVIOUS
    <2>1. CASE k \in ExpiredJobs(lane)
      BY <1>4, <2>1, RecoveredRow, ExpiredFacts
      DEF IndInv, RowsInv, recovered, RecoverAll, ChargeAll
    <2>2. CASE k \notin ExpiredJobs(lane)
      BY <1>4, <2>2 DEF IndInv, RowsInv, recovered, RecoverAll, ChargeAll
    <2> QED
      BY <2>1, <2>2
  <1>6. \A k \in Jobs \ {j} : Untouched(k) \/ LetGo(k)
    <2> SUFFICES ASSUME NEW k \in Jobs \ {j} PROVE Untouched(k) \/ LetGo(k)
      OBVIOUS
    <2>1. rows'[k] = RecoverAll(ExpiredJobs(lane))[k]
      BY <1>1, <1>3 DEF recovered
    <2> QED
      BY <1>4, <2>1, ExpiredFacts, RecoveryLetsGo
  <1>7. /\ RowInv(rows'[j], spent'[j], j)
        /\ Running(rows'[j]) /\ rows'[j].owner = o /\ rows'[j].token = tok
    BY <1>1, <1>2, <1>3, <1>5, ClaimedRow DEF Claimable
  <1>8. ~Running(recovered[j])
    BY <1>1 DEF Claimable, Due, Running
  <1>9. \A t \in detached : t.job # j
    <2>1. j \notin ExpiredJobs(lane) => recovered[j] = rows[j]
      BY <1>2 DEF recovered, RecoverAll
    <2> QED
      BY <1>8, <2>1, ExpiredFacts DEF IndInv, DetachedCallFenced, Quarantined
  <1>10. \A k \in Jobs \ {j} : (TaskOf[k] = TaskOf[j] /\ Running(rows'[k]))
            => {Kind[k], Kind[j]} = {"implementation", "repair"}
    <2> SUFFICES ASSUME NEW k \in Jobs \ {j},
                        TaskOf[k] = TaskOf[j], Running(rows'[k])
                 PROVE  {Kind[k], Kind[j]} = {"implementation", "repair"}
      OBVIOUS
    <2>1. Running(recovered[k])
      BY <1>1, <1>3
    <2>2. k \in Compatible(lane)
      BY <1>1, <2>1 DEF Claimable
    <2>3. lane = "repair" /\ Kind[k] = "implementation"
      BY <2>2 DEF Compatible
    <2> QED
      BY <1>2, <2>3 DEF LaneOf
  <1>11. rows' = [k \in Jobs |-> rows'[k]] /\ spent' = [k \in Jobs |-> spent'[k]]
    BY <1>1, <1>3, <1>4 DEF ChargeAll
  <1> QED
    BY <1>1, <1>2, <1>4, <1>6, <1>7, <1>9, <1>10, <1>11, StepWithClaim

\* Taking over a silent audit lease keeps the invariant.
LEMMA ReclaimKeeps ==
  ASSUME IndInv, NEW o \in Owners, NEW j \in Jobs, NEW tok \in Tokens,
         Reclaim(o, j, tok)
  PROVE  IndInv'
  <1> DEFINE new == [rows[j] EXCEPT !.owner = o, !.token = tok,
                                    !.lease = LeaseSeconds]
  <1>1. /\ RowInv(rows[j], spent[j], j) /\ Running(rows[j])
        /\ rows[j] \in Row
    BY DEF IndInv, RowsInv, RowInv, Reclaim
  <1>2. LeaseSeconds \in 0..LeaseSeconds /\ LeaseSeconds # NULL
        /\ o # NULL /\ tok # NULL
    BY LedgerAssumption
  <1>3. /\ new \in Row /\ new.state = rows[j].state /\ new.phase = rows[j].phase
        /\ new.attempts = rows[j].attempts /\ new.retry = rows[j].retry
        /\ new.owner = o /\ new.token = tok /\ new.lease = LeaseSeconds
    BY <1>1, <1>2 DEF Row, Nullable
  <1>4. rows' = [rows EXCEPT ![j] = new] /\ spent' = spent
        /\ UNCHANGED <<sampled, detached, proc>>
        /\ tickets' = tickets \cup {[job |-> j, token |-> tok, owner |-> o]}
        /\ Up(o) /\ tok \in FreshTokens
    BY DEF Reclaim, SetRow
  <1> HIDE DEF new
  <1>5. rows'[j] = new /\ \A k \in Jobs \ {j} : Untouched(k)
    BY <1>4 DEF IndInv, RowsInv, Untouched
  <1>6. RowInv(new, spent[j], j) /\ Running(new)
    BY <1>1, <1>2, <1>3 DEF RowInv, Running
  <1>7. \A t \in detached : t.job # j
    BY DEF IndInv, HolderInv, DetachedCallFenced, HoldsToken, Reclaim
  <1>8. \A k \in Jobs \ {j} : (TaskOf[k] = TaskOf[j] /\ Running(rows'[k]))
            => {Kind[k], Kind[j]} = {"implementation", "repair"}
    BY <1>1, <1>5 DEF IndInv, OneRunningPerTask, Untouched
  <1>9. rows' = [k \in Jobs |-> rows'[k]] /\ spent' = [k \in Jobs |-> spent'[k]]
    BY <1>4 DEF IndInv, RowsInv
  <1> QED
    BY <1>3, <1>4, <1>5, <1>6, <1>7, <1>8, <1>9, StepWithClaim

\* Claims and recoveries keep the invariant.
LEMMA ClaimingKeeps ==
  ASSUME IndInv, Claiming
  PROVE  IndInv'
  <1>1. ASSUME NEW S \in SUBSET Jobs,
               \A k \in S : Running(rows[k]) /\ (\A t \in detached : t.job # k),
               rows' = RecoverAll(S), spent' = ChargeAll(S),
               UNCHANGED <<tickets, sampled, detached, proc>>
        PROVE  IndInv'
    <2>1. \A k \in Jobs : Untouched(k) \/ LetGo(k)
      BY <1>1, RecoveryLetsGo
    <2>2. rows' = [k \in Jobs |-> rows'[k]] /\ spent' = [k \in Jobs |-> spent'[k]]
      BY <1>1 DEF RecoverAll, ChargeAll
    <2>3. detached \subseteq tickets /\ sampled \subseteq tickets
      BY DEF IndInv, HolderInv
    <2> QED
      BY <1>1, <2>1, <2>2, <2>3, StepWithoutClaim
  <1>2. ASSUME NEW lane \in Lanes, RecoverExpired(lane) PROVE IndInv'
    BY <1>1, <1>2, ExpiredFacts DEF RecoverExpired
  <1>3. ASSUME NEW o \in Owners, NEW dead \in Owners, NEW phase \in Phases,
               RecoverAbandoned(o, dead, phase)
        PROVE  IndInv'
    BY <1>1, <1>3, AbandonedFacts DEF RecoverAbandoned
  <1> QED
    BY <1>2, <1>3, ClaimKeeps, ReclaimKeeps DEF Claiming

\* An acknowledgement that takes the row out of the running state.
LEMMA AckKeeps ==
  ASSUME IndInv, NEW t \in tickets, NEW r, NEW s,
         RowInv(r, s, t.job), ~Running(r), SetRow(t.job, r),
         spent' = [spent EXCEPT ![t.job] = s],
         EndTicket(t),
         HoldsToken(t),
         \/ t \notin detached /\ detached' = detached
            /\ \A u \in detached : u.job # t.job
         \/ detached' = detached \ {t},
         proc' = proc
  PROVE  IndInv'
  <1>1. t.job \in Jobs /\ detached \subseteq tickets /\ sampled \subseteq tickets
    BY DEF IndInv, HolderInv, Ticket
  <1>2. \A u \in detached' : u.job # t.job
    BY <1>1, OneHolder DEF IndInv, DetachedCallFenced
  <1>3. rows'[t.job] = r /\ spent'[t.job] = s
        /\ \A k \in Jobs \ {t.job} : Untouched(k)
    BY <1>1 DEF IndInv, RowsInv, SetRow, Untouched
  <1>4. \A k \in Jobs : Untouched(k) \/ LetGo(k)
    BY <1>2, <1>3 DEF LetGo
  <1>5. rows' = [k \in Jobs |-> rows'[k]] /\ spent' = [k \in Jobs |-> spent'[k]]
    BY DEF IndInv, RowsInv, SetRow
  <1>6. detached' \subseteq tickets' /\ sampled' \subseteq tickets'
        /\ tickets' \subseteq tickets /\ detached' \subseteq detached
    BY <1>1 DEF EndTicket
  <1> QED
    BY <1>4, <1>5, <1>6, StepWithoutClaim

\* A write under the lease that keeps it: heartbeat, checkpoint, quarantine.
LEMMA WriteKeeps ==
  ASSUME IndInv, NEW t \in tickets, NEW r,
         RowInv(r, spent[t.job], t.job), Running(r), HoldsToken(t),
         r.owner = rows[t.job].owner, r.token = rows[t.job].token,
         SetRow(t.job, r),
         \/ detached' = detached /\ \A u \in detached : u.job # t.job
         \/ detached' = detached \cup {t} /\ Quarantined(r) /\ r.lease = NULL,
         tickets' = tickets, sampled' \subseteq sampled,
         UNCHANGED <<proc, spent>>
  PROVE  IndInv'
  <1>1. t.job \in Jobs /\ detached \subseteq tickets /\ sampled \subseteq tickets
    BY DEF IndInv, HolderInv, Ticket
  <1>2. rows'[t.job] = r /\ \A k \in Jobs \ {t.job} : Untouched(k)
    BY <1>1 DEF IndInv, RowsInv, SetRow, Untouched
  <1>3. Rewritten(t.job)
    BY <1>1, <1>2 DEF Rewritten, HoldsToken
  <1>4. rows' = [k \in Jobs |-> rows'[k]] /\ spent' = [k \in Jobs |-> spent'[k]]
    BY DEF IndInv, RowsInv, SetRow
  <1>5. \A u \in detached' \ detached : HoldsToken(u) /\ Rewritten(u.job)
    BY <1>3
  <1>6. \A k \in Jobs : Untouched(k) \/ LetGo(k) \/ Rewritten(k)
    BY <1>2, <1>3
  <1>7. detached' \subseteq tickets' /\ sampled' \subseteq tickets'
        /\ tickets' \subseteq tickets
    BY <1>1
  <1> QED
    BY <1>4, <1>5, <1>6, <1>7, StepWithoutClaim

\* What an invocation that passed the lease check knows.
LEMMA OwnerFacts ==
  ASSUME IndInv, NEW t \in tickets, May(t) \/ Owns(t) \/ OwnsAsSampled(t)
  PROVE  /\ t.job \in Jobs /\ t \notin detached
         /\ \A u \in detached : u.job # t.job
         /\ HoldsToken(t) /\ Running(rows[t.job])
         /\ rows[t.job].lease # NULL
         /\ RowInv(rows[t.job], spent[t.job], t.job)
         /\ rows[t.job].phase \in Phases
         /\ rows[t.job].phase = "finalizing" => Kind[t.job] = "audit"
  <1>1. t.job \in Jobs
    BY DEF IndInv, HolderInv, Ticket
  <1>2. HoldsToken(t) /\ Running(rows[t.job]) /\ rows[t.job].lease # NULL
    BY DEF May, Owns, OwnsAsSampled, HoldsToken
  <1>3. RowInv(rows[t.job], spent[t.job], t.job)
    BY <1>1 DEF IndInv, RowsInv
  <1>4. t \notin detached /\ \A u \in detached : u.job # t.job
    BY OwnersNotDetached, OwnerAlone DEF IndInv
  <1> QED
    BY <1>1, <1>2, <1>3, <1>4 DEF RowInv, Row

\* Every operation of an invocation keeps the invariant.
LEMMA InvocationKeeps ==
  ASSUME IndInv, NEW t \in tickets, Invocation(t)
  PROVE  IndInv'
  <1> DEFINE j == t.job
             r == rows[j]
  <1>1. /\ j \in Jobs /\ RowInv(r, spent[j], j) /\ r \in Row
        /\ spent = [spent EXCEPT ![j] = spent[j]]
        /\ detached \subseteq tickets /\ sampled \subseteq tickets
    BY DEF IndInv, RowsInv, HolderInv, Ticket, RowInv
  <1>2. HoldsToken(t) => Running(r)
    BY DEF HoldsToken
  <1>3. Quarantined(r) => r.phase = "quarantined"
    BY DEF Quarantined
  <1>4. ASSUME NEW state \in ActiveStates \cup TerminalStates
        PROVE  /\ Released(r, state) \in Row /\ Released(r, state).state = state
               /\ Released(r, state).phase = r.phase
               /\ Released(r, state).owner = NULL
               /\ Released(r, state).token = NULL
               /\ Released(r, state).lease = NULL
               /\ Released(r, state).retry = NULL
    BY <1>1, <1>4, ReleasedFields
  <1>5. r.attempts \in 0..MaxAttempts /\ Refund(r) \in 0..MaxAttempts
    BY <1>1, LedgerAssumption DEF Row, Refund
  <1> HIDE DEF r
  <1>a. CASE SampleClock(t)
    BY <1>1, <1>a, StepWithoutClaim
    DEF IndInv, RowsInv, SampleClock, Untouched
  <1>b. CASE Renew(t)
    <2> DEFINE new == [r EXCEPT !.lease = LeaseSeconds]
    <2>1. Owns(t) /\ SetRow(j, new)
      BY <1>b DEF Renew, r
    <2>2. RowInv(new, spent[j], j) /\ Running(new)
          /\ new.owner = r.owner /\ new.token = r.token
      BY <1>1, <1>2, <2>1, OwnerFacts, LedgerAssumption
      DEF RowInv, Running, Row, Nullable, r
    <2> HIDE DEF new
    <2> QED
      BY <1>b, <2>1, <2>2, OwnerFacts, WriteKeeps DEF Renew, r
  <1>c. CASE \E phase \in Phases : Checkpoint(t, phase)
    <2>1. PICK phase \in Phases : Checkpoint(t, phase)
      BY <1>c
    <2> DEFINE new == [r EXCEPT !.phase = phase]
    <2>2. May(t) /\ SetRow(j, new) /\ phase \in CheckpointPhases(j)
      BY <2>1 DEF Checkpoint, r
    <2>3. phase = "finalizing" => Kind[j] = "audit"
      BY <1>1, <2>2, LedgerAssumption DEF CheckpointPhases, LaneOf, Kinds
    <2>4. RowInv(new, spent[j], j) /\ Running(new)
          /\ new.owner = r.owner /\ new.token = r.token
      BY <1>1, <1>2, <2>2, <2>3, OwnerFacts DEF RowInv, Running, Row, r
    <2> HIDE DEF new
    <2> QED
      BY <2>1, <2>2, <2>4, OwnerFacts, WriteKeeps DEF Checkpoint, r
  <1>d. CASE Complete(t)
    <2> DEFINE new == [Released(r, "completed") EXCEPT !.phase = "complete"]
    <2>1. RowInv(new, spent[j], j) /\ ~Running(new)
      BY <1>1, FinishedRow
    <2>2. May(t) /\ SetRow(j, new) /\ EndTicket(t) /\ UNCHANGED <<detached, proc, spent>>
      BY <1>d DEF Complete, r
    <2> HIDE DEF new
    <2> QED
      BY <1>1, <2>1, <2>2, OwnerFacts, AckKeeps
  <1>e. CASE \E retryable \in BOOLEAN, delay \in 0..MaxDelay : Fail(t, retryable, delay)
    <2>1. PICK retryable \in BOOLEAN, delay \in 0..MaxDelay : Fail(t, retryable, delay)
      BY <1>e
    <2>2. PICK phase : /\ phase = IF Kind[j] = "audit" /\ r.phase # "action_required"
                                    THEN "intent" ELSE r.phase
                       /\ SetRow(j, [Failed(r, retryable, delay) EXCEPT !.phase = phase])
      BY <2>1 DEF Fail, r
    <2>3. May(t) /\ EndTicket(t) /\ UNCHANGED <<detached, proc>>
          /\ spent' = [spent EXCEPT ![j] = spent[j] + 1]
      BY <2>1 DEF Fail
    <2>4. /\ Running(r) /\ phase \in Phases
          /\ phase = "finalizing" => Kind[j] = "audit"
      BY <2>2, <2>3, OwnerFacts DEF Phases, r
    <2> DEFINE new == [Failed(r, retryable, delay) EXCEPT !.phase = phase]
    <2>5. RowInv(new, spent[j] + 1, j) /\ ~Running(new)
      BY <1>1, <2>2, <2>4, FailedRow
    <2> HIDE DEF new
    <2> QED
      BY <2>2, <2>3, <2>5, OwnerFacts, AckKeeps DEF new
  <1>f. CASE Requeue(t)
    <2> DEFINE rel == Released(r, "queued")
               new == [rel EXCEPT !.phase = "intent", !.attempts = Refund(r)]
    <2>1. May(t) /\ SetRow(j, new) /\ EndTicket(t) /\ UNCHANGED <<detached, proc, spent>>
      BY <1>f DEF Requeue, r
    <2>0. /\ rel \in Row /\ rel.state = "queued" /\ rel.phase = r.phase
          /\ rel.owner = NULL /\ rel.token = NULL /\ rel.lease = NULL
          /\ rel.retry = NULL
      BY <1>4 DEF ActiveStates
    <2> HIDE DEF rel
    <2>2. /\ new \in Row /\ new.state = "queued" /\ new.phase = "intent"
          /\ new.attempts = Refund(r) /\ new.retry = NULL
          /\ new.owner = NULL /\ new.token = NULL /\ new.lease = NULL
      BY <1>5, <2>0 DEF Row, Phases
    <2> HIDE DEF new
    <2>3. RowInv(new, spent[j], j) /\ ~Running(new)
      BY <1>1, <1>2, <2>1, <2>2, OwnerFacts, RefundedRow
    <2> QED
      BY <1>1, <2>1, <2>3, OwnerFacts, AckKeeps
  <1>g. CASE \E delay \in 0..MaxDelay : DeferWithoutAttempt(t, delay)
    <2>1. PICK delay \in 0..MaxDelay : DeferWithoutAttempt(t, delay)
      BY <1>g
    <2> DEFINE rel == Released(r, "retry_wait")
               new == [rel EXCEPT !.attempts = Refund(r), !.retry = delay]
    <2>2. Owns(t) /\ SetRow(j, new) /\ EndTicket(t) /\ UNCHANGED <<detached, proc, spent>>
      BY <2>1 DEF DeferWithoutAttempt, r
    <2>0. /\ rel \in Row /\ rel.state = "retry_wait" /\ rel.phase = r.phase
          /\ rel.owner = NULL /\ rel.token = NULL /\ rel.lease = NULL
      BY <1>4 DEF ActiveStates
    <2> HIDE DEF rel
    <2>3. /\ new \in Row /\ new.state = "retry_wait" /\ new.phase = r.phase
          /\ new.attempts = Refund(r)
          /\ new.owner = NULL /\ new.token = NULL /\ new.lease = NULL
      BY <1>5, <2>0 DEF Row, Nullable
    <2> HIDE DEF new
    <2>4. RowInv(new, spent[j], j) /\ ~Running(new)
      BY <1>1, <1>2, <2>2, <2>3, OwnerFacts, RefundedRow DEF r
    <2> QED
      BY <1>1, <2>2, <2>4, OwnerFacts, AckKeeps
  <1>h. CASE \E delay \in 0..MaxDelay : DeferUntil(t, delay)
    <2>1. PICK delay \in 0..MaxDelay : DeferUntil(t, delay)
      BY <1>h
    <2> DEFINE base == IF delay = 0
                         THEN Released(r, "superseded")
                         ELSE [Released(r, "retry_wait") EXCEPT !.retry = delay]
               new  == [base EXCEPT !.attempts = Refund(r)]
    <2>2. Owns(t) /\ SetRow(j, new) /\ EndTicket(t) /\ UNCHANGED <<detached, proc, spent>>
      BY <2>1 DEF DeferUntil, r
    <2>3. /\ base \in Row /\ base.state \in {"superseded", "retry_wait"}
          /\ base.phase = r.phase
          /\ base.state = "superseded" => base.retry = NULL
          /\ base.owner = NULL /\ base.token = NULL /\ base.lease = NULL
      BY <1>4 DEF Row, Nullable, ActiveStates, TerminalStates
    <2> HIDE DEF base
    <2>4. /\ new \in Row /\ new.state \in {"superseded", "retry_wait"}
          /\ new.phase = r.phase /\ new.attempts = Refund(r)
          /\ new.state = "superseded" => new.retry = NULL
          /\ new.owner = NULL /\ new.token = NULL /\ new.lease = NULL
      BY <1>5, <2>3 DEF Row
    <2> HIDE DEF new
    <2>5. RowInv(new, spent[j], j) /\ ~Running(new)
      BY <1>1, <1>2, <2>2, <2>4, OwnerFacts, RefundedRow DEF r
    <2> QED
      BY <1>1, <2>2, <2>5, OwnerFacts, AckKeeps
  <1>i. CASE CancelOwned(t)
    <2> DEFINE new == [Released(r, "cancelled") EXCEPT !.phase = "complete"]
    <2>1. RowInv(new, spent[j], j) /\ ~Running(new)
      BY <1>1, FinishedRow
    <2>2. /\ Owns(t) \/ OwnsAsSampled(t)
          /\ SetRow(j, new) /\ EndTicket(t) /\ UNCHANGED <<detached, proc, spent>>
      BY <1>i DEF CancelOwned, r
    <2> HIDE DEF new
    <2> QED
      BY <1>1, <2>1, <2>2, OwnerFacts, AckKeeps
  <1>j. CASE Quarantine(t)
    <2> DEFINE new == [r EXCEPT !.phase = "quarantined", !.lease = NULL,
                                !.retry = NULL]
    <2>1. /\ HoldsToken(t) /\ SetRow(j, new)
          /\ detached' = detached \cup {t}
          /\ UNCHANGED <<tickets, sampled, proc, spent>>
      BY <1>j DEF Quarantine, r
    <2>2. RowInv(new, spent[j], j) /\ Quarantined(new) /\ new.lease = NULL
          /\ new.owner = r.owner /\ new.token = r.token
      BY <1>1, <1>2, <2>1 DEF RowInv, Running, Quarantined, Row, Nullable, Phases
    <2> HIDE DEF new
    <2> QED
      BY <2>1, <2>2, WriteKeeps DEF Quarantined, r
  <1>k. CASE \E phase \in {"intent", "working"} : SettleReturned(t, phase)
    <2>1. PICK phase \in {"intent", "working"} : SettleReturned(t, phase)
      BY <1>k
    <2> DEFINE rel == Released(r, "queued")
               new == [rel EXCEPT !.phase = phase, !.attempts = Refund(r)]
    <2>2. /\ HoldsToken(t) /\ SetRow(j, new) /\ EndTicket(t)
          /\ detached' = detached \ {t} /\ UNCHANGED <<proc, spent>>
      BY <2>1 DEF SettleReturned, r
    <2>0. /\ rel \in Row /\ rel.state = "queued" /\ rel.phase = r.phase
          /\ rel.owner = NULL /\ rel.token = NULL /\ rel.lease = NULL
          /\ rel.retry = NULL
      BY <1>4 DEF ActiveStates
    <2> HIDE DEF rel
    <2>3. /\ new \in Row /\ new.state = "queued" /\ new.phase = phase
          /\ new.attempts = Refund(r) /\ new.retry = NULL
          /\ new.owner = NULL /\ new.token = NULL /\ new.lease = NULL
      BY <1>5, <2>0 DEF Row, Phases
    <2> HIDE DEF new
    <2>4. RowInv(new, spent[j], j) /\ ~Running(new)
      BY <1>1, <1>2, <2>2, <2>3, RefundedRow
    <2> QED
      BY <1>1, <2>2, <2>4, AckKeeps
  <1>l. CASE \E retryable \in BOOLEAN, delay \in 0..MaxDelay :
               SettleFailed(t, retryable, delay)
    <2>1. PICK retryable \in BOOLEAN, delay \in 0..MaxDelay :
            SettleFailed(t, retryable, delay)
      BY <1>l
    <2> DEFINE new == [Failed(r, retryable, delay) EXCEPT !.phase = "intent"]
    <2>2. /\ HoldsToken(t) /\ SetRow(j, new) /\ EndTicket(t)
          /\ detached' = detached \ {t} /\ UNCHANGED proc
          /\ spent' = [spent EXCEPT ![j] = spent[j] + 1]
      BY <2>1 DEF SettleFailed, r
    <2>3. RowInv(new, spent[j] + 1, j) /\ ~Running(new)
      BY <1>1, <1>2, <2>2, FailedRow DEF Phases
    <2> HIDE DEF new
    <2> QED
      BY <2>2, <2>3, AckKeeps
  <1>m. CASE Forget(t)
    BY <1>1, <1>m, StepWithoutClaim
    DEF IndInv, RowsInv, Forget, EndTicket, Untouched
  <1> QED
    BY <1>a, <1>b, <1>c, <1>d, <1>e, <1>f, <1>g, <1>h, <1>i, <1>j, <1>k, <1>l, <1>m
    DEF Invocation

\* Time, crashes and restarts keep the invariant.
LEMMA EnvironmentKeeps ==
  ASSUME IndInv, Environment
  PROVE  IndInv'
  <1>1. CASE Tick
    <2>1. /\ UNCHANGED <<tickets, sampled, detached, proc, spent>>
          /\ rows' = [j \in Jobs |->
                        [rows[j] EXCEPT !.lease = Later(rows[j].lease),
                                        !.retry = Later(rows[j].retry)]]
      BY <1>1 DEF Tick
    <2>2. ASSUME NEW j \in Jobs PROVE LetGo(j) \/ Rewritten(j) \/ Untouched(j)
      <3>1. /\ RowInv(rows[j], spent[j], j)
            /\ rows'[j] = [rows[j] EXCEPT !.lease = Later(rows[j].lease),
                                          !.retry = Later(rows[j].retry)]
        BY <2>1 DEF IndInv, RowsInv
      <3>2. RowInv(rows'[j], spent'[j], j)
        BY <2>1, <3>1, LaterRow
      <3>a. rows[j] \in Row
        BY <3>1 DEF RowInv
      <3>b. rows[j].lease = NULL => Later(rows[j].lease) = NULL
        BY <3>1, LaterRow
      <3>3. /\ rows'[j].state = rows[j].state /\ rows'[j].phase = rows[j].phase
            /\ rows'[j].owner = rows[j].owner /\ rows'[j].token = rows[j].token
            /\ rows[j].lease = NULL => rows'[j].lease = NULL
        BY <3>1, <3>a, <3>b DEF Row
      <3>4. CASE Running(rows[j])
        BY <2>1, <3>2, <3>3, <3>4
        DEF IndInv, DetachedCallFenced, Rewritten, Running, Quarantined
      <3>5. CASE ~Running(rows[j])
        BY <2>1, <3>2, <3>3, <3>5
        DEF IndInv, DetachedCallFenced, LetGo, Running, HoldsToken, Quarantined
      <3> QED
        BY <3>4, <3>5
    <2> QED
      BY <2>1, <2>2, StepWithoutClaim DEF IndInv, HolderInv, RowsInv
  <1>2. ASSUME NEW o \in Owners, Crash(o) PROVE IndInv'
    <2>1. RowsInv' /\ OneRunningPerTask' /\ DetachedCallFenced'
      BY <1>2 DEF Crash, IndInv, RowsInv, OneRunningPerTask, DetachedCallFenced,
                  HoldsToken
    <2>2. HolderInv'
      BY <1>2 DEF Crash, IndInv, HolderInv, HoldsToken, Ticket
    <2> QED
      BY <2>1, <2>2 DEF IndInv
  <1>3. ASSUME NEW o \in Owners, StartProcess(o) \/ FinishStart(o) PROVE IndInv'
    <2>1. RowsInv' /\ OneRunningPerTask' /\ DetachedCallFenced'
      BY <1>3 DEF StartProcess, FinishStart, IndInv, RowsInv, OneRunningPerTask,
                  DetachedCallFenced, HoldsToken
    <2>2. HolderInv'
      BY <1>3 DEF StartProcess, FinishStart, IndInv, HolderInv, HoldsToken, Ticket
    <2> QED
      BY <2>1, <2>2 DEF IndInv
  <1> QED
    BY <1>1, <1>2, <1>3 DEF Environment

-----------------------------------------------------------------------------
(***************************************************************************)
(* Theorems.                                                               *)
(***************************************************************************)

\* Every step of the ledger keeps the inductive invariant.
LEMMA StepKeeps ==
  ASSUME IndInv, [Next]_vars
  PROVE  IndInv'
  <1>1. CASE Next
    BY <1>1, SchedulingKeeps, ClaimingKeeps, InvocationKeeps, EnvironmentKeeps
    DEF Next
  <1>2. CASE UNCHANGED vars
    BY <1>2 DEF vars, IndInv, RowsInv, HolderInv, DetachedCallFenced,
                OneRunningPerTask, HoldsToken
  <1> QED
    BY <1>1, <1>2

\* The inductive invariant holds in every reachable state.
THEOREM Invariance == Spec => []IndInv
  <1>1. IndInv /\ [Next]_vars => IndInv'
    BY StepKeeps
  <1> QED
    BY <1>1, InitIndInv, PTL DEF Spec

\* Every variable keeps its type, counters their bounds included.
THEOREM TypeCorrect == Spec => []TypeOK
  <1>1. IndInv => TypeOK
    BY DEF IndInv, RowsInv, RowInv, HolderInv, TypeOK
  <1> QED
    BY <1>1, Invariance, PTL

\* Two rows of one task never run at once, except a repair beside
\* implementation work, for any number of rows, lanes and runtimes.
THEOREM OneRunning == Spec => []OneRunningPerTask
  <1>1. IndInv => OneRunningPerTask
    BY DEF IndInv
  <1> QED
    BY <1>1, Invariance, PTL

\* The attempt counter always equals the charged failures plus the attempt in
\* flight, and a waiting row has an attempt left.
THEOREM AttemptsAccounted == Spec => []AttemptAccounting
  <1>1. IndInv => AttemptAccounting
    BY DEF IndInv, RowsInv, RowInv, AttemptAccounting
  <1> QED
    BY <1>1, Invariance, PTL

\* Leases exist exactly on running rows.
THEOREM LeasesWellFormed == Spec => []LeaseShape
  <1>1. IndInv => LeaseShape
    BY DEF IndInv, RowsInv, RowInv, LeaseShape
  <1> QED
    BY <1>1, Invariance, PTL

\* A detached call fences its row as long as its process lives.
THEOREM DetachedFenced == Spec => []DetachedCallFenced
  <1>1. IndInv => DetachedCallFenced
    BY DEF IndInv
  <1> QED
    BY <1>1, Invariance, PTL

-----------------------------------------------------------------------------
(***************************************************************************)
(* Action properties: what one step may do to a row.                       *)
(***************************************************************************)

\* A step of an invocation only touches the row it holds; if that row loses
\* its lease, the invocation ends with the step.
LEMMA InvocationTouches ==
  ASSUME IndInv, NEW t \in tickets, Invocation(t), NEW j \in Jobs,
         rows'[j] # rows[j]
  PROVE  /\ t.job = j /\ HoldsToken(t) /\ Running(rows[j])
         /\ t = [job |-> j, token |-> rows[j].token, owner |-> rows[j].owner]
         /\ \/ t \notin tickets'
            \/ rows'[j].token = rows[j].token /\ rows'[j].state = rows[j].state
  <1>1. /\ t.job \in Jobs /\ t \in Ticket
        /\ HoldsToken(t) => rows[t.job].owner = t.owner
    BY DEF IndInv, HolderInv, Ticket
  <1>2. rows[t.job] \in Row /\ rows = [k \in Jobs |-> rows[k]]
    BY <1>1 DEF IndInv, RowsInv, RowInv
  <1>3. HoldsToken(t) /\ \E r : SetRow(t.job, r)
    BY DEF Invocation, SampleClock, Renew, Checkpoint, Complete, Fail, Requeue,
           DeferWithoutAttempt, DeferUntil, CancelOwned, Quarantine,
           SettleReturned, SettleFailed, Forget, May, Owns, OwnsAsSampled
  <1>4. t.job = j
    BY <1>1, <1>2, <1>3 DEF SetRow
  <1>5. t = [job |-> j, token |-> rows[j].token, owner |-> rows[j].owner]
    BY <1>1, <1>3, <1>4 DEF Ticket, HoldsToken
  <1>6. EndTicket(t) => t \notin tickets'
    BY DEF EndTicket
  <1> DEFINE Kept == rows'[j].token = rows[j].token /\ rows'[j].state = rows[j].state
  <1>7. ASSUME Renew(t) \/ Quarantine(t) PROVE Kept
    BY <1>1, <1>2, <1>4, <1>7 DEF Renew, Quarantine, SetRow, Row
  <1>8. ASSUME NEW phase \in Phases, Checkpoint(t, phase) PROVE Kept
    BY <1>1, <1>2, <1>4, <1>8 DEF Checkpoint, SetRow, Row
  <1>9. ~SampleClock(t)
    BY DEF SampleClock
  <1>10. ASSUME \/ Complete(t) \/ Requeue(t) \/ CancelOwned(t) \/ Forget(t)
         PROVE  EndTicket(t)
    BY <1>10 DEF Complete, Requeue, CancelOwned, Forget
  <1>11. ASSUME NEW retryable, NEW delay, NEW phase,
                \/ Fail(t, retryable, delay) \/ SettleFailed(t, retryable, delay)
                \/ DeferWithoutAttempt(t, delay) \/ DeferUntil(t, delay)
                \/ SettleReturned(t, phase)
         PROVE  EndTicket(t)
    BY <1>11 DEF Fail, SettleFailed, DeferWithoutAttempt, DeferUntil, SettleReturned
  <1> HIDE DEF Kept
  <1>12. EndTicket(t) \/ Kept
    BY <1>7, <1>8, <1>9, <1>10, <1>11 DEF Invocation
  <1> QED
    BY <1>3, <1>4, <1>5, <1>6, <1>12 DEF HoldsToken, Kept

\* A claim changes no running row but expired ones of its lane.
LEMMA ClaimTouches ==
  ASSUME IndInv, NEW o \in Owners, NEW k \in Jobs, NEW tok \in Tokens,
         ClaimNext(o, k, tok),
         NEW j \in Jobs, rows'[j] # rows[j]
  PROVE  j \in ExpiredJobs(LaneOf(k)) \/ Due(rows[j])
  <1> DEFINE lane == LaneOf(k)
  <1>1. /\ Claimable(RecoverAll(ExpiredJobs(lane)), k, lane)
        /\ rows' = [RecoverAll(ExpiredJobs(lane)) EXCEPT ![k] =
                      Claimed(RecoverAll(ExpiredJobs(lane))[k], o, tok)]
    BY DEF ClaimNext
  <1> HIDE DEF lane
  <1>2. CASE j = k
    BY <1>1, <1>2 DEF Claimable, RecoverAll, lane
  <1>3. CASE j # k
    BY <1>1, <1>3 DEF RecoverAll, lane
  <1> QED
    BY <1>2, <1>3

\* How a running row may lose its token or its state.
LEMMA LeaseLost ==
  ASSUME IndInv, Next, NEW j \in Jobs, Running(rows[j]),
         rows'[j].token # rows[j].token \/ ~Running(rows'[j])
  PROVE  LET holder == [job |-> j, token |-> rows[j].token, owner |-> rows[j].owner]
         IN \/ rows'[j].state \in {"superseded", "cancelled"}
            \/ j \in ExpiredJobs(LaneOf(j))
            \/ LaneOf(j) = "runtime" /\ proc[rows[j].owner] = "down"
            \/ Kind[j] = "audit" /\ holder \notin tickets /\ Running(rows'[j])
            \/ holder \in tickets /\ holder \notin tickets'
  <1>1. /\ rows[j] \in Row /\ rows = [k \in Jobs |-> rows[k]]
        /\ rows'[j] # rows[j] /\ ~Due(rows[j])
        /\ \A k \in Jobs, state \in {"superseded", "cancelled"} :
              Released(rows[k], state).state = state
    BY ReleasedFields DEF IndInv, RowsInv, RowInv, Running, Due, TerminalStates
  <1>2. CASE Scheduling
    <2>1. \A k \in Jobs : Enqueue(k) \/ Rearm(k) => k # j
      BY DEF Enqueue, Rearm, Running
    <2>2. ASSUME NEW k \in Jobs, Enqueue(k) \/ Rearm(k) PROVE FALSE
      BY <1>1, <2>1, <2>2 DEF Enqueue, Rearm, SetRow
    <2>3. ASSUME NEW k \in Jobs, Supersede(k) \/ Cancel(k)
          PROVE  rows'[j].state \in {"superseded", "cancelled"}
      BY <1>1, <2>3 DEF Supersede, Cancel, SetRow
    <2>4. ASSUME NEW task \in Tasks, NEW keep \in Generations,
                 SupersedeTask(task, keep)
          PROVE  rows'[j].state \in {"superseded", "cancelled"}
      BY <1>1, <2>4 DEF SupersedeTask
    <2> QED
      BY <1>2, <2>2, <2>3, <2>4 DEF Scheduling
  <1>3. CASE Claiming
    <2>1. \A lane : j \in ExpiredJobs(lane) => lane = LaneOf(j)
      BY DEF ExpiredJobs, LaneJobs
    <2>2. ASSUME NEW lane \in Lanes, RecoverExpired(lane)
          PROVE  j \in ExpiredJobs(LaneOf(j))
      BY <1>1, <2>1, <2>2 DEF RecoverExpired, RecoverAll
    <2>3. ASSUME NEW o \in Owners, NEW k \in Jobs, NEW tok \in Tokens,
                 ClaimNext(o, k, tok)
          PROVE  j \in ExpiredJobs(LaneOf(j))
      BY <1>1, <2>1, <2>3, ClaimTouches
    <2>4. ASSUME NEW o \in Owners, NEW dead \in Owners, NEW phase \in Phases,
                 RecoverAbandoned(o, dead, phase)
          PROVE  LaneOf(j) = "runtime" /\ proc[rows[j].owner] = "down"
      BY <1>1, <2>4 DEF RecoverAbandoned, RecoverAll, AbandonedJobs, LaneJobs
    <2>5. ASSUME NEW o \in Owners, NEW k \in Jobs, NEW tok \in Tokens,
                 Reclaim(o, k, tok)
          PROVE  /\ Kind[j] = "audit" /\ Running(rows'[j])
                 /\ [job |-> j, token |-> rows[j].token, owner |-> rows[j].owner]
                      \notin tickets
      <3>1. k = j
        BY <1>1, <2>5 DEF Reclaim, SetRow
      <3> QED
        BY <1>1, <2>5, <3>1 DEF Reclaim, SetRow, Running, Row
    <2> QED
      BY <1>3, <2>2, <2>3, <2>4, <2>5 DEF Claiming
  <1>4. CASE \E t \in tickets : Invocation(t)
    BY <1>1, <1>4, InvocationTouches DEF Running
  <1>5. ASSUME Environment PROVE FALSE
    <2>1. ~Tick
      BY <1>1 DEF Tick, Running, Row
    <2> QED
      BY <1>1, <1>5, <2>1 DEF Environment, Crash, StartProcess, FinishStart
  <1> QED
    BY <1>2, <1>3, <1>4, <1>5 DEF Next

\* Revoked rows do not change.
LEMMA RevokedStep ==
  ASSUME IndInv, Next, NEW j \in Jobs, rows[j].state \in {"superseded", "cancelled"}
  PROVE  rows'[j] = rows[j]
  <1>1. /\ rows[j] \in Row /\ rows = [k \in Jobs |-> rows[k]]
        /\ rows[j].lease = NULL /\ rows[j].retry = NULL
        /\ ~Running(rows[j]) /\ ~Due(rows[j])
        /\ rows[j].state \notin ActiveStates \cup {"absent", "completed", "exhausted"}
    BY DEF IndInv, RowsInv, RowInv, Running, Due, ActiveStates
  <1>2. CASE Scheduling
    BY <1>1, <1>2
    DEF Scheduling, Enqueue, Supersede, Cancel, Rearm, SupersedeTask, SupersededBy,
        SetRow
  <1>3. CASE Claiming
    <2>1. \A lane : j \notin ExpiredJobs(lane)
      BY <1>1 DEF ExpiredJobs, Expired
    <2>2. ASSUME NEW lane \in Lanes, RecoverExpired(lane) PROVE rows'[j] = rows[j]
      BY <2>1, <2>2 DEF RecoverExpired, RecoverAll
    <2>3. ASSUME NEW o \in Owners, NEW k \in Jobs, NEW tok \in Tokens,
                 ClaimNext(o, k, tok)
          PROVE  rows'[j] = rows[j]
      BY <1>1, <2>1, <2>3, ClaimTouches
    <2>4. ASSUME NEW o \in Owners, NEW dead \in Owners, NEW phase \in Phases,
                 RecoverAbandoned(o, dead, phase)
          PROVE  rows'[j] = rows[j]
      BY <1>1, <2>4 DEF RecoverAbandoned, RecoverAll, AbandonedJobs
    <2>5. ASSUME NEW o \in Owners, NEW k \in Jobs, NEW tok \in Tokens,
                 Reclaim(o, k, tok)
          PROVE  rows'[j] = rows[j]
      BY <1>1, <2>5 DEF Reclaim, SetRow
    <2> QED
      BY <1>3, <2>2, <2>3, <2>4, <2>5 DEF Claiming
  <1>4. CASE \E t \in tickets : Invocation(t)
    BY <1>1, <1>4, InvocationTouches
  <1>5. CASE Environment
    <2>1. CASE Tick
      <3>1. Later(NULL) = NULL
        BY DEF Later
      <3>2. rows'[j] = [rows[j] EXCEPT !.lease = NULL, !.retry = NULL]
        BY <1>1, <2>1, <3>1 DEF Tick
      <3> QED
        BY <1>1, <3>2 DEF Row
    <2> QED
      BY <1>5, <2>1 DEF Environment, Crash, StartProcess, FinishStart
  <1> QED
    BY <1>2, <1>3, <1>4, <1>5 DEF Next

\* Superseded and cancelled work is never revived.
THEOREM RevocationFinal == Spec => RevokedStaysRevoked
  <1>1. IndInv /\ [Next]_vars =>
          [\A j \in Jobs : rows[j].state \in {"superseded", "cancelled"} =>
             rows'[j] = rows[j]]_vars
    BY RevokedStep
  <1> QED
    BY <1>1, Invariance, PTL DEF Spec, RevokedStaysRevoked

\* Nobody loses a lease but by revocation, expiry, death, silence of an audit
\* or its own call, whatever the number of rows, tokens and runtimes.
THEOREM LeasesRespected == Spec => LeaseRespected
  <1> DEFINE Holder(j) == [job |-> j, token |-> rows[j].token, owner |-> rows[j].owner]
             A == \A j \in Jobs :
                    (Running(rows[j]) /\ rows'[j].token # rows[j].token) =>
                      \/ rows'[j].state \in {"superseded", "cancelled"}
                      \/ Expired(rows[j])
                      \/ proc[rows[j].owner] = "down"
                      \/ Kind[j] = "audit" /\ Holder(j) \notin tickets
                      \/ Holder(j) \in tickets /\ Holder(j) \notin tickets'
  <1>1. IndInv /\ Next => A
    BY LeaseLost DEF ExpiredJobs
  <1>2. IndInv /\ [Next]_vars => [A]_vars
    BY <1>1
  <1>3. Spec => [][A]_vars
    <2> HIDE DEF A
    <2> QED
      BY <1>2, Invariance, PTL DEF Spec
  <1> QED
    BY <1>3 DEF LeaseRespected

\* Generic recovery never takes a durable typed audit result.
THEOREM FinalizingPreserved == Spec => FinalizingKept
  <1> DEFINE A == \A j \in Jobs :
                    (/\ Running(rows[j])
                     /\ rows[j].phase = "finalizing"
                     /\ rows'[j].state \in {"queued", "retry_wait", "exhausted"})
                    => \E t \in tickets \ tickets' :
                          t.job = j /\ t.token = rows[j].token
  <1>1. ASSUME IndInv, Next, NEW j \in Jobs,
               Running(rows[j]), rows[j].phase = "finalizing",
               rows'[j].state \in {"queued", "retry_wait", "exhausted"}
        PROVE  \E t \in tickets \ tickets' : t.job = j /\ t.token = rows[j].token
    <2>1. Kind[j] = "audit" /\ LaneOf(j) # "runtime"
      BY <1>1 DEF IndInv, RowsInv, RowInv, LaneOf
    <2>2. ~Running(rows'[j])
      BY <1>1 DEF Running
    <2>3. j \notin ExpiredJobs(LaneOf(j))
      BY <1>1, <2>1 DEF ExpiredJobs
    <2>4. [job |-> j, token |-> rows[j].token, owner |-> rows[j].owner]
            \in tickets \ tickets'
      BY <1>1, <2>1, <2>2, <2>3, LeaseLost
    <2> QED
      BY <2>4
  <1>2. IndInv /\ [Next]_vars => [A]_vars
    BY <1>1
  <1>3. Spec => [][A]_vars
    <2> HIDE DEF A
    <2> QED
      BY <1>2, Invariance, PTL DEF Spec
  <1> QED
    BY <1>3 DEF FinalizingKept

=============================================================================
