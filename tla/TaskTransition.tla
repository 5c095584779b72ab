--------------------------- MODULE TaskTransition ---------------------------
(***************************************************************************)
(* The transition service of one task, oompah/task_transition_service.py:  *)
(* a journal that registers each intent once, gives the task to one saga   *)
(* at a time by a claim with a lease, and records how each saga ends.  The *)
(* sagas read the tracker, write it and read it again, in separate steps;  *)
(* nothing renews or checks the claim between them.                        *)
(***************************************************************************)
EXTENDS Naturals

CONSTANTS
  Intents,     \* transition intents, by idempotency key
  Executors,   \* callers of execute and recover_authorized
  Lane,        \* how each intent writes: "plain", "guarded", "terminal" or "recovery"
  Target,      \* the status that each intent requests
  Statuses,    \* canonical statuses of a task
  MaxRev,      \* bound: values of the other fields of the authority version
  NULL

Nullable(S) == S \cup {NULL}

\* token is the executor that holds the claim token, NULL when it is gone.
Claims == [intent : Intents, token : Nullable(Executors), expired : BOOLEAN]

ASSUME TransitionAssumption ==
  /\ Lane \in [Intents -> {"plain", "guarded", "terminal", "recovery"}]
  /\ Target \in [Intents -> Statuses]
  /\ "validation" \in Statuses
  /\ MaxRev \in Nat
  /\ NULL \notin Intents \cup Executors \cup Claims

VARIABLES
  issue,      \* the task in the tracker
  expected,   \* expected_status and expected_version of each intent
  phase,      \* phase of the latest event of each intent
  claim,      \* task_transition_claims: the claim on the task
  ex,         \* the calls in progress
  reached,    \* intents whose goal the task has reached since they were built
  overrun     \* whether a saga has outlived its claim

vars == <<issue, expected, phase, claim, ex, reached, overrun>>

\* The status, and the other fields that issue_authority_version hashes.
Issues == [status : Statuses, rev : 0..MaxRev]

FinalPhases == {"applied", "recovered", "staged", "rejected"}

\* "retry" stands for retryable_failure and for verification_pending.
Phases == {"none", "requested", "waiting", "applying", "retry"} \cup FinalPhases

Settled(i) == phase[i] \in FinalPhases

\* want is the intent of the call, doing the one in execution; resumed: the
\* previous phase says that an effect may have been started; say is the phase
\* to append.  obliged: doing is the intent of a claim that was taken over, and
\* the call goes on with its own intent once that one is settled.
Calls == [pc : {"idle", "fetching", "saying", "applying", "verifying", "resolving",
                "releasing", "retaining", "deferring", "again"},
          want : Nullable(Intents), doing : Nullable(Intents), resumed : BOOLEAN,
          say : Phases, obliged : BOOLEAN]

IdleCall == [pc |-> "idle", want |-> NULL, doing |-> NULL, resumed |-> FALSE,
             say |-> "none", obliged |-> FALSE]

Init ==
  /\ issue \in [status : Statuses, rev : {0}]
  /\ expected = [i \in Intents |-> NULL]
  /\ phase = [i \in Intents |-> "none"]
  /\ claim = NULL
  /\ ex = [e \in Executors |-> IdleCall]
  /\ reached = {} /\ overrun = FALSE

\* A terminal intent never writes its target: the auditor does, later.
Goal(i) == IF Lane[i] = "terminal" THEN "validation" ELSE Target[i]

\* What the tracker shows after a write.
Tracker(s) ==
  /\ issue' = s
  /\ reached' = reached \cup {i \in Intents : /\ expected[i] # NULL
                                              /\ s.status \in {Goal(i), Target[i]}}

SameTracker == UNCHANGED <<issue, reached>>

-----------------------------------------------------------------------------
(* Callers and other writers *)

\* A caller reads the task and builds an intent from it.
BuildIntent(i) ==
  /\ expected[i] = NULL
  /\ expected' = [expected EXCEPT ![i] = issue]
  /\ reached' = IF issue.status \in {Goal(i), Target[i]} THEN reached \cup {i} ELSE reached
  /\ UNCHANGED <<issue, phase, claim, ex, overrun>>

\* Any other writer of the tracker: an owner, the auditor, a direct write.
OtherWrite(s) ==
  /\ s # issue
  /\ Tracker(s)
  /\ UNCHANGED <<expected, phase, claim, ex, overrun>>

-----------------------------------------------------------------------------
(* begin: one transaction of the journal *)

Calling(e, i) ==
  /\ expected[i] # NULL
  /\ ex[e].pc = "idle" \/ (ex[e].pc = "again" /\ ex[e].want = i)

Return(e) == ex' = [ex EXCEPT ![e] = IdleCall]

\* The latest event is final: its outcome is returned, and a claim that the
\* intent still has is retired.
Replay(e, i) ==
  /\ Calling(e, i) /\ Settled(i)
  /\ claim' = IF claim # NULL /\ claim.intent = i THEN NULL ELSE claim
  /\ Return(e)
  /\ UNCHANGED <<expected, phase, overrun>> /\ SameTracker

WaitUnchecked(e, i) ==
  /\ Calling(e, i)
  /\ claim # NULL /\ ~claim.expired
  /\ phase' = [phase EXCEPT ![i] = "waiting"]
  /\ Return(e)
  /\ UNCHANGED <<expected, claim, overrun>> /\ SameTracker

Wait(e, i) ==
  /\ Calling(e, i) /\ ~Settled(i)
  /\ claim # NULL /\ ~claim.expired
  /\ phase' = [phase EXCEPT ![i] = "waiting"]
  /\ Return(e)
  /\ UNCHANGED <<expected, claim, overrun>> /\ SameTracker

\* Starts the saga of intent i for the call of intent w.
Start(e, i, w, resumed, obliged) ==
  /\ claim' = [intent |-> IF claim # NULL /\ claim.intent # w /\ ~Settled(claim.intent)
                            THEN claim.intent ELSE w,
               token |-> e, expired |-> FALSE]
  /\ ex' = [ex EXCEPT ![e] = [IdleCall EXCEPT !.pc = "fetching", !.want = w, !.doing = i,
                                              !.resumed = resumed, !.obliged = obliged]]

Resumable(i) == phase[i] \in {"applying", "retry"}

\* The expired claim belongs to another intent that is not settled: the claim
\* is taken over and that intent is executed first.  The second begin of a call
\* ignores the intent it is given, and executes its own under this claim.
TakeOver(e, i) ==
  LET j == claim.intent
      own == ex[e].pc = "again"
  IN /\ Calling(e, i) /\ ~Settled(i)
     /\ claim # NULL /\ claim.expired /\ j # i /\ ~Settled(j)
     /\ phase' = [phase EXCEPT ![j] = "retry", ![i] = "waiting"]
     /\ IF own THEN Start(e, i, i, FALSE, FALSE) ELSE Start(e, j, i, Resumable(j), TRUE)
     /\ UNCHANGED <<expected, overrun>> /\ SameTracker

AcquireSettled(e, i) ==
  /\ Calling(e, i)
  /\ claim # NULL => claim.expired /\ (claim.intent = i \/ Settled(claim.intent))
  /\ phase' = [phase EXCEPT ![i] = IF @ = "none" THEN "requested" ELSE @]
  /\ Start(e, i, i, Resumable(i), FALSE)
  /\ UNCHANGED <<expected, overrun>> /\ SameTracker

Acquire(e, i) ==
  /\ Calling(e, i) /\ ~Settled(i)
  /\ claim # NULL => claim.expired /\ (claim.intent = i \/ Settled(claim.intent))
  /\ phase' = [phase EXCEPT ![i] = IF @ = "none" THEN "requested" ELSE @]
  /\ Start(e, i, i, Resumable(i), FALSE)
  /\ UNCHANGED <<expected, overrun>> /\ SameTracker

-----------------------------------------------------------------------------
(* _execute_claimed and _recover_authorized_claimed *)

At(e, pc) == ex[e].pc = pc

Decide(e, p) ==
  /\ ex' = [ex EXCEPT ![e].pc = "saying", ![e].say = p, ![e].resumed = FALSE]
  /\ UNCHANGED <<expected, phase, claim, overrun>>

Go(e, pc) ==
  /\ ex' = [ex EXCEPT ![e].pc = pc]
  /\ UNCHANGED <<expected, phase, claim, overrun>>

\* What the first read of the tracker decides, before any policy.
Reading(i, resumed) ==
  IF \/ issue.status = Target[i]
     \/ Lane[i] = "terminal" /\ issue.status = "validation" /\ resumed
    THEN "recovered"
  ELSE IF issue # expected[i] \/ Target[i] = "validation" THEN "rejected"
  ELSE "applying"

Fetch(e) ==
  /\ At(e, "fetching")
  /\ Decide(e, Reading(ex[e].doing, ex[e].resumed))
  /\ SameTracker

\* The tracker, or the lineage of an epic, cannot be read.
FetchFails(e) ==
  /\ At(e, "fetching")
  /\ Decide(e, "retry")
  /\ SameTracker

\* Edges, authorities, generations and heads; a recovery intent skips them.
Refuse(e) ==
  /\ At(e, "fetching")
  /\ Lane[ex[e].doing] # "recovery"
  /\ Reading(ex[e].doing, ex[e].resumed) = "applying"
  /\ Decide(e, "rejected")
  /\ SameTracker

\* After an outcome the finally clause runs: it keeps the claim of an obligation
\* that has to be retried, and releases any other.
Finally(e) ==
  IF ex[e].say = "retry" /\ ex[e].obliged THEN "retaining" ELSE "releasing"

\* append: the journal asks for no claim.
Say(e) ==
  /\ At(e, "saying")
  /\ phase' = [phase EXCEPT ![ex[e].doing] = ex[e].say]
  /\ ex' = [ex EXCEPT ![e].pc = IF ex[e].say = "applying" THEN "applying" ELSE Finally(e),
                      ![e].say = "none"]
  /\ UNCHANGED <<expected, claim, overrun>> /\ SameTracker

\* The append raises, and so does the call after the finally clause.
SayFails(e) ==
  /\ At(e, "saying")
  /\ ex' = [ex EXCEPT ![e].pc = Finally(e), ![e].say = "none", ![e].obliged = FALSE]
  /\ UNCHANGED <<expected, phase, claim, overrun>> /\ SameTracker

\* _update writes without comparing; the guarded lanes read again under the
\* project write lock; the terminal adapter stages through the coordinator.
MayWrite(e) ==
  Lane[ex[e].doing] = "guarded" => issue = expected[ex[e].doing]

\* The write is made; acknowledged: its answer arrives.
Write(e, acknowledged) ==
  LET i == ex[e].doing
  IN /\ At(e, "applying") /\ MayWrite(e)
     /\ Tracker([issue EXCEPT !.status = Goal(i)])
     /\ Go(e, IF acknowledged THEN "verifying" ELSE "resolving")

\* The call raises before the write is made, or the coordinator answers
\* success and its write is not visible yet.
WriteLost(e, acknowledged) ==
  /\ At(e, "applying")
  /\ acknowledged => Lane[ex[e].doing] = "terminal"
  /\ Go(e, IF acknowledged THEN "verifying" ELSE "resolving")
  /\ SameTracker

\* The guarded read disagrees or its guard fails; the coordinator refuses, is
\* busy or is not there.
Conflict(e, retry) ==
  LET i == ex[e].doing
  IN /\ At(e, "applying") /\ Lane[i] \in {"guarded", "terminal"}
     /\ Decide(e, IF retry THEN "retry" ELSE "rejected")
     /\ SameTracker

\* The read after the write; the tracker may be unreadable.
VerifyAnswerOnly(e, readable) ==
  /\ At(e, "verifying")
  /\ Decide(e, IF readable THEN IF Lane[ex[e].doing] = "terminal" THEN "staged" ELSE "applied"
                           ELSE "retry")
  /\ SameTracker

Verify(e, readable) ==
  LET i == ex[e].doing
  IN /\ At(e, "verifying")
     /\ Decide(e, IF readable /\ issue.status = Goal(i)
                    THEN IF Lane[i] = "terminal" THEN "staged" ELSE "applied"
                    ELSE "retry")
     /\ SameTracker

\* The read after a write that raised.
Resolve(e, readable) ==
  /\ At(e, "resolving")
  /\ Decide(e, IF readable /\ issue.status = Goal(ex[e].doing) THEN "recovered" ELSE "retry")
  /\ SameTracker

\* The claim is released by its token.  A call that settled the intent of
\* another then begins its own.
Owns(e) == claim # NULL /\ claim.token = e

ReleaseAnyToken(e) ==
  /\ At(e, "releasing")
  /\ claim' = NULL
  /\ ex' = [ex EXCEPT ![e] = IF ex[e].obliged
                                THEN [IdleCall EXCEPT !.pc = "again", !.want = ex[e].want]
                                ELSE IdleCall]
  /\ UNCHANGED <<expected, phase, overrun>> /\ SameTracker

ReleaseWithoutReset(e) ==
  /\ At(e, "releasing")
  /\ claim' = IF Owns(e) THEN NULL ELSE claim
  /\ ex' = [ex EXCEPT ![e] = IF ex[e].obliged THEN [ex[e] EXCEPT !.pc = "again"] ELSE IdleCall]
  /\ UNCHANGED <<expected, phase, overrun>> /\ SameTracker

Release(e) ==
  /\ At(e, "releasing")
  /\ claim' = IF Owns(e) THEN NULL ELSE claim
  /\ ex' = [ex EXCEPT ![e] = IF ex[e].obliged
                                THEN [IdleCall EXCEPT !.pc = "again", !.want = ex[e].want]
                                ELSE IdleCall]
  /\ UNCHANGED <<expected, phase, overrun>> /\ SameTracker

\* An unsettled obligation is left expired for the next caller, and this call
\* notes that it waits; without the claim it raises.
Retain(e) ==
  /\ At(e, "retaining")
  /\ claim' = IF Owns(e) THEN [claim EXCEPT !.token = NULL, !.expired = TRUE] ELSE claim
  /\ ex' = [ex EXCEPT ![e] = IF Owns(e) /\ ex[e].obliged
                                THEN [IdleCall EXCEPT !.pc = "deferring", !.want = ex[e].want]
                                ELSE IdleCall]
  /\ UNCHANGED <<expected, phase, overrun>> /\ SameTracker

Defer(e) ==
  /\ At(e, "deferring")
  /\ phase' = [phase EXCEPT ![ex[e].want] = "waiting"]
  /\ Return(e)
  /\ UNCHANGED <<expected, claim, overrun>> /\ SameTracker

-----------------------------------------------------------------------------
(* Failures *)

Executing(e) == ex[e].pc \in {"fetching", "saying", "applying", "verifying", "resolving"}

\* The process of the call dies; its claim stays until the lease expires.
Crash(e) ==
  /\ ~At(e, "idle")
  /\ Return(e)
  /\ claim' = IF Owns(e) THEN [claim EXCEPT !.token = NULL] ELSE claim
  /\ UNCHANGED <<expected, phase, overrun>> /\ SameTracker

LeaseExpires ==
  /\ claim # NULL /\ ~claim.expired
  /\ claim' = [claim EXCEPT !.expired = TRUE]
  /\ overrun' = (overrun \/ \E e \in Executors : e = claim.token /\ Executing(e))
  /\ UNCHANGED <<expected, phase, ex>> /\ SameTracker

-----------------------------------------------------------------------------
Begin(e, i) == Replay(e, i) \/ Wait(e, i) \/ TakeOver(e, i) \/ Acquire(e, i)

Saga(e) ==
  \/ Fetch(e) \/ FetchFails(e) \/ Refuse(e) \/ Say(e) \/ SayFails(e)
  \/ Release(e) \/ Retain(e) \/ Defer(e) \/ Crash(e)
  \/ \E b \in BOOLEAN : Write(e, b) \/ WriteLost(e, b) \/ Conflict(e, b)
                          \/ Verify(e, b) \/ Resolve(e, b)

Next ==
  \/ \E i \in Intents : BuildIntent(i) \/ \E e \in Executors : Begin(e, i)
  \/ \E e \in Executors : Saga(e)
  \/ \E s \in Issues : OtherWrite(s)
  \/ LeaseExpires

Spec == Init /\ [][Next]_vars

-----------------------------------------------------------------------------
(* Properties *)

\* Type correctness of the journal, the claim, the tracker and the calls.
TransitionTypeOK ==
  /\ issue \in Issues
  /\ expected \in [Intents -> Nullable(Issues)]
  /\ phase \in [Intents -> Phases]
  /\ claim \in Nullable(Claims)
  /\ ex \in [Executors -> Calls]
  /\ \A e \in Executors : ex[e].pc \in {"idle", "again", "deferring"} <=> ex[e].doing = NULL
  /\ reached \subseteq Intents /\ overrun \in BOOLEAN

\* A transition whose journal ends in applied, recovered or staged has really
\* brought the task, or found it, at the status it asked for since it was
\* built: no lost answer, crash, takeover or stale saga makes the journal claim
\* a move that never happened (_execute_claimed).
SuccessWasReached ==
  \A i \in Intents : phase[i] \in {"applied", "recovered", "staged"} => i \in reached

\* As long as every saga ends within its lease, the sagas of a task exclude
\* each other: not only the claims of begin but replays, takeovers, retained
\* claims and crashes keep a second saga out (_begin_admitted, the finally
\* clause of _execute_claimed).
OneSagaPerTask ==
  ~overrun => \A e, f \in Executors : Executing(e) /\ Executing(f) => e = f

\* As long as every saga ends within its lease, nobody works for an intent
\* whose outcome is in the journal: what is reported applied, staged or
\* rejected writes the tracker no more, whichever callers wait, take over,
\* retain or replay (_begin_admitted).
SettledIsOver ==
  ~overrun => \A e \in Executors : Executing(e) => ~Settled(ex[e].doing)

\* An outcome in the journal stands until a saga outlives its lease, with one
\* exception that the code has: a caller that could not settle the obligation
\* of another notes that its own intent waits, and asks nobody whether that
\* was settled in the meantime (_execute_admitted, append).
OutcomeStands ==
  [][\A i \in Intents :
       ~overrun /\ Settled(i) /\ phase'[i] # phase[i]
         => \E e \in Executors : At(e, "deferring") /\ ex[e].want = i]_vars
=============================================================================
