------------------------ MODULE TaskTransitionProofs ------------------------
(***************************************************************************)
(* Safety of the transition service for every set of intents, executors    *)
(* and statuses, and every assignment of lanes and targets.                *)
(*                                                                         *)
(* Success is sound because a phase that reports it is chosen only after a *)
(* read of the tracker that shows the goal (ReachedInv), although the      *)
(* phase is appended later and by a saga that may have lost its claim.     *)
(* Exclusion holds because, until a saga outlives its lease, the executing *)
(* saga is the holder of a live claim, and nobody else can settle the      *)
(* intent of that claim nor the one the saga executes (ClaimInv).          *)
(***************************************************************************)
EXTENDS TaskTransition, TLAPS

Success == {"applied", "recovered", "staged"}

\* Calls execute intents that were built, and so do claims.
BuiltInv ==
  /\ \A e \in Executors : ex[e].doing # NULL => expected[ex[e].doing] # NULL
  /\ claim # NULL => expected[claim.intent] # NULL

\* The goal that the tracker shows has been reached by every intent that asks
\* for it, and a saga reports success of such an intent only.
ReachedInv ==
  /\ \A i \in Intents :
       expected[i] # NULL /\ issue.status \in {Goal(i), Target[i]} => i \in reached
  /\ \A e \in Executors :
       ex[e].pc = "saying" /\ ex[e].say \in Success => ex[e].doing \in reached
  /\ SuccessWasReached

\* The executing saga holds the claim; neither the intent of the claim, which
\* may be that of an obligation, nor the one it executes is settled.
Holds(e) ==
  /\ claim # NULL /\ claim.token = e /\ ~claim.expired
  /\ ~Settled(claim.intent) /\ ~Settled(ex[e].doing)

ClaimInv == ~overrun => \A e \in Executors : Executing(e) => Holds(e)

Inv == TransitionTypeOK /\ BuiltInv /\ ReachedInv /\ ClaimInv

-----------------------------------------------------------------------------
\* The goal of an intent is a status.
LEMMA GoalType == \A i \in Intents : Goal(i) \in Statuses /\ Target[i] \in Statuses
  BY TransitionAssumption DEF Goal

\* NULL is no intent, executor or claim.
LEMMA NotNull == NULL \notin Intents /\ NULL \notin Executors /\ NULL \notin Claims
  BY TransitionAssumption

\* An idle call is a call.
LEMMA IdleType == IdleCall \in Calls /\ IdleCall.pc = "idle" /\ IdleCall.doing = NULL
  BY DEF IdleCall, Calls, Phases, FinalPhases, Nullable

\* The initial state satisfies the invariant.
LEMMA InitInv == Init => Inv
  <1> SUFFICES ASSUME Init PROVE Inv
    OBVIOUS
  <1>1. TransitionTypeOK
    <2>1. issue \in Issues
      BY TransitionAssumption DEF Init, Issues
    <2>2. phase \in [Intents -> Phases]
      BY DEF Init, Phases
    <2> QED
      BY <2>1, <2>2, IdleType DEF Init, TransitionTypeOK, Nullable
  <1>2. BuiltInv
    BY IdleType DEF Init, BuiltInv
  <1>3. ReachedInv
    BY IdleType DEF Init, ReachedInv, SuccessWasReached
  <1>4. ClaimInv
    BY IdleType DEF Init, ClaimInv, Executing
  <1> QED
    BY <1>1, <1>2, <1>3, <1>4 DEF Inv

-----------------------------------------------------------------------------
(***************************************************************************)
(* Steps of the tracker.                                                   *)
(***************************************************************************)

\* The intents at their goal have reached it after any write, and none forgets.
LEMMA TrackerReached ==
  ASSUME Inv, NEW s \in Issues, Tracker(s),
         UNCHANGED expected
  PROVE  /\ issue' \in Issues /\ reached' \subseteq Intents
         /\ reached \subseteq reached'
         /\ \A i \in Intents :
              expected'[i] # NULL /\ issue'.status \in {Goal(i), Target[i]} => i \in reached'
  BY DEF Inv, TransitionTypeOK, Tracker

\* Reads and appends leave the tracker as it was.
LEMMA SameReached ==
  ASSUME Inv, SameTracker, UNCHANGED expected
  PROVE  /\ issue' \in Issues /\ reached' \subseteq Intents
         /\ reached \subseteq reached'
         /\ \A i \in Intents :
              expected'[i] # NULL /\ issue'.status \in {Goal(i), Target[i]} => i \in reached'
  BY DEF Inv, TransitionTypeOK, ReachedInv, SameTracker

\* What a call keeps when nothing but the calls and the tracker changes: the new
\* call is of the same intents, and executes only if the old one did.
LEMMA CallStep ==
  ASSUME Inv, NEW e \in Executors, NEW c \in Calls,
         ex' = [ex EXCEPT ![e] = c],
         UNCHANGED <<expected, phase, claim, overrun>>,
         issue' \in Issues, reached' \subseteq Intents,
         reached \subseteq reached',
         \A i \in Intents :
           expected'[i] # NULL /\ issue'.status \in {Goal(i), Target[i]} => i \in reached',
         c.pc \in {"idle", "again", "deferring"} <=> c.doing = NULL,
         c.doing \in {NULL, ex[e].doing},
         c.pc = "saying" /\ c.say \in Success => c.doing \in reached',
         c.pc \in {"fetching", "saying", "applying", "verifying", "resolving"} => Executing(e)
  PROVE  Inv'
  <1>1. /\ ex'[e] = c
        /\ \A f \in Executors \ {e} : ex'[f] = ex[f]
        /\ ex' \in [Executors -> Calls]
    BY DEF Inv, TransitionTypeOK
  <1>2. TransitionTypeOK'
    BY <1>1 DEF Inv, TransitionTypeOK
  <1>3. BuiltInv'
    BY <1>1 DEF Inv, BuiltInv
  <1>4. ReachedInv'
    BY <1>1 DEF Inv, ReachedInv, SuccessWasReached
  <1>5. ClaimInv'
    <2>1. \A f \in Executors :
            Executing(f)' => Executing(f) /\ ex'[f].doing = ex[f].doing
      BY <1>1 DEF Executing
    <2> QED
      BY <2>1 DEF Inv, ClaimInv, Holds, Settled
  <1> QED
    BY <1>2, <1>3, <1>4, <1>5 DEF Inv

\* A saga chooses what to append next; it reports a success it has seen.
LEMMA DecideStep ==
  ASSUME Inv, NEW e \in Executors, NEW p \in Phases, Decide(e, p), SameTracker,
         Executing(e), p \in Success => ex[e].doing \in reached
  PROVE  Inv'
  <1> DEFINE c == [ex[e] EXCEPT !.pc = "saying", !.say = p, !.resumed = FALSE]
  <1>1. ex[e] \in Calls /\ ex[e].doing # NULL
    BY DEF Inv, TransitionTypeOK, Executing
  <1>2. /\ c \in Calls /\ c.pc = "saying" /\ c.say = p /\ c.doing = ex[e].doing
    BY <1>1 DEF Calls
  <1>3. ex' = [ex EXCEPT ![e] = c] /\ UNCHANGED <<expected, phase, claim, overrun>>
    BY DEF Decide, Inv, TransitionTypeOK
  <1> HIDE DEF c
  <1>5. reached' = reached
    BY DEF SameTracker
  <1> QED
    BY <1>1, <1>2, <1>3, <1>5, SameReached, CallStep

\* A saga moves on to its next read.
LEMMA GoStep ==
  ASSUME Inv, NEW e \in Executors, NEW pc \in {"verifying", "resolving"}, Go(e, pc),
         Executing(e),
         issue' \in Issues, reached' \subseteq Intents,
         reached \subseteq reached',
         \A i \in Intents :
           expected'[i] # NULL /\ issue'.status \in {Goal(i), Target[i]} => i \in reached'
  PROVE  Inv'
  <1> DEFINE c == [ex[e] EXCEPT !.pc = pc]
  <1>1. ex[e] \in Calls /\ ex[e].doing # NULL
    BY DEF Inv, TransitionTypeOK, Executing
  <1>2. c \in Calls /\ c.pc = pc /\ c.doing = ex[e].doing
    BY <1>1 DEF Calls
  <1>3. ex' = [ex EXCEPT ![e] = c] /\ UNCHANGED <<expected, phase, claim, overrun>>
    BY DEF Go, Inv, TransitionTypeOK
  <1> HIDE DEF c
  <1> QED
    BY <1>1, <1>2, <1>3, CallStep

-----------------------------------------------------------------------------
(***************************************************************************)
(* Steps of the sagas.                                                     *)
(***************************************************************************)

\* A read of the tracker reports success only if the goal is there.
LEMMA FetchInv ==
  ASSUME Inv, NEW e \in Executors, Fetch(e) \/ FetchFails(e) \/ Refuse(e)
  PROVE  Inv'
  <1> DEFINE i == ex[e].doing
             p == Reading(i, ex[e].resumed)
  <1>1. Executing(e) /\ i \in Intents /\ expected[i] # NULL
    BY DEF Fetch, FetchFails, Refuse, At, Executing, Inv, TransitionTypeOK, BuiltInv, Calls,
           Nullable
  <1>2. CASE Fetch(e)
    <2>1. p \in Phases
      BY DEF Reading, Phases, FinalPhases
    <2>2. p \in Success => i \in reached
      <3> SUFFICES ASSUME p \in Success PROVE i \in reached
        OBVIOUS
      <3>1. issue.status \in {Goal(i), Target[i]}
        BY DEF Reading, Success, Goal
      <3> QED
        BY <1>1, <3>1 DEF Inv, ReachedInv
    <2> QED
      BY <1>1, <1>2, <2>1, <2>2, DecideStep DEF Fetch
  <1>3. CASE FetchFails(e) \/ Refuse(e)
    BY <1>1, <1>3, DecideStep DEF FetchFails, Refuse, Phases, FinalPhases, Success
  <1> QED
    BY <1>2, <1>3

\* A write moves the task to the goal of the saga, or nothing.
LEMMA WriteInv ==
  ASSUME Inv, NEW e \in Executors, NEW b \in BOOLEAN,
         Write(e, b) \/ WriteLost(e, b) \/ Conflict(e, b)
  PROVE  Inv'
  <1> DEFINE i == ex[e].doing
             s == [issue EXCEPT !.status = Goal(i)]
             pc == IF b THEN "verifying" ELSE "resolving"
  <1>1. Executing(e) /\ i \in Intents
    BY DEF Write, WriteLost, Conflict, At, Executing, Inv, TransitionTypeOK, Calls, Nullable
  <1>2. CASE Write(e, b)
    <2>1. s \in Issues /\ i \in Nullable(Intents)
      BY <1>1, GoalType DEF Inv, TransitionTypeOK, Issues, Nullable
    <2>2. Tracker(s) /\ Go(e, pc) /\ UNCHANGED expected
      BY <1>2 DEF Write, Go
    <2> HIDE DEF s
    <2> QED
      BY <1>1, <2>1, <2>2, TrackerReached, GoStep
  <1>3. CASE WriteLost(e, b)
    <2>1. Go(e, pc) /\ SameTracker /\ UNCHANGED expected
      BY <1>3 DEF WriteLost, Go
    <2> QED
      BY <1>1, <2>1, SameReached, GoStep
  <1>4. CASE Conflict(e, b)
    BY <1>1, <1>4, DecideStep DEF Conflict, Phases, FinalPhases, Success
  <1> QED
    BY <1>2, <1>3, <1>4

\* The read after a write reports success only if the goal is there.
LEMMA VerifyInv ==
  ASSUME Inv, NEW e \in Executors, NEW b \in BOOLEAN, Verify(e, b) \/ Resolve(e, b)
  PROVE  Inv'
  <1> DEFINE i == ex[e].doing
             p == IF Verify(e, b)
                    THEN IF b /\ issue.status = Goal(i)
                           THEN IF Lane[i] = "terminal" THEN "staged" ELSE "applied"
                           ELSE "retry"
                    ELSE IF b /\ issue.status = Goal(i) THEN "recovered" ELSE "retry"
  <1>1. Executing(e) /\ i \in Intents /\ expected[i] # NULL
    BY DEF Verify, Resolve, At, Executing, Inv, TransitionTypeOK, BuiltInv, Calls, Nullable
  <1>2. Decide(e, p) /\ SameTracker
    BY DEF Verify, Resolve
  <1>3. p \in Phases
    BY DEF Phases, FinalPhases
  <1>4. p \in Success => issue.status = Goal(i)
    BY DEF Success
  <1>5. p \in Success => i \in reached
    BY <1>1, <1>4 DEF Inv, ReachedInv
  <1> HIDE DEF p
  <1> QED
    BY <1>1, <1>2, <1>3, <1>5, DecideStep

\* The journal learns what the saga has seen; the saga goes on or ends.
LEMMA SayInv ==
  ASSUME Inv, NEW e \in Executors, Say(e)
  PROVE  Inv'
  <1> DEFINE c == ex[e]
             d == ex'[e]
  <1>1. /\ c \in Calls /\ c.doing \in Intents /\ c.pc = "saying" /\ c.say \in Phases
        /\ expected[c.doing] # NULL
    BY DEF Say, At, Inv, TransitionTypeOK, BuiltInv, Calls, Nullable
  <1>2. /\ d \in Calls /\ d.doing = c.doing /\ d.say = "none"
        /\ d.pc \in {"applying", "retaining", "releasing"}
        /\ d.pc = "applying" <=> c.say = "applying"
        /\ \A f \in Executors \ {e} : ex'[f] = ex[f]
        /\ ex' \in [Executors -> Calls]
    <2>1. Finally(e) \in {"retaining", "releasing"}
      BY DEF Finally
    <2> QED
      BY <1>1, <2>1 DEF Say, Calls, Phases, Inv, TransitionTypeOK
  <1>3. /\ phase' \in [Intents -> Phases] /\ phase'[c.doing] = c.say
        /\ \A i \in Intents \ {c.doing} : phase'[i] = phase[i]
    BY <1>1 DEF Say, Inv, TransitionTypeOK
  <1>4. UNCHANGED <<expected, claim, overrun, issue, reached>>
    BY DEF Say, SameTracker
  <1>5. TransitionTypeOK'
    BY <1>1, <1>2, <1>3, <1>4, NotNull DEF Inv, TransitionTypeOK
  <1>6. BuiltInv'
    BY <1>1, <1>2, <1>4 DEF Inv, BuiltInv
  <1>7. ReachedInv'
    <2>1. SuccessWasReached'
      BY <1>1, <1>3, <1>4 DEF Inv, ReachedInv, SuccessWasReached, Success
    <2>2. \A f \in Executors :
            ex'[f].pc = "saying" /\ ex'[f].say \in Success => ex'[f].doing \in reached'
      BY <1>2, <1>4 DEF Inv, ReachedInv
    <2> QED
      BY <1>4, <2>1, <2>2 DEF Inv, ReachedInv, Goal
  <1>8. ClaimInv'
    <2> SUFFICES ASSUME ~overrun, NEW f \in Executors, Executing(f)' PROVE Holds(f)'
      BY <1>4 DEF ClaimInv
    <2>1. Executing(f) /\ Executing(e)
      BY <1>1, <1>2 DEF Executing
    <2>2. Holds(f) /\ Holds(e) /\ f = e
      BY <2>1 DEF Inv, ClaimInv, Holds
    <2>3. phase'[c.doing] = "applying"
      BY <1>2, <1>3, <2>2 DEF Executing
    <2>4. claim.intent \in Intents
      BY <2>2 DEF Inv, TransitionTypeOK, Claims, Holds, Nullable
    <2> QED
      BY <1>2, <1>3, <1>4, <2>2, <2>3, <2>4 DEF Holds, Settled, FinalPhases
  <1> QED
    BY <1>5, <1>6, <1>7, <1>8 DEF Inv

\* An append that raises changes the call only.
LEMMA SayFailsInv ==
  ASSUME Inv, NEW e \in Executors, SayFails(e)
  PROVE  Inv'
  <1> DEFINE c == [ex[e] EXCEPT !.pc = Finally(e), !.say = "none", !.obliged = FALSE]
  <1>1. ex[e] \in Calls /\ ex[e].doing # NULL
    BY DEF SayFails, At, Inv, TransitionTypeOK
  <1>2. /\ c \in Calls /\ c.pc \in {"retaining", "releasing"} /\ c.doing = ex[e].doing
    BY <1>1 DEF Calls, Finally, Phases
  <1>3. /\ ex' = [ex EXCEPT ![e] = c] /\ UNCHANGED <<expected, phase, claim, overrun>>
        /\ SameTracker
    BY DEF SayFails, Inv, TransitionTypeOK
  <1> HIDE DEF c
  <1> QED
    BY <1>1, <1>2, <1>3, SameReached, CallStep

\* What ends a saga: the claim that the others hold stays, and nobody starts.
LEMMA EndStep ==
  ASSUME Inv, NEW e \in Executors, NEW c \in Calls,
         c.pc \in {"idle", "again", "deferring"}, c.doing = NULL,
         ex' = [ex EXCEPT ![e] = c],
         UNCHANGED <<expected, phase, overrun>>, SameTracker,
         claim' # claim => Owns(e),
         claim' \notin {claim, NULL} => claim' \in Claims /\ claim'.intent = claim.intent
  PROVE  Inv'
  <1>1. /\ ex'[e] = c
        /\ \A f \in Executors \ {e} : ex'[f] = ex[f]
        /\ ex' \in [Executors -> Calls]
    BY DEF Inv, TransitionTypeOK
  <1>2. UNCHANGED <<issue, reached>>
    BY DEF SameTracker
  <1>3. TransitionTypeOK'
    BY <1>1, <1>2 DEF Inv, TransitionTypeOK, Nullable
  <1>4. BuiltInv'
    BY <1>1 DEF Inv, BuiltInv, Owns
  <1>5. ReachedInv'
    BY <1>1, <1>2 DEF Inv, ReachedInv, SuccessWasReached
  <1>6. ClaimInv'
    <2> SUFFICES ASSUME ~overrun, NEW f \in Executors, Executing(f)' PROVE Holds(f)'
      BY DEF ClaimInv
    <2>1. f # e /\ Executing(f)
      BY <1>1 DEF Executing
    <2>2. Holds(f)
      BY <2>1 DEF Inv, ClaimInv
    <2>3. ~Owns(e)
      BY <2>1, <2>2 DEF Holds, Owns
    <2> QED
      BY <1>1, <2>1, <2>2, <2>3 DEF Holds, Settled
  <1> QED
    BY <1>3, <1>4, <1>5, <1>6 DEF Inv

\* The finally clause, the end of a call and the death of its process.
LEMMA EndInv ==
  ASSUME Inv, NEW e \in Executors, Release(e) \/ Retain(e) \/ Crash(e)
  PROVE  Inv'
  <1> DEFINE Next1(pc) == [IdleCall EXCEPT !.pc = pc, !.want = ex[e].want]
  <1>1. ex[e] \in Calls
    BY DEF Inv, TransitionTypeOK
  <1>2. /\ Next1("again") \in Calls /\ Next1("again").pc = "again"
        /\ Next1("again").doing = NULL
        /\ Next1("deferring") \in Calls /\ Next1("deferring").pc = "deferring"
        /\ Next1("deferring").doing = NULL
    BY <1>1 DEF IdleCall, Calls, Phases, FinalPhases, Nullable
  <1>3. Owns(e) => claim \in Claims
    BY DEF Owns, Inv, TransitionTypeOK, Nullable
  <1>4. Owns(e) => /\ [claim EXCEPT !.token = NULL] \in Claims
                   /\ [claim EXCEPT !.token = NULL].intent = claim.intent
                   /\ [claim EXCEPT !.token = NULL, !.expired = TRUE] \in Claims
                   /\ [claim EXCEPT !.token = NULL, !.expired = TRUE].intent = claim.intent
    BY <1>3 DEF Claims, Nullable
  <1> HIDE DEF Next1
  <1>5. CASE Release(e)
    <2> DEFINE c == IF ex[e].obliged THEN Next1("again") ELSE IdleCall
    <2>1. /\ claim' # claim => Owns(e)
          /\ claim' \notin {claim, NULL} => claim' \in Claims /\ claim'.intent = claim.intent
      BY <1>4, <1>5 DEF Release
    <2>4. UNCHANGED <<expected, phase, overrun>> /\ SameTracker
      BY <1>5 DEF Release
    <2>2. c \in Calls /\ c.pc \in {"idle", "again", "deferring"} /\ c.doing = NULL
      BY <1>2, IdleType
    <2>3. ex' = [ex EXCEPT ![e] = c]
      BY <1>5 DEF Release, Next1
    <2> HIDE DEF c
    <2> QED
      BY <2>1, <2>2, <2>3, <2>4, EndStep
  <1>6. CASE Retain(e)
    <2> DEFINE c == IF Owns(e) /\ ex[e].obliged THEN Next1("deferring") ELSE IdleCall
    <2>1. /\ claim' # claim => Owns(e)
          /\ claim' \notin {claim, NULL} => claim' \in Claims /\ claim'.intent = claim.intent
      BY <1>4, <1>6 DEF Retain
    <2>4. UNCHANGED <<expected, phase, overrun>> /\ SameTracker
      BY <1>6 DEF Retain
    <2>2. c \in Calls /\ c.pc \in {"idle", "again", "deferring"} /\ c.doing = NULL
      BY <1>2, IdleType
    <2>3. ex' = [ex EXCEPT ![e] = c]
      BY <1>6 DEF Retain, Next1
    <2> HIDE DEF c
    <2> QED
      BY <2>1, <2>2, <2>3, <2>4, EndStep
  <1>7. CASE Crash(e)
    <2>1. /\ claim' # claim => Owns(e)
          /\ claim' \notin {claim, NULL} => claim' \in Claims /\ claim'.intent = claim.intent
      BY <1>4, <1>7 DEF Crash
    <2>2. /\ ex' = [ex EXCEPT ![e] = IdleCall]
          /\ UNCHANGED <<expected, phase, overrun>> /\ SameTracker
      BY <1>7 DEF Crash, Return
    <2> QED
      BY <2>1, <2>2, IdleType, EndStep
  <1> QED
    BY <1>5, <1>6, <1>7

-----------------------------------------------------------------------------
(***************************************************************************)
(* Steps of begin.                                                         *)
(***************************************************************************)

\* A call that starts no saga: it only settles nothing, and retires the claim
\* of a settled intent at most.
LEMMA ReturnStep ==
  ASSUME Inv, NEW e \in Executors, ~Executing(e), Return(e),
         phase' \in [Intents -> Phases],
         \A i \in Intents : phase'[i] \in {phase[i], "waiting"},
         claim' = claim \/ (claim # NULL /\ Settled(claim.intent) /\ claim' = NULL),
         UNCHANGED <<expected, overrun>>, SameTracker
  PROVE  Inv'
  <1>1. /\ ex'[e] = IdleCall
        /\ \A f \in Executors \ {e} : ex'[f] = ex[f]
        /\ ex' \in [Executors -> Calls]
    BY IdleType DEF Inv, TransitionTypeOK, Return
  <1>2. UNCHANGED <<issue, reached>>
    BY DEF SameTracker
  <1>3. TransitionTypeOK'
    BY <1>1, <1>2, IdleType DEF Inv, TransitionTypeOK, Nullable
  <1>4. BuiltInv'
    BY <1>1, IdleType DEF Inv, BuiltInv
  <1>5. ReachedInv'
    <2>1. SuccessWasReached'
      BY <1>2 DEF Inv, ReachedInv, SuccessWasReached
    <2> QED
      BY <1>1, <1>2, <2>1, IdleType DEF Inv, ReachedInv
  <1>6. ClaimInv'
    <2> SUFFICES ASSUME ~overrun, NEW f \in Executors, Executing(f)' PROVE Holds(f)'
      BY DEF ClaimInv
    <2>1. Executing(f) /\ ex'[f] = ex[f]
      BY <1>1, IdleType DEF Executing
    <2>2. Holds(f) /\ claim' = claim
      BY <2>1 DEF Inv, ClaimInv, Holds
    <2>3. claim.intent \in Intents /\ ex[f].doing \in Intents
      BY <2>1, <2>2 DEF Inv, TransitionTypeOK, Claims, Calls, Holds, Executing, Nullable
    <2> QED
      BY <2>1, <2>2, <2>3 DEF Holds, Settled, FinalPhases
  <1> QED
    BY <1>3, <1>4, <1>5, <1>6 DEF Inv

\* Replays, waiting calls and deferred calls.
LEMMA ReturnInv ==
  ASSUME Inv, NEW e \in Executors,
         Defer(e) \/ \E i \in Intents : Replay(e, i) \/ Wait(e, i)
  PROVE  Inv'
  <1>0. phase \in [Intents -> Phases] /\ "waiting" \in Phases
    BY DEF Inv, TransitionTypeOK, Phases
  <1>1. CASE Defer(e)
    BY <1>0, <1>1, ReturnStep DEF Defer, At, Executing
  <1>2. ASSUME NEW i \in Intents, Replay(e, i) PROVE Inv'
    BY <1>0, <1>2, ReturnStep DEF Replay, Calling, Executing
  <1>3. ASSUME NEW i \in Intents, Wait(e, i) PROVE Inv'
    BY <1>0, <1>3, ReturnStep DEF Wait, Calling, Executing
  <1> QED
    BY <1>1, <1>2, <1>3

\* A saga starts: nobody else executes, unless a saga has outlived its claim.
LEMMA StartStep ==
  ASSUME Inv, NEW e \in Executors, NEW i \in Intents, NEW w \in Intents,
         NEW resumed \in BOOLEAN, NEW obliged \in BOOLEAN,
         Start(e, i, w, resumed, obliged),
         claim = NULL \/ claim.expired,
         expected[i] # NULL, expected[w] # NULL,
         ~Settled(w), ~Settled(i),
         phase' \in [Intents -> Phases],
         \A j \in Intents : phase'[j] = phase[j] \/ phase'[j] \notin FinalPhases,
         UNCHANGED <<expected, overrun>>, SameTracker
  PROVE  Inv'
  <1> DEFINE c == [IdleCall EXCEPT !.pc = "fetching", !.want = w, !.doing = i,
                                   !.resumed = resumed, !.obliged = obliged]
             n == IF claim # NULL /\ claim.intent # w /\ ~Settled(claim.intent)
                    THEN claim.intent ELSE w
  <1>1. c \in Calls /\ c.pc = "fetching" /\ c.doing = i
    BY DEF IdleCall, Calls, Phases, FinalPhases, Nullable
  <1>2. /\ ex'[e] = c
        /\ \A f \in Executors \ {e} : ex'[f] = ex[f]
        /\ ex' \in [Executors -> Calls]
    BY <1>1 DEF Inv, TransitionTypeOK, Start
  <1>3. n \in Intents /\ expected[n] # NULL /\ ~Settled(n)
    BY DEF Inv, TransitionTypeOK, BuiltInv, Claims, Nullable
  <1>4. /\ claim' = [intent |-> n, token |-> e, expired |-> FALSE]
        /\ claim' \in Claims
    BY <1>3 DEF Start, Claims, Nullable
  <1> HIDE DEF n, c
  <1>5. UNCHANGED <<issue, reached>>
    BY DEF SameTracker
  <1>6. TransitionTypeOK'
    BY <1>1, <1>2, <1>4, <1>5, NotNull DEF Inv, TransitionTypeOK, Nullable
  <1>7. BuiltInv'
    BY <1>1, <1>2, <1>3, <1>4 DEF Inv, BuiltInv
  <1>8. ReachedInv'
    <2>1. SuccessWasReached'
      BY <1>5 DEF Inv, ReachedInv, SuccessWasReached, FinalPhases
    <2> QED
      BY <1>1, <1>2, <1>5, <2>1 DEF Inv, ReachedInv
  <1>9. ClaimInv'
    <2> SUFFICES ASSUME ~overrun, NEW f \in Executors, Executing(f)' PROVE Holds(f)'
      BY DEF ClaimInv
    <2>1. f = e
      BY <1>2 DEF Inv, ClaimInv, Holds, Executing
    <2>2. claim' # NULL
      BY <1>4, NotNull
    <2> QED
      BY <1>1, <1>2, <1>3, <1>4, <2>1, <2>2 DEF Holds, Settled
  <1> QED
    BY <1>6, <1>7, <1>8, <1>9 DEF Inv

\* Claims and takeovers of expired claims.
LEMMA StartInv ==
  ASSUME Inv, NEW e \in Executors, NEW i \in Intents, TakeOver(e, i) \/ Acquire(e, i)
  PROVE  Inv'
  <1>0. /\ phase \in [Intents -> Phases]
        /\ {"waiting", "retry", "requested"} \subseteq Phases \ FinalPhases
    BY DEF Inv, TransitionTypeOK, Phases, FinalPhases
  <1>1. CASE TakeOver(e, i)
    <2> DEFINE j == claim.intent
    <2>1. /\ claim # NULL /\ claim.expired /\ ~Settled(i) /\ ~Settled(j)
          /\ expected[i] # NULL
      BY <1>1 DEF TakeOver, Calling
    <2>2. j \in Intents /\ expected[j] # NULL
      BY <2>1 DEF Inv, TransitionTypeOK, BuiltInv, Claims, Nullable
    <2>3. /\ phase' \in [Intents -> Phases]
          /\ \A k \in Intents : phase'[k] = phase[k] \/ phase'[k] \notin FinalPhases
      BY <1>0, <1>1, <2>2 DEF TakeOver
    <2>4. UNCHANGED <<expected, overrun>> /\ SameTracker
      BY <1>1 DEF TakeOver
    <2>5. Start(e, i, i, FALSE, FALSE) \/ Start(e, j, i, Resumable(j), TRUE)
      BY <1>1 DEF TakeOver
    <2>6. Resumable(j) \in BOOLEAN
      BY DEF Resumable
    <2>7. CASE Start(e, i, i, FALSE, FALSE)
      BY <2>1, <2>3, <2>4, <2>7, StartStep
    <2>8. CASE Start(e, j, i, Resumable(j), TRUE)
      <3>1. ~Settled(j)
        BY <2>1
      <3> HIDE DEF j
      <3> QED
        BY <2>1, <2>2, <2>3, <2>4, <2>6, <2>8, <3>1, StartStep
    <2> QED
      BY <2>5, <2>7, <2>8
  <1>2. CASE Acquire(e, i)
    <2>1. /\ claim = NULL \/ claim.expired
          /\ ~Settled(i) /\ expected[i] # NULL
      BY <1>2 DEF Acquire, Calling
    <2>2. /\ phase' \in [Intents -> Phases]
          /\ \A k \in Intents : phase'[k] = phase[k] \/ phase'[k] \notin FinalPhases
      BY <1>0, <1>2 DEF Acquire
    <2>3. UNCHANGED <<expected, overrun>> /\ SameTracker
      BY <1>2 DEF Acquire
    <2>4. Start(e, i, i, Resumable(i), FALSE)
      BY <1>2 DEF Acquire
    <2>5. Resumable(i) \in BOOLEAN
      BY DEF Resumable
    <2> QED
      BY <2>1, <2>2, <2>3, <2>4, <2>5, StartStep
  <1> QED
    BY <1>1, <1>2

-----------------------------------------------------------------------------
(***************************************************************************)
(* Steps of the environment, and the theorems.                             *)
(***************************************************************************)

\* An intent is built from what the tracker shows.
LEMMA BuildInv ==
  ASSUME Inv, NEW i \in Intents, BuildIntent(i)
  PROVE  Inv'
  <1>1. /\ expected' \in [Intents -> Nullable(Issues)]
        /\ \A j \in Intents \ {i} : expected'[j] = expected[j]
        /\ expected[i] = NULL
        /\ reached \subseteq reached' /\ reached' \subseteq Intents
        /\ issue.status \in {Goal(i), Target[i]} => i \in reached'
        /\ UNCHANGED <<issue, phase, claim, ex, overrun>>
    BY DEF BuildIntent, Inv, TransitionTypeOK, Nullable
  <1>2. TransitionTypeOK'
    BY <1>1 DEF Inv, TransitionTypeOK
  <1>3. BuiltInv'
    <2>1. \A e \in Executors : ex[e].doing # NULL => ex[e].doing \in Intents
      BY DEF Inv, TransitionTypeOK, Calls, Nullable
    <2>2. claim # NULL => claim.intent \in Intents
      BY DEF Inv, TransitionTypeOK, Claims, Nullable
    <2> QED
      BY <1>1, <2>1, <2>2 DEF Inv, BuiltInv
  <1>4. ReachedInv'
    BY <1>1 DEF Inv, ReachedInv, SuccessWasReached
  <1>5. ClaimInv'
    BY <1>1 DEF Inv, ClaimInv, Holds, Settled, Executing
  <1> QED
    BY <1>2, <1>3, <1>4, <1>5 DEF Inv

\* Other writers move the task as they like.
LEMMA OtherInv ==
  ASSUME Inv, NEW s \in Issues, OtherWrite(s)
  PROVE  Inv'
  <1>1. Tracker(s) /\ UNCHANGED <<expected, phase, claim, ex, overrun>>
    BY DEF OtherWrite
  <1>2. /\ issue' \in Issues /\ reached' \subseteq Intents
        /\ reached \subseteq reached'
        /\ \A i \in Intents :
             expected'[i] # NULL /\ issue'.status \in {Goal(i), Target[i]} => i \in reached'
    BY <1>1, TrackerReached DEF Nullable
  <1>3. TransitionTypeOK'
    BY <1>1, <1>2 DEF Inv, TransitionTypeOK
  <1>4. BuiltInv'
    BY <1>1 DEF Inv, BuiltInv
  <1>5. ReachedInv'
    BY <1>1, <1>2 DEF Inv, ReachedInv, SuccessWasReached
  <1>6. ClaimInv'
    BY <1>1 DEF Inv, ClaimInv, Holds, Settled, Executing
  <1> QED
    BY <1>3, <1>4, <1>5, <1>6 DEF Inv

\* The lease of a saga that still executes is an overrun.
LEMMA ExpiryInv ==
  ASSUME Inv, LeaseExpires
  PROVE  Inv'
  <1>1. /\ claim \in Claims /\ claim' = [claim EXCEPT !.expired = TRUE]
        /\ claim' \in Claims /\ claim'.intent = claim.intent
        /\ UNCHANGED <<expected, phase, ex, issue, reached>>
    BY DEF LeaseExpires, SameTracker, Inv, TransitionTypeOK, Claims, Nullable
  <1>2. overrun' = (overrun \/ \E e \in Executors : e = claim.token /\ Executing(e))
    BY DEF LeaseExpires
  <1>3. TransitionTypeOK'
    BY <1>1, <1>2 DEF Inv, TransitionTypeOK, Nullable
  <1>4. BuiltInv'
    BY <1>1, NotNull DEF Inv, BuiltInv
  <1>5. ReachedInv'
    BY <1>1 DEF Inv, ReachedInv, SuccessWasReached
  <1>6. ClaimInv'
    <2> SUFFICES ASSUME ~overrun', NEW f \in Executors, Executing(f)' PROVE FALSE
      BY DEF ClaimInv
    <2>1. Executing(f) /\ ~overrun
      BY <1>1, <1>2 DEF Executing
    <2> QED
      BY <1>2, <2>1 DEF Inv, ClaimInv, Holds
  <1> QED
    BY <1>3, <1>4, <1>5, <1>6 DEF Inv

\* Every step preserves the invariant.
LEMMA StepInv == Inv /\ [Next]_vars => Inv'
  <1> SUFFICES ASSUME Inv, [Next]_vars PROVE Inv'
    OBVIOUS
  <1>1. CASE UNCHANGED vars
    BY <1>1 DEF vars, Inv, TransitionTypeOK, BuiltInv, ReachedInv, SuccessWasReached, ClaimInv,
                Holds, Settled, Executing
  <1>2. ASSUME NEW i \in Intents, BuildIntent(i) \/ \E e \in Executors : Begin(e, i)
        PROVE  Inv'
    BY <1>2, BuildInv, ReturnInv, StartInv DEF Begin
  <1>3. ASSUME NEW e \in Executors, Saga(e) PROVE Inv'
    BY <1>3, FetchInv, WriteInv, VerifyInv, SayInv, SayFailsInv, EndInv, ReturnInv DEF Saga
  <1>4. CASE (\E s \in Issues : OtherWrite(s)) \/ LeaseExpires
    BY <1>4, OtherInv, ExpiryInv
  <1> QED
    BY <1>1, <1>2, <1>3, <1>4 DEF Next

\* The inductive invariant of the transition service.
THEOREM TransitionInvariance == Spec => []Inv
  BY InitInv, StepInv, PTL DEF Spec

\* Every variable of the service keeps its type, and a call names an intent in
\* execution exactly while it has one.
THEOREM TransitionTypeCorrect == Spec => []TransitionTypeOK
  <1>1. Inv => TransitionTypeOK
    BY DEF Inv
  <1> QED
    BY <1>1, TransitionInvariance, PTL

\* No journal reports a move that never happened, for any number of intents,
\* callers, crashes, lost answers and overrun leases.
THEOREM SuccessSound == Spec => []SuccessWasReached
  <1>1. Inv => SuccessWasReached
    BY DEF Inv, ReachedInv
  <1> QED
    BY <1>1, TransitionInvariance, PTL

\* Sagas of a task that keep their leases exclude each other.
THEOREM SagasExclude == Spec => []OneSagaPerTask
  <1>1. Inv => OneSagaPerTask
    BY DEF Inv, ClaimInv, Holds, OneSagaPerTask
  <1> QED
    BY <1>1, TransitionInvariance, PTL

\* Nobody works for an intent whose outcome is in the journal, for any number of
\* callers that wait, take over, retain and replay.
THEOREM SettledIntentsRest == Spec => []SettledIsOver
  <1>1. Inv => SettledIsOver
    BY DEF Inv, ClaimInv, Holds, SettledIsOver
  <1> QED
    BY <1>1, TransitionInvariance, PTL

-----------------------------------------------------------------------------
(***************************************************************************)
(* The outcome of an intent.                                               *)
(***************************************************************************)

\* begin writes the phase of unsettled intents only.
LEMMA BeginKeepsOutcomes ==
  ASSUME Inv, NEW e \in Executors, NEW i \in Intents, Begin(e, i),
         NEW k \in Intents, Settled(k)
  PROVE  phase'[k] = phase[k]
  <1>1. phase \in [Intents -> Phases]
    BY DEF Inv, TransitionTypeOK
  <1>2. CASE Replay(e, i)
    BY <1>2 DEF Replay
  <1>3. CASE Wait(e, i) \/ Acquire(e, i)
    <2>1. k # i
      BY <1>3 DEF Wait, Acquire
    <2> QED
      BY <1>1, <1>3, <2>1 DEF Wait, Acquire
  <1>4. CASE TakeOver(e, i)
    <2>1. k # i /\ k # claim.intent
      BY <1>4 DEF TakeOver
    <2> QED
      BY <1>1, <1>4, <2>1 DEF TakeOver
  <1> QED
    BY <1>2, <1>3, <1>4 DEF Begin

\* A saga that keeps its lease appends to an unsettled intent; a deferring call
\* appends to its own.
LEMMA SagaKeepsOutcomes ==
  ASSUME Inv, NEW e \in Executors, Saga(e), ~overrun,
         NEW k \in Intents, Settled(k), phase'[k] # phase[k]
  PROVE  At(e, "deferring") /\ ex[e].want = k
  <1>1. phase \in [Intents -> Phases]
    BY DEF Inv, TransitionTypeOK
  <1>2. CASE Say(e)
    <2>1. ~Settled(ex[e].doing)
      BY <1>2 DEF Say, At, Inv, ClaimInv, Holds, Executing
    <2> QED
      BY <1>1, <1>2, <2>1 DEF Say
  <1>3. CASE Defer(e)
    BY <1>1, <1>3 DEF Defer
  <1>4. CASE UNCHANGED phase
    BY <1>4
  <1> QED
    BY <1>2, <1>3, <1>4 DEF Saga, Fetch, FetchFails, Refuse, SayFails, Release, Retain, Crash,
       Write, WriteLost, Conflict, Verify, Resolve, Decide, Go

\* What OutcomeStands says of one step.
LEMMA OutcomeStep ==
  ASSUME Inv, [Next]_vars, ~overrun, NEW k \in Intents, Settled(k), phase'[k] # phase[k]
  PROVE  \E e \in Executors : At(e, "deferring") /\ ex[e].want = k
  <1>1. CASE UNCHANGED phase
    BY <1>1
  <1>2. ASSUME NEW i \in Intents, NEW e \in Executors, Begin(e, i)
        PROVE  FALSE
    BY <1>2, BeginKeepsOutcomes
  <1>3. ASSUME NEW e \in Executors, Saga(e)
        PROVE  At(e, "deferring") /\ ex[e].want = k
    BY <1>3, SagaKeepsOutcomes
  <1> QED
    BY <1>1, <1>2, <1>3 DEF Next, vars, BuildIntent, OtherWrite, LeaseExpires

\* An outcome in the journal stands while the leases are kept, but for the
\* waiting note of a deferred call.
THEOREM OutcomesStand == Spec => OutcomeStands
  <1>1. Inv /\ [Next]_vars =>
          [\A i \in Intents :
             ~overrun /\ Settled(i) /\ phase'[i] # phase[i]
               => \E e \in Executors : At(e, "deferring") /\ ex[e].want = i]_vars
    BY OutcomeStep
  <1> QED
    BY <1>1, TransitionInvariance, PTL DEF Spec, OutcomeStands

=============================================================================
