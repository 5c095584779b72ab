---------------------- MODULE IntegrationHandlersProofs ---------------------
(***************************************************************************)
(* Safety of the integration handlers for every set of tasks, actions and  *)
(* submission jobs, and the refinement of Delivery.                        *)
(*                                                                         *)
(* No action holds a lease, so the argument rests on the generation that   *)
(* an action observed.  While it still is the row's (exact), the row is    *)
(* what the action last saw: ready, not rebasing, and with the head that   *)
(* the action pushes (HandlerInv).  The record of the tracker may change   *)
(* under the action, but a record that names the head of the row again can *)
(* only do so because it did before: a new submission makes a new commit.  *)
(* Heads are therefore bounded by the commits made (RowInv, RecordInv),    *)
(* and a predecessor is never newer than the head that replaced it.        *)
(***************************************************************************)
EXTENDS IntegrationHandlers, DeliveryMapping, TLAPS

\* A pair of a commit that was made, for a submission that was accepted.
Known(t, p) ==
  /\ p \in Pairs
  /\ p.head <= made[t]
  /\ origin[t][p.head] <= newest[t]

\* A row names a commit, its predecessor is not newer, and an integrated row
\* has landed under a sequence that was drawn.
RowInv(t) ==
  /\ row[t].state # "absent" => row[t].sub # NULL
  /\ row[t].sub # NULL => Known(t, row[t].sub)
  /\ row[t].pred # NULL =>
       /\ row[t].sub # NULL
       /\ row[t].pred <= made[t]
       /\ origin[t][row[t].pred] <= origin[t][row[t].sub.head]
  /\ row[t].state = "integrated" => row[t].sub.head \in epic[t]
  /\ row[t].seq <= counter

\* A record names the newest submission, and an integrated one has landed.
RecordInv(t) ==
  /\ record[t].sub # NULL =>
       Known(t, record[t].sub) /\ origin[t][record[t].sub.head] = newest[t]
  /\ record[t].state # "none" => record[t].sub # NULL
  /\ record[t].state = "integrated" => record[t].sub.head \in epic[t]

SubmitterInv(s) == sj[s].pc # "idle" => sj[s].task \in Tasks /\ Known(sj[s].task, sj[s].sub)

Names(t) == record[t].sub # NULL /\ record[t].sub.head = row[t].sub.head

Working == {"running", "rebasing", "publishing", "published", "gated", "pushing", "landed"}

\* The row of an action that nobody overtook is still the one it tested, and a
\* record that names its head after the landing names what landed.
HandlerInv(w) ==
  LET t == wf[w].task
  IN /\ wf[w].pc # "idle" => t \in Tasks
     /\ wf[w].pc = "pushing" => wf[w].head # NULL
     /\ exact[w] /\ wf[w].pc \in Working => row[t].state = "ready"
     /\ exact[w] /\ wf[w].pc \in {"gated", "pushing", "landed"} => ~Pending(row[t])
     /\ exact[w] /\ wf[w].pc = "pushing" => wf[w].head = row[t].sub.head
     /\ exact[w] /\ wf[w].pc = "landed" /\ Names(t) => row[t].sub.head \in epic[t]

\* The integrated rows beyond the cursor are in the batch, or newer than it.
ReplayInv ==
  /\ cursor <= counter
  /\ \A b \in batch : /\ b.row.state = "integrated"
                      /\ cursor <= b.row.seq /\ b.row.seq <= counter
  /\ \A t \in Tasks : row[t].state = "integrated" /\ row[t].seq > cursor =>
       \/ batch = {} \/ [task |-> t, row |-> row[t]] \in batch
       \/ \A b \in batch : b.row.seq < row[t].seq
  /\ \A t, u \in Tasks :
       row[t].state = "integrated" /\ row[u].state = "integrated" /\ row[t].seq = row[u].seq
         => t = u
  /\ CursorMissesNothing

CoreInv ==
  /\ HandlersTypeOK
  /\ \A t \in Tasks : newest[t] <= made[t] /\ RowInv(t) /\ RecordInv(t)
  /\ \A s \in Submitters : SubmitterInv(s)
  /\ \A w \in Handlers : HandlerInv(w)

Inv == CoreInv /\ ReplayInv

-----------------------------------------------------------------------------
(***************************************************************************)
(* What a step of one action on one task leaves alone.                     *)
(***************************************************************************)

\* Commits are added, and nothing that was made changes.
Grows ==
  /\ counter' \in 0..MaxSeq /\ counter <= counter'
  /\ made' \in [Tasks -> 0..MaxCommit]
  /\ origin' \in [Tasks -> [Commits -> 0..MaxCommit]]
  /\ newest' \in [Tasks -> 0..MaxCommit]
  /\ epic' \in [Tasks -> SUBSET Commits]
  /\ \A u \in Tasks :
       /\ made[u] <= made'[u] /\ newest[u] <= newest'[u] /\ newest'[u] <= made'[u]
       /\ \A c \in Commits : c <= made[u] => origin'[u][c] = origin[u][c]
       /\ epic[u] \subseteq epic'[u]

\* A written row is no longer the one that another action observed.
RowFrame(w, t) ==
  /\ row' \in [Tasks -> Rows] /\ exact' \in [Handlers -> BOOLEAN]
  /\ \A u \in Tasks : u # t => row'[u] = row[u]
  /\ \A v \in Handlers : v # w /\ exact'[v] =>
       exact[v] /\ (row'[t] = row[t] \/ wf[v].task # t \/ row[t].state # "ready")

\* A record names the head of a ready row only if it did before.
RecordFrame(t) ==
  /\ record' \in [Tasks -> Records]
  /\ \A u \in Tasks : u # t => record'[u] = record[u] /\ newest'[u] = newest[u]
  /\ row[t].state = "ready" /\ ~Pending(row[t]) /\ row'[t] = row[t] /\ Names(t)' => Names(t)

WfFrame(w) ==
  /\ wf' \in [Handlers -> Handling]
  /\ \A v \in Handlers : v # w => wf'[v] = wf[v]

SubmitterFrame ==
  /\ sj' \in [Submitters -> Submissions]
  /\ \A s \in Submitters : sj'[s] = sj[s] \/ SubmitterInv(s)'

ReplayTypeOK ==
  /\ cursor \in 0..MaxSeq
  /\ batch \subseteq [task : Tasks, row : Rows]
  /\ audited \subseteq [task : Tasks, seq : 0..MaxSeq, sub : Nullable(Pairs)]

Frame(w, t) ==
  Grows /\ RowFrame(w, t) /\ RecordFrame(t) /\ WfFrame(w) /\ SubmitterFrame /\ ReplayTypeOK'

\* NULL is no task, commit or pair.
LEMMA NotNull == NULL \notin Tasks /\ NULL \notin Commits /\ NULL \notin Pairs
  BY QueueAssumption

\* The bounds are numbers.
LEMMA Bounds == MaxAttempts \in Nat /\ MaxCommit \in Nat /\ MaxSeq \in Nat
  BY QueueAssumption

\* The type of the store, and of its parts.
LEMMA Types ==
  ASSUME CoreInv, NEW t \in Tasks
  PROVE  /\ row \in [Tasks -> Rows] /\ row[t] \in Rows
         /\ record \in [Tasks -> Records] /\ record[t] \in Records
         /\ made \in [Tasks -> 0..MaxCommit] /\ made[t] \in 0..MaxCommit
         /\ newest \in [Tasks -> 0..MaxCommit] /\ newest[t] \in 0..MaxCommit
         /\ origin \in [Tasks -> [Commits -> 0..MaxCommit]]
         /\ origin[t] \in [Commits -> 0..MaxCommit]
         /\ epic \in [Tasks -> SUBSET Commits]
         /\ counter \in 0..MaxSeq
         /\ RowInv(t) /\ RecordInv(t) /\ newest[t] <= made[t]
  BY DEF CoreInv, HandlersTypeOK, StoreTypeOK

\* The type of an action, of a submission job and of the replay.
LEMMA ActorTypes ==
  ASSUME CoreInv
  PROVE  /\ wf \in [Handlers -> Handling] /\ exact \in [Handlers -> BOOLEAN]
         /\ sj \in [Submitters -> Submissions] /\ ReplayTypeOK
  BY DEF CoreInv, HandlersTypeOK, ReplayTypeOK

\* The parts of a record, a pair and a row have their types.
LEMMA Parts ==
  /\ \A n \in Records : /\ n.sub \in Nullable(Pairs)
                        /\ n.status \in {"ready", "validating", "terminal", "open"}
                        /\ n.state \in {"none", "ready", "blocked", "integrated"}
  /\ \A p \in Pairs : p.head \in Commits /\ p.head \in Nat /\ p.moved \in BOOLEAN
  /\ \A r \in Rows : /\ r.sub \in Nullable(Pairs) /\ r.pred \in Nullable(Commits)
                     /\ r.seq \in 0..MaxSeq /\ r.attempts \in 0..MaxAttempts
                     /\ r.intent \in BOOLEAN /\ r.publishing \in BOOLEAN
  BY Bounds DEF Records, Pairs, Rows, Commits, Nullable

\* What was known stays known.
LEMMA KnownKept ==
  ASSUME CoreInv, Grows, NEW t \in Tasks, NEW p, Known(t, p)
  PROVE  /\ p \in Pairs /\ p.head <= made'[t] /\ origin'[t][p.head] <= newest'[t]
         /\ origin'[t][p.head] = origin[t][p.head]
  <1>1. p \in Pairs /\ p.head \in Commits /\ p.head \in Nat
    BY Parts DEF Known
  <1>2. /\ made[t] \in Nat /\ made'[t] \in Nat /\ p.head <= made[t] /\ made[t] <= made'[t]
        /\ newest[t] \in Nat /\ newest'[t] \in Nat /\ newest[t] <= newest'[t]
    BY Types, Bounds DEF Known, Grows
  <1>3. origin'[t][p.head] = origin[t][p.head] /\ origin[t][p.head] \in Nat
    BY <1>1, <1>2, Types, Bounds DEF Grows
  <1> QED
    BY <1>1, <1>2, <1>3 DEF Known

\* A row that no step writes keeps its invariant.
LEMMA RowKept ==
  ASSUME CoreInv, Grows, NEW t \in Tasks, row'[t] = row[t]
  PROVE  RowInv(t)'
  <1>1. RowInv(t) /\ row[t] \in Rows
    BY Types
  <1>2. row[t].sub # NULL => Known(t, row[t].sub)'
    BY <1>1, KnownKept DEF RowInv, Known
  <1>3. row[t].pred # NULL =>
          /\ row[t].sub # NULL /\ row[t].pred <= made'[t]
          /\ origin'[t][row[t].pred] <= origin'[t][row[t].sub.head]
    <2> SUFFICES ASSUME row[t].pred # NULL
                 PROVE  /\ row[t].sub # NULL /\ row[t].pred <= made'[t]
                        /\ origin'[t][row[t].pred] <= origin'[t][row[t].sub.head]
      OBVIOUS
    <2>1. row[t].pred \in Commits /\ row[t].sub # NULL /\ row[t].pred <= made[t]
          /\ Known(t, row[t].sub)
      BY <1>1, Parts DEF RowInv, Nullable
    <2>2. origin'[t][row[t].pred] = origin[t][row[t].pred]
      BY <2>1 DEF Grows
    <2>3. origin'[t][row[t].sub.head] = origin[t][row[t].sub.head]
      BY <2>1, KnownKept
    <2>4. row[t].pred <= made'[t]
      BY <2>1, Types, Bounds DEF Grows, Commits
    <2> QED
      BY <1>1, <2>1, <2>2, <2>3, <2>4 DEF RowInv
  <1>4. row[t].seq <= counter'
    BY <1>1, Types, Parts, Bounds DEF RowInv, Grows
  <1>5. row[t].state = "integrated" => row[t].sub.head \in epic'[t]
    BY <1>1 DEF RowInv, Grows
  <1>6. row[t].state # "absent" => row[t].sub # NULL
    BY <1>1 DEF RowInv
  <1> QED
    BY <1>2, <1>3, <1>4, <1>5, <1>6 DEF RowInv

\* And so does a record, while the submission it names is the newest.
LEMMA RecordKept ==
  ASSUME CoreInv, Grows, NEW t \in Tasks, record'[t] = record[t], newest'[t] = newest[t]
  PROVE  RecordInv(t)'
  <1>1. RecordInv(t)
    BY Types
  <1>2. record[t].sub # NULL =>
          Known(t, record[t].sub)' /\ origin'[t][record[t].sub.head] = newest'[t]
    BY <1>1, KnownKept DEF RecordInv, Known
  <1>3. record[t].state = "integrated" => record[t].sub.head \in epic'[t]
    BY <1>1 DEF RecordInv, Grows
  <1> QED
    BY <1>1, <1>2, <1>3 DEF RecordInv

\* A submission job that no step touches keeps what it has read.
LEMMA SubmitterKept ==
  ASSUME CoreInv, Grows, NEW s \in Submitters, sj'[s] = sj[s]
  PROVE  SubmitterInv(s)'
  <1>1. SubmitterInv(s)
    BY DEF CoreInv
  <1> QED
    BY <1>1, KnownKept DEF SubmitterInv, Known

\* An action is not disturbed by the step of another one.
LEMMA HandlerKept ==
  ASSUME CoreInv, NEW t \in Tasks, NEW w, Frame(w, t), NEW v \in Handlers, v # w
  PROVE  HandlerInv(v)'
  <1> DEFINE u == wf[v].task
  <1>1. HandlerInv(v)
    BY DEF CoreInv
  <1>2. wf'[v] = wf[v]
    BY DEF Frame, WfFrame
  <1>3. /\ wf[v].pc # "idle" => u \in Tasks
        /\ wf[v].pc = "pushing" => wf[v].head # NULL
    BY <1>1 DEF HandlerInv
  <1>4. CASE exact'[v] /\ wf[v].pc \in Working
    <2>1. exact[v] /\ (row'[t] = row[t] \/ u # t \/ row[t].state # "ready")
      BY <1>4 DEF Frame, RowFrame
    <2>2. /\ u \in Tasks /\ row[u].state = "ready"
          /\ wf[v].pc \in {"gated", "pushing", "landed"} => ~Pending(row[u])
          /\ wf[v].pc = "pushing" => wf[v].head = row[u].sub.head
          /\ wf[v].pc = "landed" /\ Names(u) => row[u].sub.head \in epic[u]
      BY <1>1, <1>4, <2>1 DEF HandlerInv, Working
    <2>3. row'[u] = row[u]
      BY <2>1, <2>2 DEF Frame, RowFrame
    <2>4. ~Pending(row[u]) /\ Names(u)' => Names(u)
      <3>1. CASE u = t
        BY <1>2, <2>2, <2>3, <3>1 DEF Frame, RecordFrame, Names
      <3>2. CASE u # t
        BY <1>2, <2>2, <2>3, <3>2 DEF Frame, RecordFrame, Names
      <3> QED
        BY <3>1, <3>2
    <2>5. epic[u] \subseteq epic'[u]
      BY <2>2 DEF Frame, Grows
    <2>6. /\ row'[u].state = "ready"
          /\ wf[v].pc \in {"gated", "pushing", "landed"} => ~Pending(row'[u])
          /\ wf[v].pc = "pushing" => wf[v].head = row'[u].sub.head
          /\ wf[v].pc = "landed" /\ Names(u)' => row'[u].sub.head \in epic'[u]
      BY <2>2, <2>3, <2>4, <2>5
    <2> QED
      BY <1>2, <1>3, <2>6 DEF HandlerInv, Names, Pending
  <1>5. CASE ~(exact'[v] /\ wf[v].pc \in Working)
    BY <1>2, <1>3, <1>5 DEF HandlerInv, Working
  <1> QED
    BY <1>4, <1>5

\* A step of action w on task t keeps the invariant if what it writes does.
LEMMA CoreStep ==
  ASSUME CoreInv, NEW t \in Tasks, NEW w, Frame(w, t),
         RowInv(t)', RecordInv(t)', w \in Handlers => HandlerInv(w)'
  PROVE  CoreInv'
  <1>1. HandlersTypeOK'
    BY DEF Frame, Grows, RowFrame, RecordFrame, WfFrame, SubmitterFrame, ReplayTypeOK,
           HandlersTypeOK, StoreTypeOK
  <1>2. ASSUME NEW u \in Tasks
        PROVE  newest'[u] <= made'[u] /\ RowInv(u)' /\ RecordInv(u)'
    <2>1. newest'[u] <= made'[u]
      BY DEF Frame, Grows
    <2>2. CASE u = t
      BY <2>1, <2>2
    <2>3. CASE u # t
      <3>1. Grows /\ row'[u] = row[u] /\ record'[u] = record[u] /\ newest'[u] = newest[u]
        BY <2>3 DEF Frame, RowFrame, RecordFrame
      <3> QED
        BY <2>1, <3>1, RowKept, RecordKept
    <2> QED
      BY <2>2, <2>3
  <1>3. ASSUME NEW s \in Submitters
        PROVE  SubmitterInv(s)'
    BY SubmitterKept DEF Frame, SubmitterFrame
  <1>4. ASSUME NEW v \in Handlers
        PROVE  HandlerInv(v)'
    BY HandlerKept
  <1> QED
    BY <1>1, <1>2, <1>3, <1>4 DEF CoreInv


-----------------------------------------------------------------------------
(***************************************************************************)
(* The frames of the steps.                                                *)
(***************************************************************************)

\* Rows and records are written; no commit is made or pushed.
LEMMA QuietGrows ==
  ASSUME CoreInv, UNCHANGED <<made, origin, newest, epic>>,
         counter' = counter \/ (counter < MaxSeq /\ counter' = counter + 1)
  PROVE  Grows
  <1>1. counter' \in 0..MaxSeq /\ counter <= counter'
    BY Bounds DEF CoreInv, HandlersTypeOK, StoreTypeOK
  <1>2. \A u \in Tasks : made[u] <= made[u] /\ newest[u] <= newest[u] /\ newest[u] <= made[u]
    BY Types, Bounds
  <1> QED
    BY <1>1, <1>2 DEF Grows, CoreInv, HandlersTypeOK, StoreTypeOK

\* A write of a row.
LEMMA PutFrame ==
  ASSUME CoreInv, NEW t \in Tasks, NEW r \in Rows, NEW who, NEW w \in Handlers \cup {NULL},
         Put(t, r, who), who = w \/ who = NULL
  PROVE  RowFrame(w, t) /\ row'[t] = r
  <1>1. row' = [row EXCEPT ![t] = r] /\ row \in [Tasks -> Rows]
    BY Types DEF Put
  <1>2. exact' \in [Handlers -> BOOLEAN]
    BY DEF Put
  <1>3. ASSUME NEW v \in Handlers, v # w, exact'[v]
        PROVE  exact[v] /\ wf[v].task # t
    <2>1. v # NULL /\ v # who
      BY <1>3, ActorsAssumption
    <2> QED
      BY <1>3, <2>1 DEF Put
  <1> QED
    BY <1>1, <1>2, <1>3 DEF RowFrame

\* The action keeps its generation, or ends; no row is written.
LEMMA KeepFrame ==
  ASSUME CoreInv, NEW t \in Tasks, NEW w, UNCHANGED row,
         exact' \in [Handlers -> BOOLEAN],
         \A v \in Handlers : v # w => exact'[v] = exact[v]
  PROVE  RowFrame(w, t)
  BY Types DEF RowFrame

\* A finished job leaves the store and every other job as they were
\* (apply_action ends).
LEMMA ForgetFrame ==
  ASSUME CoreInv, NEW t \in Tasks, NEW w \in Handlers, UNCHANGED row, Forget(w)
  PROVE  RowFrame(w, t) /\ exact'[w] = FALSE
  <1>1. exact \in [Handlers -> BOOLEAN]
    BY ActorTypes
  <1>2. exact' \in [Handlers -> BOOLEAN] /\ exact'[w] = FALSE
        /\ \A v \in Handlers : v # w => exact'[v] = exact[v]
    BY <1>1 DEF Forget
  <1> QED
    BY <1>2, KeepFrame

\* A write of a record that does not change the head it names.
LEMMA RecordWrite ==
  ASSUME CoreInv, NEW t \in Tasks, NEW n \in Records,
         record' = [record EXCEPT ![t] = n], UNCHANGED newest,
         row'[t] = row[t] => n.sub = record[t].sub \/ row[t].state # "ready"
                             \/ Pending(row[t]) \/ (n.sub # NULL => n.sub.head = record[t].sub.head
                                                             /\ record[t].sub # NULL)
  PROVE  RecordFrame(t) /\ record'[t] = n
  BY Types DEF RecordFrame, Names

\* No write of a record.
LEMMA RecordSame ==
  ASSUME CoreInv, Grows, NEW t \in Tasks, UNCHANGED <<record, newest>>
  PROVE  RecordFrame(t) /\ RecordInv(t)'
  <1>1. RecordInv(t)'
    BY RecordKept
  <1> QED
    BY <1>1, Types DEF RecordFrame, Names

\* The action goes on, or ends.
LEMMA WfStep ==
  ASSUME CoreInv, NEW w \in Handlers, NEW h \in Handling, wf' = [wf EXCEPT ![w] = h]
  PROVE  WfFrame(w) /\ wf'[w] = h
  BY ActorTypes DEF WfFrame

\* What a job knows after it went on to its next step (the generation in its
\* checkpoint).
LEMMA ProceedStep ==
  ASSUME CoreInv, NEW w \in Handlers, NEW pc, Proceed(w, pc),
         pc \in {"recovering", "normalized", "running", "rebasing", "publishing",
                 "published", "gated", "landed", "refused"}
  PROVE  WfFrame(w) /\ wf'[w].pc = pc /\ wf'[w].task = wf[w].task /\ wf'[w].head = wf[w].head
  <1>1. wf \in [Handlers -> Handling] /\ wf[w] \in Handling
    BY ActorTypes
  <1>2. [wf[w] EXCEPT !.pc = pc, !.seen = NULL] \in Handling
    BY <1>1 DEF Handling, Nullable
  <1>3. wf' = [wf EXCEPT ![w] = [wf[w] EXCEPT !.pc = pc, !.seen = NULL]]
    BY <1>1 DEF Proceed
  <1> QED
    BY <1>1, <1>2, <1>3 DEF WfFrame, Handling

\* A job that ends only forgets what it was doing.
LEMMA EndStep ==
  ASSUME CoreInv, NEW w \in Handlers, EndHandling(w)
  PROVE  WfFrame(w) /\ wf'[w].pc = "idle" /\ HandlerInv(w)'
  <1>1. IdleHandler \in Handling /\ IdleHandler.pc = "idle"
    BY DEF IdleHandler, Handling, Nullable
  <1>2. WfFrame(w) /\ wf'[w] = IdleHandler
    BY <1>1, WfStep DEF EndHandling
  <1> QED
    BY <1>1, <1>2 DEF HandlerInv, Working

\* Nothing of the submission jobs and of the replay changes.
LEMMA OthersSame ==
  ASSUME CoreInv, UNCHANGED <<sj, replay>>
  PROVE  SubmitterFrame /\ ReplayTypeOK'
  BY ActorTypes DEF SubmitterFrame, ReplayTypeOK, replay

\* An action that is under way has a task.
LEMMA TaskOf ==
  ASSUME CoreInv, NEW w \in Handlers, wf[w].pc # "idle"
  PROVE  wf[w].task \in Tasks
  BY DEF CoreInv, HandlerInv

-----------------------------------------------------------------------------
(***************************************************************************)
(* Steps that write neither a row nor a record.                            *)
(***************************************************************************)

\* A step that changes neither rows nor records keeps what the invariant says
\* of them.
LEMMA StoreSame ==
  ASSUME CoreInv, NEW t \in Tasks, UNCHANGED store
  PROVE  Grows /\ RecordFrame(t) /\ RowInv(t)' /\ RecordInv(t)'
  <1>1. UNCHANGED <<row, record, newest, counter, made, origin, epic>>
    BY DEF store
  <1>2. Grows
    BY <1>1, QuietGrows
  <1> QED
    BY <1>1, <1>2, RecordSame, RowKept

\* revalidate_action only copies the row that its job will act on.
LEMMA ObserveCore ==
  ASSUME CoreInv, NEW w \in Handlers, NEW t \in Tasks, Observe(w, t)
  PROVE  CoreInv'
  <1> DEFINE h == [pc |-> "observed", task |-> t, seen |-> record[t], head |-> NULL]
  <1>1. h \in Handling
    BY Types DEF Handling, Nullable
  <1>2. WfFrame(w) /\ wf'[w] = h
    BY <1>1, WfStep DEF Observe
  <1>3. UNCHANGED row /\ exact' \in [Handlers -> BOOLEAN]
        /\ \A v \in Handlers : v # w => exact'[v] = exact[v]
    BY ActorTypes DEF Observe, store
  <1>4. RowFrame(w, t)
    BY <1>3, KeepFrame
  <1>5. HandlerInv(w)'
    BY <1>2 DEF HandlerInv, Working
  <1>6. UNCHANGED store /\ UNCHANGED <<sj, replay>>
    BY DEF Observe
  <1> QED
    BY <1>2, <1>4, <1>5, <1>6, StoreSame, OthersSame, CoreStep DEF Frame

\* Steps that only move the action itself, and end with its invariant.
LEMMA MoveCore ==
  ASSUME CoreInv, NEW w \in Handlers, wf[w].pc # "idle",
         UNCHANGED <<store, sj, replay>>, WfFrame(w), HandlerInv(w)',
         UNCHANGED exact \/ Forget(w)
  PROVE  CoreInv'
  <1>1. wf[w].task \in Tasks
    BY TaskOf
  <1>2. UNCHANGED row
    BY DEF store
  <1>3. RowFrame(w, wf[w].task)
    BY <1>1, <1>2, ForgetFrame, KeepFrame, ActorTypes
  <1> QED
    BY <1>1, <1>3, StoreSame, OthersSame, CoreStep DEF Frame

\* Finding the head on the epic branch already only moves the job on.
LEMMA RecoverLandingCore ==
  ASSUME CoreInv, NEW w \in Handlers, RecoverLanding(w)
  PROVE  CoreInv'
  <1> DEFINE t == wf[w].task
             h == [wf[w] EXCEPT !.pc = "landed", !.head = record[t].sub.head]
  <1>1. /\ wf[w].pc = "running" /\ exact[w] /\ ~Pending(row[t])
        /\ record[t].sub # NULL /\ record[t].sub.head \in epic[t]
        /\ UNCHANGED <<store, sj, replay>> /\ UNCHANGED exact
    BY DEF RecoverLanding, At
  <1>2. t \in Tasks
    BY <1>1, TaskOf
  <1>3. wf \in [Handlers -> Handling] /\ wf[w] \in Handling
    BY ActorTypes
  <1>4. h \in Handling
    BY <1>1, <1>2, <1>3, Types DEF Handling, Nullable
  <1>5. WfFrame(w) /\ wf'[w] = h
    BY <1>3, <1>4, WfStep DEF RecoverLanding, Hold
  <1>6. row'[t] = row[t] /\ epic'[t] = epic[t] /\ record'[t] = record[t] /\ exact'[w] = exact[w]
    BY <1>1 DEF store
  <1>7. row[t].state = "ready"
    BY <1>1 DEF CoreInv, HandlerInv, Working
  <1>8. /\ wf'[w].pc = "landed" /\ wf'[w].task = t
    BY <1>3, <1>5 DEF Handling
  <1>9. HandlerInv(w)'
    BY <1>1, <1>2, <1>6, <1>7, <1>8 DEF HandlerInv, Names, Pending
  <1> QED
    BY <1>1, <1>5, <1>9, MoveCore


\* Publishing a rebased head changes the branch and not the queue.
LEMMA PublishHeadCore ==
  ASSUME CoreInv, NEW w \in Handlers, PublishHead(w)
  PROVE  CoreInv'
  <1>1. /\ wf[w].pc = "publishing" /\ exact[w] /\ row[wf[w].task].state = "ready"
        /\ UNCHANGED <<store, sj, replay>> /\ UNCHANGED exact /\ Proceed(w, "published")
    BY DEF PublishHead, At, Authorized
  <1>2. WfFrame(w) /\ wf'[w].pc = "published" /\ wf'[w].task = wf[w].task
    BY <1>1, ProceedStep
  <1>3. wf[w].task \in Tasks /\ row' = row
    BY <1>1, TaskOf DEF store
  <1>4. HandlerInv(w)'
    BY <1>1, <1>2, <1>3 DEF HandlerInv
  <1> QED
    BY <1>1, <1>2, <1>4, MoveCore

\* The gate decides where the job goes on and stores nothing.
LEMMA RunGateCore ==
  ASSUME CoreInv, NEW w \in Handlers, NEW pass \in BOOLEAN, RunGate(w, pass)
  PROVE  CoreInv'
  <1> DEFINE pc == IF pass THEN "gated" ELSE "refused"
  <1>1. /\ wf[w].pc = "running" /\ row[wf[w].task].state = "ready"
        /\ ~Pending(row[wf[w].task])
        /\ UNCHANGED <<store, sj, replay>> /\ UNCHANGED exact /\ Proceed(w, pc)
    BY DEF RunGate, At, Authorized
  <1>2. WfFrame(w) /\ wf'[w].pc = pc /\ wf'[w].task = wf[w].task
    BY <1>1, ProceedStep
  <1>3. wf[w].task \in Tasks /\ row' = row
    BY <1>1, TaskOf DEF store
  <1>4. HandlerInv(w)'
    BY <1>1, <1>2, <1>3 DEF HandlerInv, Pending
  <1> QED
    BY <1>1, <1>2, <1>4, MoveCore

\* The last authority check before the push stores nothing.
LEMMA AuthorizePushCore ==
  ASSUME CoreInv, NEW w \in Handlers, AuthorizePush(w)
  PROVE  CoreInv'
  <1> DEFINE t == wf[w].task
             h == [wf[w] EXCEPT !.pc = "pushing", !.head = row[t].sub.head]
  <1>1. /\ wf[w].pc = "gated" /\ exact[w] /\ row[t].state = "ready"
        /\ UNCHANGED <<store, sj, replay>> /\ UNCHANGED exact
    BY DEF AuthorizePush, At, Authorized
  <1>2. t \in Tasks /\ ~Pending(row[t])
    BY <1>1, TaskOf DEF CoreInv, HandlerInv
  <1>3. wf \in [Handlers -> Handling] /\ wf[w] \in Handling
    BY ActorTypes
  <1>4. row[t].sub.head \in Commits
    BY <1>1, <1>2, Types, Parts DEF RowInv, Known
  <1>5. h \in Handling /\ h.pc = "pushing" /\ h.task = t /\ h.head = row[t].sub.head
    BY <1>3, <1>4 DEF Handling, Nullable
  <1>6. WfFrame(w) /\ wf'[w] = h
    BY <1>3, <1>5, WfStep DEF AuthorizePush, Hold
  <1>7. row' = row /\ row[t].sub.head # NULL
    BY <1>1, <1>4, NotNull DEF store
  <1>8. HandlerInv(w)'
    BY <1>1, <1>2, <1>5, <1>6, <1>7 DEF HandlerInv, Pending
  <1> QED
    BY <1>1, <1>6, <1>8, MoveCore

\* A job that lost its authority ends without a trace in the store.
LEMMA AbandonActionCore ==
  ASSUME CoreInv, NEW w \in Handlers, AbandonAction(w)
  PROVE  CoreInv'
  BY EndStep, MoveCore DEF AbandonAction, At

-----------------------------------------------------------------------------
(***************************************************************************)
(* Steps that write a row and leave the record.                            *)
(***************************************************************************)

\* Only the row of the action's task, and the sequence, may change.
LEMMA RowCore ==
  ASSUME CoreInv, NEW t \in Tasks, NEW w, RowFrame(w, t), RowInv(t)',
         WfFrame(w), w \in Handlers => HandlerInv(w)',
         UNCHANGED <<record, made, origin, newest, epic>>,
         SubmitterFrame, ReplayTypeOK',
         counter' = counter \/ (counter < MaxSeq /\ counter' = counter + 1)
  PROVE  CoreInv'
  <1>1. Grows
    BY QuietGrows
  <1> QED
    BY <1>1, RecordSame, CoreStep DEF Frame

\* A row with the head of the row before it, and no newer predecessor.
LEMMA RowRewritten ==
  ASSUME CoreInv, NEW t \in Tasks, UNCHANGED <<made, origin, newest, epic, counter>>,
         row[t].state # "absent", row'[t].sub # NULL,
         row'[t].sub \in Pairs, row'[t].sub.head = row[t].sub.head,
         row'[t].state # "integrated",
         row'[t].seq <= counter,
         row'[t].pred \in {NULL, row[t].pred, row[t].sub.head}
  PROVE  RowInv(t)'
  <1>1. RowInv(t) /\ Known(t, row[t].sub)
    BY Types DEF RowInv
  <1>2. Known(t, row[t].sub)'
    BY <1>1 DEF Known
  <1>3. row'[t].pred # NULL =>
          row'[t].pred <= made[t] /\ origin[t][row'[t].pred] <= origin[t][row'[t].sub.head]
    <2>1. row[t].sub.head \in Commits /\ origin[t][row[t].sub.head] \in Nat
      BY <1>1, Types, Parts, Bounds DEF Known
    <2> QED
      BY <1>1, <2>1 DEF RowInv, Known
  <1> QED
    BY <1>2, <1>3 DEF RowInv


\* What the transactions make of a row is a row.
LEMMA RowValues ==
  ASSUME NEW r \in Rows
  PROVE  /\ Released(r) \in Rows /\ Cancelled(r) \in Rows
         /\ Released(r).state = "ready" /\ Cancelled(r).state = "cancelled"
         /\ Released(r).sub = r.sub /\ Cancelled(r).sub = r.sub
         /\ Released(r).pred = r.pred /\ Cancelled(r).pred = r.pred
         /\ Released(r).seq = r.seq /\ Cancelled(r).seq = r.seq
  BY DEF Rows, Released, Cancelled, Nullable

\* enqueue makes a well-typed row with a fresh sequence.
LEMMA NewRowType ==
  ASSUME NEW p \in Pairs, NEW r \in {NewRow(p), [NewRow(p) EXCEPT !.attempts = 0]}
  PROVE  r \in Rows /\ r.sub = p /\ r.pred = NULL /\ r.seq = 0 /\ r.state = "ready"
  <1>1. NoRow \in Rows /\ NoRow.pred = NULL /\ NoRow.seq = 0
    BY Bounds DEF NoRow, Rows, Nullable
  <1>2. /\ NewRow(p) \in Rows /\ NewRow(p).sub = p
        /\ NewRow(p).pred = NULL /\ NewRow(p).seq = 0 /\ NewRow(p).state = "ready"
    BY <1>1 DEF NewRow, Rows, Nullable
  <1> QED
    BY <1>2, Bounds DEF Rows

\* A new row names a submission that was accepted, and nothing else.
LEMMA NewRowInv ==
  ASSUME CoreInv, NEW t \in Tasks, NEW p, Known(t, p),
         UNCHANGED <<made, origin, newest, epic, counter>>,
         row'[t] \in {NewRow(p), [NewRow(p) EXCEPT !.attempts = 0]}
  PROVE  row'[t] \in Rows /\ row'[t].state = "ready" /\ RowInv(t)'
  <1>1. p \in Pairs /\ p # NULL
    BY NotNull DEF Known
  <1>2. /\ row'[t] \in Rows /\ row'[t].sub = p /\ row'[t].pred = NULL /\ row'[t].seq = 0
        /\ row'[t].state = "ready"
    BY <1>1, NewRowType
  <1>3. 0 <= counter
    BY Types, Bounds
  <1>4. Known(t, row[t].sub)'
    BY <1>2 DEF Known
  <1> QED
    BY <1>1, <1>2, <1>3, <1>4 DEF RowInv

\* Recovery of an expired or exhausted row keeps its submission and its claims
\* of landing.
LEMMA RecoverRowCore ==
  ASSUME CoreInv, NEW w \in Handlers, RecoverRow(w)
  PROVE  CoreInv'
  <1>0. PICK t \in Tasks : t = wf[w].task
    BY TaskOf DEF RecoverRow, At
  <1>1. /\ wf[w].pc = "observed" /\ record[t].sub # NULL
        /\ UNCHANGED <<counter, record, made, origin, newest, epic, sj, replay>>
        /\ Proceed(w, "recovering")
    BY <1>0 DEF RecoverRow, At
  <1>3. Grows
    BY <1>1, QuietGrows
  <1>4. row[t] \in Rows /\ RowInv(t) /\ Known(t, record[t].sub)
    BY <1>0, <1>1, Types DEF RecordInv
  <1>5. RowFrame(w, t) /\ RowInv(t)'
    <2>1. CASE row[t].state = "absent" /\ Put(t, NewRow(record[t].sub), w)
      <3>1. row'[t] = NewRow(record[t].sub)
        BY <1>0, <2>1, Types DEF Put
      <3>2. NewRow(record[t].sub) \in Rows /\ RowInv(t)'
        BY <1>1, <1>4, <3>1, NewRowInv
      <3> QED
        BY <1>0, <2>1, <3>2, PutFrame
    <2>2. CASE row[t].state \in {"integrating", "cancelled"} /\ Put(t, Released(row[t]), w)
      <3>1. RowFrame(w, t) /\ row'[t] = Released(row[t])
        BY <1>0, <1>4, <2>2, RowValues, PutFrame
      <3>2. row[t].sub \in Pairs
        BY <1>4, <2>2 DEF RowInv, Known
      <3> QED
        BY <1>0, <1>1, <1>4, <2>2, <3>1, <3>2, RowValues, RowRewritten, NotNull DEF RowInv
    <2>3. CASE UNCHANGED <<row, exact>>
      BY <1>0, <1>3, <2>3, KeepFrame, RowKept, ActorTypes
    <2> QED
      BY <1>0, <2>1, <2>2, <2>3 DEF RecoverRow
  <1>6. WfFrame(w) /\ wf'[w].pc = "recovering" /\ wf'[w].task = t
    BY <1>0, <1>1, ProceedStep
  <1>7. HandlerInv(w)'
    BY <1>0, <1>6 DEF HandlerInv, Working
  <1> QED
    BY <1>0, <1>1, <1>5, <1>6, <1>7, OthersSame, RowCore

\* A row that keeps its head and stays ready, written by the action that holds
\* its generation or by one that ends.
LEMMA ReadyRowCore ==
  ASSUME CoreInv, NEW w \in Handlers, wf[w].pc # "idle", NEW r, NEW who,
         row[wf[w].task].state = "ready",
         r \in Rows, r.state = "ready", r.seq = row[wf[w].task].seq,
         r.sub \in Pairs, r.sub.head = row[wf[w].task].sub.head,
         r.pred \in {NULL, row[wf[w].task].pred, row[wf[w].task].sub.head},
         Put(wf[w].task, r, who) /\ (who = w \/ who = NULL),
         \/ EndHandling(w)
         \/ \E pc \in {"running", "rebasing", "refused"} : Proceed(w, pc),
         UNCHANGED <<counter, record, made, origin, newest, epic, sj, replay>>
  PROVE  CoreInv'
  <1>1. PICK t \in Tasks : t = wf[w].task
    BY TaskOf
  <1>2. RowFrame(w, t) /\ row'[t] = r
    BY <1>1, PutFrame
  <1>3. RowInv(t)'
    <2>1. r.seq <= counter
      BY <1>1, Types DEF RowInv
    <2> QED
      BY <1>1, <1>2, <2>1, RowRewritten, NotNull
  <1>4. WfFrame(w) /\ HandlerInv(w)'
    <2>1. CASE EndHandling(w)
      BY <2>1, EndStep
    <2>2. ASSUME NEW pc \in {"running", "rebasing", "refused"}, Proceed(w, pc)
          PROVE  WfFrame(w) /\ HandlerInv(w)'
      <3>1. WfFrame(w) /\ wf'[w].pc = pc /\ wf'[w].task = t
        BY <1>1, <2>2, ProceedStep
      <3> QED
        BY <1>1, <1>2, <3>1 DEF HandlerInv
    <2> QED
      BY <2>1, <2>2
  <1> QED
    BY <1>1, <1>2, <1>3, <1>4, OthersSame, RowCore

\* An action that goes on without a write.
LEMMA ReadyCore ==
  ASSUME CoreInv, NEW w \in Handlers, wf[w].pc # "idle",
         row[wf[w].task].state = "ready",
         UNCHANGED <<row, exact, counter, record, made, origin, newest, epic, sj, replay>>,
         NEW pc \in {"running", "rebasing"}, Proceed(w, pc)
  PROVE  CoreInv'
  <1>1. WfFrame(w) /\ wf'[w].pc = pc /\ wf'[w].task = wf[w].task
    BY ProceedStep
  <1>2. HandlerInv(w)'
    BY <1>1, TaskOf DEF HandlerInv
  <1> QED
    BY <1>1, <1>2, MoveCore DEF store

\* Consuming a retry opens the row again under the same head.
LEMMA ConsumeRetryCore ==
  ASSUME CoreInv, NEW w \in Handlers, NEW forced \in BOOLEAN, ConsumeRetry(w, forced)
  PROVE  CoreInv'
  <1>0. PICK t \in Tasks : t = wf[w].task
    BY TaskOf DEF ConsumeRetry, At
  <1>1. /\ wf[w].pc = "observed" /\ row[t].state = "ready" /\ Proceed(w, "running")
        /\ UNCHANGED <<counter, record, made, origin, newest, epic, sj, replay>>
    BY <1>0 DEF ConsumeRetry, At
  <1>3. row[t] \in Rows /\ row[t].sub \in Pairs
    BY <1>0, <1>1, Types DEF RowInv, Known
  <1>4. CASE Put(t, row[t], w)
    BY <1>0, <1>1, <1>3, <1>4, ReadyRowCore
  <1>5. CASE UNCHANGED <<row, exact>>
    BY <1>0, <1>1, <1>5, ReadyCore
  <1> QED
    BY <1>0, <1>4, <1>5 DEF ConsumeRetry

\* A prepared rebase marks the row and keeps its head.
LEMMA PrepareRebaseCore ==
  ASSUME CoreInv, NEW w \in Handlers, PrepareRebase(w)
  PROVE  CoreInv'
  <1>0. PICK t \in Tasks : t = wf[w].task
    BY TaskOf DEF PrepareRebase, At
  <1> DEFINE r == [row[t] EXCEPT !.sub.moved = TRUE, !.pred = row[t].sub.head, !.intent = TRUE]
  <1>1. /\ wf[w].pc = "running" /\ row[t].state = "ready" /\ Proceed(w, "rebasing")
        /\ UNCHANGED <<counter, record, made, origin, newest, epic, sj, replay>>
    BY <1>0 DEF PrepareRebase, At, Authorized
  <1>3. row[t] \in Rows /\ row[t].sub \in Pairs
    BY <1>0, <1>1, Types DEF RowInv, Known
  <1>4. /\ r \in Rows /\ r.state = row[t].state /\ r.seq = row[t].seq
        /\ r.sub \in Pairs /\ r.sub.head = row[t].sub.head /\ r.pred = row[t].sub.head
    BY <1>3 DEF Rows, Pairs, Nullable
  <1>5. CASE Put(t, r, w)
    <2> HIDE DEF r
    <2> QED
      BY <1>0, <1>1, <1>4, <1>5, ReadyRowCore
  <1>6. CASE UNCHANGED <<row, exact>>
    BY <1>0, <1>1, <1>6, ReadyCore
  <1> QED
    BY <1>0, <1>5, <1>6 DEF PrepareRebase

\* An aborted rebase restores the row that was prepared.
LEMMA AbortRebaseCore ==
  ASSUME CoreInv, NEW w \in Handlers, AbortRebase(w)
  PROVE  CoreInv'
  <1>0. PICK t \in Tasks : t = wf[w].task
    BY TaskOf DEF AbortRebase, At
  <1> DEFINE r == [row[t] EXCEPT !.intent = FALSE, !.pred = NULL]
             goesOn == RecordMatches(t) /\ record[t].state = "ready"
             who == IF goesOn THEN w ELSE NULL
  <1>1. /\ wf[w].pc = "rebasing" /\ row[t].state = "ready"
        /\ IF goesOn THEN Proceed(w, "refused") ELSE EndHandling(w)
        /\ Put(t, r, who)
        /\ UNCHANGED <<counter, record, made, origin, newest, epic, sj, replay>>
    BY <1>0 DEF AbortRebase, At
  <1>3. row[t] \in Rows /\ row[t].sub \in Pairs
    BY <1>0, <1>1, Types DEF RowInv, Known
  <1>4. /\ r \in Rows /\ r.state = row[t].state /\ r.seq = row[t].seq
        /\ r.sub = row[t].sub /\ r.pred = NULL
    BY <1>3 DEF Rows, Nullable
  <1>5. who \in {w, NULL} /\ (EndHandling(w) \/ Proceed(w, "refused"))
    BY <1>1
  <1> HIDE DEF r, goesOn, who
  <1> QED
    BY <1>0, <1>1, <1>3, <1>4, <1>5, ReadyRowCore

\* A completed publication clears the marks of the row it prepared.
LEMMA CompletePublicationCore ==
  ASSUME CoreInv, NEW w \in Handlers, CompletePublication(w)
  PROVE  CoreInv'
  <1>0. PICK t \in Tasks : t = wf[w].task
    BY TaskOf DEF CompletePublication, At
  <1> DEFINE r == [row[t] EXCEPT !.publishing = FALSE]
  <1>1. /\ wf[w].pc = "published" /\ row[t].state = "ready" /\ Proceed(w, "running")
        /\ Put(t, r, w)
        /\ UNCHANGED <<counter, record, made, origin, newest, epic, sj, replay>>
    BY <1>0 DEF CompletePublication, At
  <1>3. row[t] \in Rows /\ row[t].sub \in Pairs
    BY <1>0, <1>1, Types DEF RowInv, Known
  <1>4. /\ r \in Rows /\ r.state = row[t].state /\ r.seq = row[t].seq
        /\ r.sub = row[t].sub /\ r.pred = row[t].pred
    BY <1>3 DEF Rows, Nullable
  <1> HIDE DEF r
  <1> QED
    BY <1>0, <1>1, <1>3, <1>4, ReadyRowCore


\* The terminal checkpoint calls a row integrated only for a head that landed.
LEMMA PrepareTerminalCore ==
  ASSUME CoreInv, NEW w \in Handlers, PrepareTerminal(w)
  PROVE  CoreInv'
  <1>0. PICK t \in Tasks : t = wf[w].task
    BY TaskOf DEF PrepareTerminal, At
  <1> DEFINE r == row[t]
             p == record[t].sub
  <1>1. /\ wf[w].pc = "observed" /\ record[t].state = "integrated"
        /\ r.state \in {"ready", "integrated"} /\ Proceed(w, "normalized")
        /\ UNCHANGED <<record, made, origin, newest, epic, sj, replay>>
    BY <1>0 DEF PrepareTerminal, At, NextSequence
  <1>2. /\ r \in Rows /\ RowInv(t) /\ Known(t, r.sub)
        /\ p \in Pairs /\ Known(t, p) /\ origin[t][p.head] = newest[t]
    BY <1>1, Types DEF RowInv, RecordInv, Known
  <1>3. WfFrame(w) /\ wf'[w].pc = "normalized" /\ wf'[w].task = t
    BY <1>0, <1>1, ProceedStep
  <1>4. HandlerInv(w)'
    BY <1>3 DEF HandlerInv, Working
  <1>5. CASE UNCHANGED <<row, counter, exact>>
    <2>1. Grows
      BY <1>1, <1>5, QuietGrows
    <2>2. RowFrame(w, t) /\ RowInv(t)'
      BY <1>5, <2>1, KeepFrame, RowKept, ActorTypes
    <2> QED
      BY <1>1, <1>3, <1>4, <1>5, <2>2, OthersSame, RowCore
  <1>6. CASE /\ p.head \in epic[t] /\ counter < MaxSeq /\ counter' = counter + 1
             /\ Put(t, Integrated(r, p, counter + 1), w)
    <2> DEFINE q == Integrated(r, p, counter + 1)
    <2>1. counter + 1 \in 0..MaxSeq
      BY <1>6, Types, Bounds
    <2>2. r.sub.head \in Commits /\ p.head \in Commits
      BY <1>2, Parts DEF Known
    <2>3. /\ q \in Rows /\ q.sub = p /\ q.seq = counter + 1
          /\ q.pred \in {r.pred, r.sub.head}
      BY <1>2, <2>1, <2>2 DEF Integrated, Rows, Nullable
    <2>3a. Put(t, q, w)
      BY <1>6
    <2> HIDE DEF q
    <2>4. RowFrame(w, t) /\ row'[t] = q
      BY <2>3, <2>3a, PutFrame
    <2>5. Known(t, row[t].sub)' /\ row'[t].sub # NULL
      BY <1>1, <1>2, <2>3, <2>4, NotNull DEF Known
    <2>6. q.pred # NULL => q.pred <= made[t] /\ origin[t][q.pred] <= origin[t][p.head]
      <3>1. /\ r.pred # NULL => r.pred <= made[t] /\ origin[t][r.pred] <= origin[t][r.sub.head]
            /\ origin[t][r.sub.head] <= origin[t][p.head]
            /\ r.sub.head <= made[t]
        BY <1>2 DEF RowInv, Known
      <3>2. /\ origin[t][r.sub.head] \in Nat /\ origin[t][p.head] \in Nat
            /\ r.pred # NULL => origin[t][r.pred] \in Nat
        BY <1>2, <2>2, Types, Parts, Bounds DEF Nullable
      <3> QED
        BY <2>3, <3>1, <3>2
    <2>7. RowInv(t)'
      BY <1>1, <1>6, <2>1, <2>3, <2>4, <2>5, <2>6 DEF RowInv
    <2> QED
      BY <1>1, <1>3, <1>4, <1>6, <2>4, <2>7, OthersSame, RowCore
  <1> QED
    BY <1>0, <1>5, <1>6 DEF PrepareTerminal, NextSequence

\* Expiry of a legacy lease releases the row and nothing else.
LEMMA LeaseExpiresCore ==
  ASSUME CoreInv, NEW t \in Tasks, LeaseExpires(t)
  PROVE  CoreInv'
  <1> DEFINE r == [row[t] EXCEPT !.expired = TRUE]
  <1>1. /\ row[t].state = "integrating" /\ row' = [row EXCEPT ![t] = r]
        /\ UNCHANGED <<counter, record, made, origin, newest, epic, wf, exact, sj, replay>>
    BY DEF LeaseExpires
  <1>2. row \in [Tasks -> Rows] /\ row[t] \in Rows /\ RowInv(t)
    BY Types
  <1>3. r \in Rows /\ r.state = row[t].state /\ r.sub = row[t].sub /\ r.pred = row[t].pred
        /\ r.seq = row[t].seq
    BY <1>2 DEF Rows
  <1> HIDE DEF r
  <1>4. row' \in [Tasks -> Rows] /\ row'[t] = r /\ \A u \in Tasks : u # t => row'[u] = row[u]
    BY <1>1, <1>2, <1>3
  <1>5. RowFrame(NULL, t)
    BY <1>1, <1>4, ActorTypes DEF RowFrame
  <1>6. RowInv(t)'
    BY <1>1, <1>2, <1>3, <1>4, RowRewritten DEF RowInv, Known
  <1>7. WfFrame(NULL) /\ NULL \notin Handlers
    BY <1>1, ActorTypes, ActorsAssumption DEF WfFrame
  <1> QED
    BY <1>1, <1>5, <1>6, <1>7, OthersSame, RowCore

\* A submission job enqueues the head that it read, which some submission made.
LEMMA QueueSubmissionCore ==
  ASSUME CoreInv, NEW s \in Submitters, QueueSubmission(s)
  PROVE  CoreInv'
  <1>1. /\ sj[s].pc = "read" /\ sj' = [sj EXCEPT ![s].pc = "queued"]
        /\ UNCHANGED <<counter, record, made, origin, newest, epic, wf, replay>>
    BY DEF QueueSubmission
  <1>2. SubmitterInv(s) /\ sj \in [Submitters -> Submissions] /\ sj[s] \in Submissions
    BY ActorTypes DEF CoreInv
  <1>3. PICK t \in Tasks : t = sj[s].task
    BY <1>1, <1>2 DEF SubmitterInv
  <1> DEFINE p == sj[s].sub
             r == Enqueued(row[t], p, TRUE, TRUE, FALSE)
  <1>4. Known(t, p)
    BY <1>1, <1>2, <1>3 DEF SubmitterInv
  <1>5. r = row[t] \/ r = [NewRow(p) EXCEPT !.attempts = 0]
    BY DEF Enqueued
  <1>6. Grows
    BY <1>1, QuietGrows
  <1>7. RowFrame(NULL, t) /\ RowInv(t)'
    <2>1. CASE r = row[t]
      <3>1. UNCHANGED <<row, exact>>
        BY <1>3, <2>1 DEF QueueSubmission
      <3> QED
        BY <1>6, <3>1, KeepFrame, RowKept, ActorTypes
    <2>2. CASE r # row[t]
      <3>1. Put(t, r, NULL) /\ r = [NewRow(p) EXCEPT !.attempts = 0]
        BY <1>3, <1>5, <2>2 DEF QueueSubmission
      <3>2. row'[t] = r
        BY <3>1, Types DEF Put
      <3>3. r \in Rows /\ RowInv(t)'
        BY <1>1, <1>4, <3>1, <3>2, NewRowInv
      <3> HIDE DEF r
      <3> QED
        BY <3>1, <3>3, PutFrame
    <2> QED
      BY <2>1, <2>2
  <1>8. WfFrame(NULL) /\ NULL \notin Handlers
    BY <1>1, ActorTypes, ActorsAssumption DEF WfFrame
  <1>9. SubmitterFrame
    <2>1. sj' \in [Submitters -> Submissions] /\ \A v \in Submitters \ {s} : sj'[v] = sj[v]
      BY <1>1, <1>2 DEF Submissions
    <2>2. sj'[s].task = t /\ sj'[s].sub = p
      BY <1>2, <1>1, <1>3 DEF Submissions
    <2>3. SubmitterInv(s)'
      BY <1>1, <1>4, <2>2 DEF SubmitterInv, Known
    <2> QED
      BY <2>1, <2>3 DEF SubmitterFrame
  <1>10. ReplayTypeOK'
    BY <1>1, ActorTypes DEF ReplayTypeOK, replay
  <1> QED
    BY <1>1, <1>7, <1>8, <1>9, <1>10, RowCore

\* A submission job copies the record it will enqueue.
LEMMA ReadSubmissionCore ==
  ASSUME CoreInv, NEW s \in Submitters, NEW t \in Tasks, ReadSubmission(s, t)
  PROVE  CoreInv'
  <1> DEFINE q == [pc |-> "read", task |-> t, sub |-> record[t].sub]
  <1>1. /\ sj' = [sj EXCEPT ![s] = q] /\ record[t].sub # NULL
        /\ UNCHANGED <<store, wf, exact, replay>>
    BY DEF ReadSubmission
  <1>2. q \in Submissions /\ Known(t, record[t].sub)
    BY <1>1, Types, Parts DEF Submissions, Nullable, RecordInv
  <1>3. UNCHANGED <<row, record, made, origin, newest, epic, counter>>
    BY <1>1 DEF store
  <1>4. SubmitterFrame
    <2>1. sj' \in [Submitters -> Submissions] /\ sj'[s] = q
          /\ \A v \in Submitters \ {s} : sj'[v] = sj[v]
      BY <1>1, <1>2, ActorTypes
    <2>2. SubmitterInv(s)'
      BY <1>2, <1>3, <2>1 DEF SubmitterInv, Known
    <2> QED
      BY <2>1, <2>2 DEF SubmitterFrame
  <1>5. WfFrame(NULL) /\ NULL \notin Handlers /\ RowFrame(NULL, t)
    BY <1>1, <1>3, ActorTypes, ActorsAssumption, KeepFrame DEF WfFrame
  <1>6. RowInv(t)' /\ ReplayTypeOK'
    BY <1>1, StoreSame, ActorTypes DEF ReplayTypeOK, replay
  <1> QED
    BY <1>3, <1>4, <1>5, <1>6, RowCore


-----------------------------------------------------------------------------
(***************************************************************************)
(* Steps that write a record.                                              *)
(***************************************************************************)

\* A record that keeps its head.
LEMMA RecordSameHead ==
  ASSUME CoreInv, NEW t \in Tasks, UNCHANGED <<made, origin, newest, epic>>,
         record'[t].sub = record[t].sub,
         record'[t].state # "none" => record[t].sub # NULL,
         record'[t].state = "integrated" => record[t].state = "integrated"
  PROVE  RecordInv(t)'
  BY Types DEF RecordInv, Known

\* A record that takes the pair of the row, whose head or predecessor it named:
\* the predecessor is of the newest submission, and so the head is.
LEMMA RecordFollows ==
  ASSUME CoreInv, NEW t \in Tasks, UNCHANGED <<made, origin, newest, epic>>,
         row[t].sub # NULL, record'[t].sub = row[t].sub,
         record[t].sub # NULL, record[t].sub.head \in {row[t].sub.head, row[t].pred},
         record'[t].state = "integrated" => row[t].sub.head \in epic[t]
  PROVE  RecordInv(t)'
  <1> DEFINE h == row[t].sub.head
             g == record[t].sub.head
  <1>1. /\ RowInv(t) /\ RecordInv(t) /\ Known(t, row[t].sub) /\ Known(t, record[t].sub)
        /\ origin[t][g] = newest[t]
    BY Types DEF RowInv, RecordInv
  <1>2. g \in Commits /\ h \in Commits /\ origin[t][h] \in Nat /\ newest[t] \in Nat
    BY <1>1, Types, Parts, Bounds DEF Known
  <1>3. origin[t][h] = newest[t]
    <2>1. CASE g = h
      BY <1>1, <2>1
    <2>2. CASE g = row[t].pred
      <3>1. row[t].pred # NULL
        BY <1>2, <2>2, NotNull
      <3>2. newest[t] <= origin[t][h] /\ origin[t][h] <= newest[t]
        BY <1>1, <2>2, <3>1 DEF RowInv, Known
      <3> QED
        BY <1>2, <3>2
    <2> QED
      BY <2>1, <2>2
  <1> QED
    BY <1>1, <1>3 DEF RecordInv, Known

\* Only the record of the task may change; a ready row still has the record that
\* named its head.
LEMMA RecordCore ==
  ASSUME CoreInv, NEW t \in Tasks, NEW w, NEW n,
         UNCHANGED <<row, counter, made, origin, newest, epic>>,
         RowFrame(w, t), n \in Records, record' = [record EXCEPT ![t] = n], RecordInv(t)',
         \/ n.sub = record[t].sub
         \/ row[t].state # "ready"
         \/ Pending(row[t])
         \/ n.sub # NULL => record[t].sub # NULL /\ n.sub.head = record[t].sub.head,
         WfFrame(w), w \in Handlers => HandlerInv(w)',
         SubmitterFrame, ReplayTypeOK'
  PROVE  CoreInv'
  <1>1. Grows
    BY QuietGrows
  <1>2. RecordFrame(t)
    BY RecordWrite
  <1> QED
    BY <1>1, <1>2, RowKept, CoreStep DEF Frame

\* A step of nobody who handles the task.
LEMMA NobodyFrame ==
  ASSUME CoreInv, NEW t \in Tasks, UNCHANGED <<row, wf, exact>>
  PROVE  RowFrame(NULL, t) /\ WfFrame(NULL) /\ NULL \notin Handlers
  BY ActorTypes, ActorsAssumption, KeepFrame DEF WfFrame

\* A tracker move by somebody else leaves heads and rows alone.
LEMMA MoveTaskCore ==
  ASSUME CoreInv, NEW t \in Tasks, NEW status \in {"open", "terminal"}, MoveTask(t, status)
  PROVE  CoreInv'
  <1> DEFINE n == [record[t] EXCEPT !.status = status]
  <1>1. /\ record' = [record EXCEPT ![t] = n]
        /\ UNCHANGED <<row, counter, made, origin, newest, epic, wf, exact, sj, replay>>
    BY DEF MoveTask
  <1>2. n \in Records /\ n.sub = record[t].sub /\ n.state = record[t].state
    BY Types DEF Records
  <1> HIDE DEF n
  <1>3. RecordInv(t)'
    BY <1>1, <1>2, RecordSameHead, Types DEF RecordInv
  <1> QED
    BY <1>1, <1>2, <1>3, NobodyFrame, OthersSame, RecordCore

\* Submitting the same head again keeps the newest submission.
LEMMA SubmitAgainCore ==
  ASSUME CoreInv, NEW t \in Tasks, SubmitAgain(t)
  PROVE  CoreInv'
  <1> DEFINE n == [record[t] EXCEPT !.sub = record[t].sub, !.state = "ready"]
  <1>1. /\ record' = [record EXCEPT ![t] = n] /\ record[t].sub # NULL
        /\ UNCHANGED <<row, counter, made, origin, newest, epic, wf, exact, sj, replay>>
    BY Types DEF SubmitAgain, Accept
  <1>2. n \in Records /\ n.sub = record[t].sub /\ n.state = "ready"
    BY Types DEF Records
  <1> HIDE DEF n
  <1>3. RecordInv(t)'
    BY <1>1, <1>2, RecordSameHead, Types
  <1> QED
    BY <1>1, <1>2, <1>3, NobodyFrame, OthersSame, RecordCore

\* The end of a submission job keeps the store.
LEMMA FinishSubmissionCore ==
  ASSUME CoreInv, NEW s \in Submitters, FinishSubmission(s)
  PROVE  CoreInv'
  <1>1. PICK t \in Tasks : t = sj[s].task
    BY DEF FinishSubmission, CoreInv, SubmitterInv
  <1> DEFINE n == [record[t] EXCEPT !.status = IF record[t].sub = sj[s].sub THEN "ready" ELSE @]
  <1>2. /\ record' = [record EXCEPT ![t] = n] /\ sj' = [sj EXCEPT ![s] = IdleSubmitter]
        /\ UNCHANGED <<row, counter, made, origin, newest, epic, wf, exact, replay>>
    BY <1>1, Types DEF FinishSubmission
  <1>3. n \in Records /\ n.sub = record[t].sub /\ n.state = record[t].state
    BY Types DEF Records
  <1> HIDE DEF n
  <1>4. RecordInv(t)'
    BY <1>2, <1>3, RecordSameHead, Types DEF RecordInv
  <1>5. SubmitterFrame
    <2>1. IdleSubmitter \in Submissions /\ IdleSubmitter.pc = "idle"
      BY DEF IdleSubmitter, Submissions, Nullable
    <2>2. sj' \in [Submitters -> Submissions] /\ sj'[s].pc = "idle"
          /\ \A v \in Submitters \ {s} : sj'[v] = sj[v]
      BY <1>2, <2>1, ActorTypes
    <2> QED
      BY <2>2 DEF SubmitterFrame, SubmitterInv
  <1>6. ReplayTypeOK'
    BY <1>2, ActorTypes DEF ReplayTypeOK, replay
  <1> QED
    BY <1>2, <1>3, <1>4, <1>5, <1>6, NobodyFrame, RecordCore

\* A repaired record names the row that is in the queue.
LEMMA RepairRecordCore ==
  ASSUME CoreInv, NEW w \in Handlers, RepairRecord(w)
  PROVE  CoreInv'
  <1>0. PICK t \in Tasks : t = wf[w].task
    BY TaskOf DEF RepairRecord, At
  <1> DEFINE r == row[t]
             n == IF record[t].state = r.state THEN record[t]
                  ELSE [record[t] EXCEPT !.state = r.state, !.sub = r.sub]
  <1>1. /\ record' = [record EXCEPT ![t] = n] /\ RecordMatches(t)
        /\ r.state \in {"ready", "blocked", "integrated"}
        /\ EndHandling(w) /\ Forget(w)
        /\ UNCHANGED <<row, counter, made, origin, newest, epic, sj, replay>>
    BY <1>0, Types DEF RepairRecord
  <1>2. r.sub # NULL /\ r.sub \in Pairs /\ r.state = "integrated" => r.sub.head \in epic[t]
    BY <1>1, Types DEF RowInv, Known
  <1>2a. r.sub # NULL /\ r.sub \in Pairs
    BY <1>1, Types DEF RowInv, Known
  <1>3. record[t].sub # NULL /\ record[t].sub.head = r.sub.head
    BY <1>1 DEF RecordMatches, RecordNames
  <1>4. /\ n \in Records /\ n.sub \in {r.sub, record[t].sub}
        /\ n = record[t] \/ (n.sub = r.sub /\ n.state = r.state)
    BY <1>1, <1>2a, Types DEF Records, Nullable
  <1> HIDE DEF n
  <1>5. RecordInv(t)'
    <2>0. record'[t] = n
      BY <1>1, Types
    <2>1. CASE n = record[t]
      BY <1>1, <1>3, <2>0, <2>1, RecordSameHead
    <2>2. CASE n.sub = r.sub /\ n.state = r.state
      BY <1>1, <1>2, <1>2a, <1>3, <2>0, <2>2, RecordFollows
    <2> QED
      BY <1>4, <2>1, <2>2
  <1>6. WfFrame(w) /\ HandlerInv(w)'
    BY <1>1, EndStep
  <1>7. RowFrame(w, t)
    BY <1>1, ForgetFrame
  <1> QED
    BY <1>1, <1>3, <1>4, <1>5, <1>6, <1>7, OthersSame, RecordCore

\* A publication resumed after a crash writes the record of its own submission
\* only.
LEMMA ResumePublicationCore ==
  ASSUME CoreInv, NEW w \in Handlers, ResumePublication(w)
  PROVE  CoreInv'
  <1>0. PICK t \in Tasks : t = wf[w].task
    BY TaskOf DEF ResumePublication, At
  <1> DEFINE r == row[t]
             n == [record[t] EXCEPT !.sub = r.sub]
  <1>1. /\ record' = [record EXCEPT ![t] = n] /\ r.publishing /\ record[t].state = "ready"
        /\ record[t].sub # NULL /\ record[t].sub.head \in {r.sub.head, r.pred}
        /\ wf[w].pc = "running" /\ exact[w] /\ Proceed(w, "publishing")
        /\ UNCHANGED <<row, counter, made, origin, newest, epic, exact, sj, replay>>
    BY <1>0, Types DEF ResumePublication, At
  <1>2. r.state = "ready"
    BY <1>0, <1>1 DEF CoreInv, HandlerInv, Working
  <1>3. r.sub # NULL /\ r.sub \in Pairs
    BY <1>2, Types DEF RowInv, Known
  <1>4. n \in Records /\ n.sub = r.sub /\ n.state = "ready" /\ record'[t] = n
    BY <1>1, <1>3, Types DEF Records, Nullable
  <1> HIDE DEF n
  <1>5. RecordInv(t)'
    BY <1>1, <1>3, <1>4, RecordFollows
  <1>6. WfFrame(w) /\ wf'[w].pc = "publishing" /\ wf'[w].task = t
    BY <1>0, <1>1, ProceedStep
  <1>7. HandlerInv(w)'
    BY <1>1, <1>2, <1>6 DEF HandlerInv
  <1>8. RowFrame(w, t)
    BY <1>1, KeepFrame, ActorTypes
  <1>9. Pending(row[t])
    BY <1>1 DEF Pending
  <1> QED
    BY <1>1, <1>4, <1>5, <1>6, <1>7, <1>8, <1>9, OthersSame, RecordCore

\* What staging makes of a record: nothing, or a record that follows its row.
LEMMA StagedValue ==
  ASSUME CoreInv, NEW t \in Tasks, NEW accepted \in BOOLEAN
  PROVE  LET n == Staged(record[t], row[t], accepted)
         IN /\ n \in Records
            /\ \/ n = record[t]
               \/ /\ row[t].state = "integrated" /\ record[t].state = "integrated"
                  /\ n.sub = record[t].sub /\ n.state = "integrated"
               \/ /\ row[t].state = "integrated" /\ QueueFirstGap(record[t], row[t])
                  /\ n.sub = row[t].sub /\ n.state = "integrated"
  <1> DEFINE m == Repaired(record[t], row[t])
             n == Staged(record[t], row[t], accepted)
  <1>1. record[t] \in Records /\ row[t] \in Rows
    BY Types
  <1>2. /\ m \in Records
        /\ m = record[t] \/ (QueueFirstGap(record[t], row[t]) /\ m.sub = row[t].sub
                             /\ m.state = "integrated")
    BY <1>1, Parts DEF Repaired, Records
  <1>3. [m EXCEPT !.status = "validating"] \in Records
        /\ [m EXCEPT !.status = "validating"].sub = m.sub
        /\ [m EXCEPT !.status = "validating"].state = m.state
    BY <1>2 DEF Records
  <1>4. CASE n = record[t]
    BY <1>1, <1>4
  <1>5. CASE n = m /\ row[t].state = "integrated"
    BY <1>2, <1>5
  <1>6. CASE /\ n = [m EXCEPT !.status = "validating"]
             /\ row[t].state = "integrated" /\ Stageable(record[t], row[t])
    <2>1. m.state = "integrated"
      BY <1>6 DEF Stageable
    <2> QED
      BY <1>2, <1>3, <1>6, <2>1
  <1> QED
    BY <1>4, <1>5, <1>6 DEF Staged


\* Staging keeps the invariant, whoever stages.
LEMMA StageCore ==
  ASSUME CoreInv, NEW t \in Tasks, NEW w, NEW accepted \in BOOLEAN,
         UNCHANGED <<row, counter, made, origin, newest, epic>>, RowFrame(w, t),
         record' = [record EXCEPT ![t] = Staged(record[t], row[t], accepted)],
         WfFrame(w), w \in Handlers => HandlerInv(w)', SubmitterFrame, ReplayTypeOK'
  PROVE  CoreInv'
  <1> DEFINE n == Staged(record[t], row[t], accepted)
  <1>1. /\ n \in Records
        /\ \/ n = record[t]
           \/ /\ row[t].state = "integrated" /\ record[t].state = "integrated"
              /\ n.sub = record[t].sub /\ n.state = "integrated"
           \/ /\ row[t].state = "integrated" /\ QueueFirstGap(record[t], row[t])
              /\ n.sub = row[t].sub /\ n.state = "integrated"
    BY StagedValue
  <1>2. record' = [record EXCEPT ![t] = n]
    OBVIOUS
  <1> HIDE DEF n
  <1>3. record'[t] = n /\ RowInv(t) /\ RecordInv(t)
    BY <1>2, Types
  <1>4. RecordInv(t)'
    <2>1. CASE n = record[t]
      BY <1>3, <2>1, RecordSameHead DEF RecordInv
    <2>2. CASE n.sub = record[t].sub /\ record[t].state = "integrated"
      BY <1>3, <2>2, RecordSameHead DEF RecordInv
    <2>3. CASE /\ row[t].state = "integrated" /\ QueueFirstGap(record[t], row[t])
               /\ n.sub = row[t].sub
      <3>1. record[t].sub # NULL /\ record[t].sub.head \in {row[t].sub.head, row[t].pred}
        BY <2>3 DEF QueueFirstGap
      <3>2. row[t].sub # NULL /\ row[t].sub.head \in epic[t]
        BY <1>3, <2>3 DEF RowInv
      <3> QED
        BY <1>3, <2>3, <3>1, <3>2, RecordFollows
    <2> QED
      BY <1>1, <2>1, <2>2, <2>3
  <1> QED
    BY <1>1, <1>2, <1>4, RecordCore

\* Staging the audit of a landing writes the record of that landing.
LEMMA StageTerminalCore ==
  ASSUME CoreInv, NEW w \in Handlers, NEW accepted \in BOOLEAN, StageTerminal(w, accepted)
  PROVE  CoreInv'
  <1>0. PICK t \in Tasks : t = wf[w].task
    BY TaskOf DEF StageTerminal, At
  <1>1. /\ record' = [record EXCEPT ![t] = Staged(record[t], row[t], accepted)]
        /\ EndHandling(w) /\ Forget(w)
        /\ UNCHANGED <<row, counter, made, origin, newest, epic, sj, replay>>
    BY <1>0, Types DEF StageTerminal
  <1> QED
    BY <1>1, EndStep, ForgetFrame, OthersSame, StageCore

-----------------------------------------------------------------------------
(***************************************************************************)
(* Steps that write a row and its record, or the epic branch.              *)
(***************************************************************************)

\* The row ends with the head that its record names, and the action ends.
LEMMA FinishCore ==
  ASSUME CoreInv, NEW t \in Tasks, NEW w \in Handlers, NEW r, NEW n,
         r \in Rows, r.sub = row[t].sub, r.pred = row[t].pred, row[t].state = "ready",
         r.state # "ready", r.seq <= counter',
         r.state = "integrated" => row[t].sub.head \in epic[t],
         RecordMatches(t), n \in Records, n.sub \in {row[t].sub, record[t].sub},
         n.state = "integrated" => row[t].sub.head \in epic[t],
         Put(t, r, NULL), record' = [record EXCEPT ![t] = n], EndHandling(w),
         UNCHANGED <<made, origin, newest, epic, sj, replay>>,
         counter' = counter \/ (counter < MaxSeq /\ counter' = counter + 1)
  PROVE  CoreInv'
  <1>1. /\ RowInv(t) /\ Known(t, row[t].sub) /\ row[t].sub # NULL
        /\ RecordInv(t) /\ record[t].sub # NULL /\ record[t].sub.head = row[t].sub.head
    BY Types DEF RecordMatches, RecordNames, RowInv
  <1>2. RowFrame(w, t) /\ row'[t] = r /\ row'[t] # row[t]
    BY PutFrame
  <1>3. Grows
    BY QuietGrows
  <1>4. RecordFrame(t) /\ record'[t] = n
    BY <1>2, RecordWrite
  <1>5. RowInv(t)'
    <2>1. Known(t, row[t].sub)'
      BY <1>1, <1>2 DEF Known
    <2> QED
      BY <1>1, <1>2, <2>1 DEF RowInv
  <1>6. RecordInv(t)'
    <2>1. CASE n.sub = row[t].sub
      BY <1>1, <1>4, <2>1, RecordFollows
    <2>2. CASE n.sub = record[t].sub
      BY <1>1, <1>4, <2>2 DEF RecordInv, Known
    <2> QED
      BY <2>1, <2>2
  <1>7. WfFrame(w) /\ HandlerInv(w)'
    BY EndStep
  <1> QED
    BY <1>2, <1>3, <1>4, <1>5, <1>6, <1>7, OthersSame, CoreStep DEF Frame

\* The attempt counter stays within its bound.
LEMMA CountedType == \A n \in 0..MaxAttempts : Counted(n) \in 0..MaxAttempts
  BY Bounds DEF Counted

\* A row is finished as integrated by the job whose push landed its head.
LEMMA FinishLandedCore ==
  ASSUME CoreInv, NEW w \in Handlers, NEW written \in BOOLEAN, FinishLanded(w, written)
  PROVE  CoreInv'
  <1>0. PICK t \in Tasks : t = wf[w].task
    BY TaskOf DEF FinishLanded, At
  <1> DEFINE r == [row[t] EXCEPT !.state = "integrated", !.attempts = Counted(@),
                                 !.seq = counter + 1]
             n == IF written THEN [record[t] EXCEPT !.state = "integrated", !.sub = row[t].sub]
                  ELSE record[t]
  <1>1. /\ wf[w].pc = "landed" /\ exact[w] /\ row[t].state = "ready" /\ RecordMatches(t)
        /\ record[t].state = "ready"
        /\ counter < MaxSeq /\ counter' = counter + 1
        /\ Put(t, r, NULL) /\ record' = [record EXCEPT ![t] = n] /\ EndHandling(w)
        /\ UNCHANGED <<made, origin, newest, epic, sj, replay>>
    BY <1>0, Types DEF FinishLanded, At, Authorized, NextSequence
  <1>2. row[t].sub.head \in epic[t]
    BY <1>0, <1>1 DEF CoreInv, HandlerInv, Names, RecordMatches, RecordNames
  <1>3. row[t] \in Rows /\ record[t] \in Records /\ row[t].sub \in Pairs /\ counter \in 0..MaxSeq
    BY <1>1, Types DEF RowInv, Known
  <1>4. /\ r \in Rows /\ r.sub = row[t].sub /\ r.pred = row[t].pred /\ r.state = "integrated"
        /\ r.seq = counter + 1
    <2>1. Counted(row[t].attempts) \in 0..MaxAttempts /\ counter + 1 \in 0..MaxSeq
      BY <1>1, <1>3, CountedType, Parts, Bounds
    <2> QED
      BY <1>3, <2>1 DEF Rows
  <1>5. n \in Records /\ n.sub \in {row[t].sub, record[t].sub}
    BY <1>3 DEF Records, Nullable
  <1>6. r.seq <= counter'
    BY <1>1, <1>3, <1>4, Bounds
  <1> HIDE DEF r, n
  <1> QED
    BY <1>1, <1>2, <1>4, <1>5, <1>6, FinishCore

\* A failed generation is blocked, never called integrated.
LEMMA FinishBlockedCore ==
  ASSUME CoreInv, NEW w \in Handlers, NEW written \in BOOLEAN, FinishBlocked(w, written)
  PROVE  CoreInv'
  <1>0. PICK t \in Tasks : t = wf[w].task
    BY TaskOf DEF FinishBlocked, At
  <1> DEFINE r == [row[t] EXCEPT !.state = "blocked", !.attempts = Counted(@), !.seq = 0]
             n == IF written THEN [record[t] EXCEPT !.state = "blocked", !.sub = row[t].sub]
                  ELSE record[t]
  <1>1. /\ row[t].state = "ready" /\ RecordMatches(t) /\ record[t].state = "ready"
        /\ Put(t, r, NULL) /\ record' = [record EXCEPT ![t] = n] /\ EndHandling(w)
        /\ UNCHANGED <<counter, made, origin, newest, epic, sj, replay>>
    BY <1>0, Types DEF FinishBlocked, Authorized
  <1>2. row[t] \in Rows /\ record[t] \in Records /\ row[t].sub \in Pairs /\ counter \in 0..MaxSeq
    BY <1>1, Types DEF RowInv, Known
  <1>3. /\ r \in Rows /\ r.sub = row[t].sub /\ r.pred = row[t].pred /\ r.state = "blocked"
        /\ r.seq = 0
    <2>1. Counted(row[t].attempts) \in 0..MaxAttempts /\ 0 \in 0..MaxSeq
      BY <1>2, CountedType, Parts, Bounds
    <2> QED
      BY <1>2, <2>1 DEF Rows
  <1>4. n \in Records /\ n.sub \in {row[t].sub, record[t].sub} /\ n.state \in {"ready", "blocked"}
    BY <1>1, <1>2 DEF Records, Nullable
  <1>5. r.seq <= counter'
    BY <1>1, <1>2, <1>3, Bounds
  <1> HIDE DEF r, n
  <1> QED
    BY <1>1, <1>3, <1>4, <1>5, FinishCore

\* Retiring a generation cancels the row of an inactive task.
LEMMA RetireGenerationCore ==
  ASSUME CoreInv, NEW w \in Handlers, RetireGeneration(w)
  PROVE  CoreInv'
  <1>0. PICK t \in Tasks : t = wf[w].task
    BY TaskOf DEF RetireGeneration, At
  <1> DEFINE r == Cancelled(row[t])
             n == [record[t] EXCEPT !.status = "open"]
  <1>1. /\ row[t].state = "ready" /\ RecordMatches(t)
        /\ Put(t, r, NULL) /\ record' = [record EXCEPT ![t] = n] /\ EndHandling(w)
        /\ UNCHANGED <<counter, made, origin, newest, epic, sj, replay>>
    BY <1>0, Types DEF RetireGeneration
  <1>2. row[t] \in Rows /\ record[t] \in Records /\ RowInv(t) /\ RecordInv(t)
    BY <1>1, Types
  <1>3. /\ r \in Rows /\ r.sub = row[t].sub /\ r.pred = row[t].pred /\ r.state = "cancelled"
        /\ r.seq <= counter'
    BY <1>1, <1>2, RowValues DEF RowInv
  <1>4. n \in Records /\ n.sub = record[t].sub /\ n.state = record[t].state
    BY <1>2 DEF Records
  <1>5. n.state = "integrated" => row[t].sub.head \in epic[t]
    BY <1>1, <1>2, <1>4 DEF RecordInv, RecordMatches, RecordNames
  <1> HIDE DEF r, n
  <1> QED
    BY <1>1, <1>3, <1>4, <1>5, FinishCore

\* The push: the epic branch now contains the head, which is the row's if nobody
\* wrote the row since.
LEMMA LandHeadCore ==
  ASSUME CoreInv, NEW w \in Handlers, LandHead(w)
  PROVE  CoreInv'
  <1>0. PICK t \in Tasks : t = wf[w].task
    BY TaskOf DEF LandHead, At
  <1> DEFINE c == wf[w].head
  <1>1. /\ wf[w].pc = "pushing" /\ epic' = [epic EXCEPT ![t] = @ \cup {c}]
        /\ Proceed(w, "landed")
        /\ UNCHANGED <<row, counter, record, made, origin, newest, exact, sj, replay>>
    BY <1>0 DEF LandHead, At
  <1>2. /\ HandlerInv(w) /\ wf[w] \in Handling /\ c # NULL
    BY <1>1, ActorTypes DEF CoreInv, HandlerInv
  <1>3. c \in Commits
    BY <1>2 DEF Handling, Nullable
  <1>4. epic' \in [Tasks -> SUBSET Commits] /\ \A u \in Tasks : epic[u] \subseteq epic'[u]
    BY <1>1, <1>3, Types
  <1>4a. c \in epic'[t]
    BY <1>1, Types
  <1>5. Grows
    <2>1. \A u \in Tasks : made[u] <= made[u] /\ newest[u] <= newest[u] /\ newest[u] <= made[u]
      BY Types, Bounds
    <2>2. counter \in 0..MaxSeq /\ counter <= counter
      BY Types, Bounds
    <2> QED
      BY <1>1, <1>4, <2>1, <2>2, Types DEF Grows
  <1>6. RowFrame(w, t) /\ RowInv(t)'
    BY <1>1, <1>5, KeepFrame, RowKept, ActorTypes
  <1>7. RecordFrame(t) /\ RecordInv(t)'
    BY <1>1, <1>5, RecordSame
  <1>8. WfFrame(w) /\ wf'[w].pc = "landed" /\ wf'[w].task = t
    BY <1>0, <1>1, ProceedStep
  <1>9. HandlerInv(w)'
    <2>1. exact[w] => row[t].state = "ready" /\ ~Pending(row[t]) /\ c = row[t].sub.head
      BY <1>0, <1>1, <1>2 DEF HandlerInv, Working
    <2> QED
      BY <1>1, <1>4a, <1>8, <2>1 DEF HandlerInv, Pending
  <1> QED
    BY <1>1, <1>5, <1>6, <1>7, <1>8, <1>9, OthersSame, CoreStep DEF Frame


\* A commit is made, and is the newest submission or a rebase.
LEMMA MakeGrows ==
  ASSUME CoreInv, NEW t \in Tasks, NEW c \in 0..MaxCommit, Make(t, c),
         newest' = newest \/ newest' = [newest EXCEPT ![t] = made[t] + 1],
         UNCHANGED <<epic, counter>>
  PROVE  /\ Grows /\ made'[t] = made[t] + 1 /\ made'[t] \in Commits
         /\ origin'[t][made[t] + 1] = c
         /\ newest'[t] \in {newest[t], made[t] + 1}
         /\ \A u \in Tasks : u # t => newest'[u] = newest[u]
  <1> DEFINE k == made[t] + 1
  <1>1. /\ made[t] \in Nat /\ k \in Commits /\ k \in 0..MaxCommit
        /\ made' = [made EXCEPT ![t] = k] /\ origin' = [origin EXCEPT ![t][k] = c]
    BY Types, Bounds DEF Make, Commits
  <1>2. /\ made' \in [Tasks -> 0..MaxCommit] /\ made'[t] = k
        /\ \A u \in Tasks : u # t => made'[u] = made[u]
    BY <1>1, Types
  <1>3. /\ origin' \in [Tasks -> [Commits -> 0..MaxCommit]] /\ origin'[t][k] = c
        /\ \A u \in Tasks : \A d \in Commits : (u # t \/ d # k) => origin'[u][d] = origin[u][d]
    BY <1>1, Types
  <1>4. /\ newest' \in [Tasks -> 0..MaxCommit] /\ newest'[t] \in {newest[t], k}
        /\ \A u \in Tasks : u # t => newest'[u] = newest[u]
    BY <1>1, Types
  <1>5. ASSUME NEW u \in Tasks
        PROVE  /\ made[u] <= made'[u] /\ newest[u] <= newest'[u] /\ newest'[u] <= made'[u]
               /\ \A d \in Commits : d <= made[u] => origin'[u][d] = origin[u][d]
    <2>1. made[u] \in Nat /\ newest[u] \in Nat /\ newest[u] <= made[u]
      BY Types, Bounds
    <2>2. \A d \in Commits : d <= made[t] => d # k
      BY <1>1, Bounds DEF Commits
    <2>3. CASE u = t
      BY <1>1, <1>2, <1>3, <1>4, <2>1, <2>2, <2>3
    <2>4. CASE u # t
      BY <1>2, <1>3, <1>4, <2>1, <2>4
    <2> QED
      BY <2>3, <2>4
  <1>6. counter \in 0..MaxSeq /\ counter <= counter /\ epic \in [Tasks -> SUBSET Commits]
    BY Types, Bounds
  <1> QED
    BY <1>1, <1>2, <1>3, <1>4, <1>5, <1>6 DEF Grows

\* A new submission makes a head that nothing else names yet.
LEMMA SubmitNewCore ==
  ASSUME CoreInv, NEW t \in Tasks, SubmitNew(t)
  PROVE  CoreInv'
  <1> DEFINE c == made[t] + 1
             p == [head |-> c, moved |-> FALSE]
             n == [record[t] EXCEPT !.sub = p, !.state = "ready"]
  <1>1. /\ Make(t, c) /\ newest' = [newest EXCEPT ![t] = c]
        /\ record' = [record EXCEPT ![t] = n]
        /\ UNCHANGED <<row, counter, epic, wf, exact, sj, replay>>
    BY Types DEF SubmitNew, Accept
  <1>2. c \in Commits /\ c \in 0..MaxCommit /\ made[t] \in Nat
    BY <1>1, Types, Bounds DEF Make, Commits
  <1>3. /\ Grows /\ made'[t] = c /\ origin'[t][c] = c /\ newest'[t] = c
        /\ \A u \in Tasks : u # t => newest'[u] = newest[u]
    <2>1. newest'[t] = c
      BY <1>1, Types
    <2> QED
      BY <1>1, <1>2, <2>1, MakeGrows
  <1>4. p \in Pairs /\ p.head = c
    BY <1>2 DEF Pairs
  <1>5. n \in Records /\ n.sub = p /\ n.state = "ready"
    BY <1>4, Types DEF Records, Nullable
  <1> HIDE DEF n, p
  <1>6. record' \in [Tasks -> Records] /\ record'[t] = n
        /\ \A u \in Tasks : u # t => record'[u] = record[u]
    BY <1>1, <1>5, Types
  <1>7. row[t].state = "ready" => row[t].sub.head # c
    <2>1. row[t].state = "ready" => row[t].sub.head <= made[t] /\ row[t].sub.head \in Nat
      BY Types, Parts DEF RowInv, Known
    <2> QED
      BY <1>2, <2>1
  <1>8. RecordFrame(t)
    BY <1>1, <1>3, <1>4, <1>5, <1>6, <1>7 DEF RecordFrame, Names
  <1>9. RecordInv(t)'
    BY <1>2, <1>3, <1>4, <1>5, <1>6, NotNull DEF RecordInv, Known
  <1>10. RowInv(t)'
    BY <1>1, <1>3, RowKept
  <1> QED
    BY <1>1, <1>3, <1>8, <1>9, <1>10, NobodyFrame, OthersSame, CoreStep DEF Frame

\* A rebased head belongs to the submission it was made from.
LEMMA PreparePublicationCore ==
  ASSUME CoreInv, NEW w \in Handlers, NEW written \in BOOLEAN, PreparePublication(w, written)
  PROVE  CoreInv'
  <1>0. PICK t \in Tasks : t = wf[w].task
    BY TaskOf DEF PreparePublication, At
  <1> DEFINE r == row[t]
             k == made[t] + 1
             p == [head |-> k, moved |-> TRUE]
             c == origin[t][r.sub.head]
             q == [r EXCEPT !.sub = p, !.intent = FALSE, !.publishing = TRUE,
                            !.pred = IF r.pred # NULL THEN r.pred ELSE r.sub.head]
             n == IF written THEN [record[t] EXCEPT !.sub = p] ELSE record[t]
             who == IF written THEN w ELSE NULL
  <1>1. /\ wf[w].pc = "rebasing" /\ r.state = "ready" /\ RecordNames(t)
        /\ record[t].state = "ready"
        /\ Make(t, c) /\ Put(t, q, who)
        /\ IF written THEN Proceed(w, "publishing") ELSE EndHandling(w)
        /\ UNCHANGED <<counter, newest, epic, sj, replay>>
    BY <1>0 DEF PreparePublication, At
  <1>1a. record' = [record EXCEPT ![t] = n]
    <2>1. record' = [record EXCEPT ![t].sub = IF written THEN p ELSE @]
      BY <1>0 DEF PreparePublication
    <2>2. record[t] \in Records /\ record \in [Tasks -> Records]
      BY Types
    <2>3. CASE written
      BY <2>1, <2>2, <2>3
    <2>4. CASE ~written
      <3>1. [record[t] EXCEPT !.sub = record[t].sub] = record[t]
        BY <2>2 DEF Records
      <3> QED
        BY <2>1, <2>2, <2>4, <3>1
    <2> QED
      BY <2>3, <2>4
  <1>2. /\ r \in Rows /\ RowInv(t) /\ Known(t, r.sub) /\ r.sub.head \in Commits
        /\ record[t] \in Records /\ RecordInv(t)
        /\ record[t].sub # NULL /\ record[t].sub.head = r.sub.head
    BY <1>1, Types, Parts DEF RowInv, Known, RecordNames
  <1>3. c \in 0..MaxCommit /\ c = newest[t] /\ c \in Nat
    BY <1>2, Types, Bounds DEF RecordInv
  <1>4. /\ Grows /\ made'[t] = k /\ k \in Commits /\ origin'[t][k] = c
        /\ newest'[t] = newest[t]
        /\ \A u \in Tasks : u # t => newest'[u] = newest[u]
    BY <1>1, <1>3, MakeGrows
  <1>5. p \in Pairs /\ p.head = k
    BY <1>4 DEF Pairs
  <1>6. /\ q \in Rows /\ q.sub = p /\ q.state = "ready" /\ q.seq = r.seq
        /\ q.pred = IF r.pred # NULL THEN r.pred ELSE r.sub.head
    <2>1. r.pred \in Nullable(Commits)
      BY <1>2, Parts
    <2> QED
      BY <1>1, <1>2, <1>5, <2>1 DEF Rows, Nullable
  <1>7. n \in Records /\ n.sub = (IF written THEN p ELSE record[t].sub) /\ n.state = "ready"
    BY <1>1, <1>2, <1>5 DEF Records, Nullable
  <1> HIDE DEF q, n, p
  <1>8. RowFrame(w, t) /\ row'[t] = q
    BY <1>1, <1>6, PutFrame
  <1>9. record' \in [Tasks -> Records] /\ record'[t] = n
        /\ \A u \in Tasks : u # t => record'[u] = record[u]
    BY <1>1a, <1>7, Types
  <1>10. row'[t] # row[t]
    <2>1. r.sub.head <= made[t] /\ r.sub.head \in Nat /\ made[t] \in Nat
      BY <1>2, Types, Parts, Bounds DEF Known
    <2> QED
      BY <1>5, <1>6, <1>8, <2>1
  <1>11. RecordFrame(t)
    BY <1>4, <1>9, <1>10 DEF RecordFrame
  <1>12. RowInv(t)'
    <2>1. Known(t, row[t].sub)'
      BY <1>3, <1>4, <1>5, <1>6, <1>8, Types, Bounds DEF Known
    <2>2. /\ q.pred \in Commits /\ q.pred <= made[t] /\ origin[t][q.pred] <= c
      <3>1. CASE r.pred = NULL
        BY <1>2, <1>3, <1>6, <3>1 DEF Known
      <3>2. CASE r.pred # NULL
        BY <1>2, <1>6, <3>2, Parts DEF RowInv, Nullable
      <3> QED
        BY <3>1, <3>2
    <2>3. q.pred <= made'[t] /\ origin'[t][q.pred] = origin[t][q.pred]
      <3>1. q.pred \in Nat /\ made[t] \in Nat
        BY <2>2, Types, Bounds DEF Commits
      <3> QED
        BY <1>4, <2>2, <3>1 DEF Grows
    <2>4. row'[t].seq <= counter'
      BY <1>1, <1>2, <1>6, <1>8 DEF RowInv
    <2>5. origin'[t][row'[t].pred] <= origin'[t][row'[t].sub.head]
      BY <1>4, <1>5, <1>6, <1>8, <2>2, <2>3
    <2> QED
      BY <1>5, <1>6, <1>8, <2>1, <2>3, <2>4, <2>5, NotNull DEF RowInv
  <1>13. RecordInv(t)'
    <2>1. CASE written
      <3>1. record'[t].sub = p /\ p # NULL /\ record'[t].state = "ready"
        BY <1>5, <1>7, <1>9, <2>1, NotNull
      <3>2. Known(t, record[t].sub)' /\ origin'[t][p.head] = newest'[t]
        BY <1>3, <1>4, <1>5, <3>1, Types, Bounds DEF Known
      <3> QED
        BY <3>1, <3>2 DEF RecordInv
    <2>2. CASE ~written
      <3>1. record'[t].sub = record[t].sub /\ record'[t].state = "ready"
        BY <1>7, <1>9, <2>2
      <3>2. Known(t, record[t].sub)' /\ origin'[t][record[t].sub.head] = newest'[t]
        BY <1>2, <1>4, <3>1, KnownKept DEF RecordInv, Known
      <3> QED
        BY <1>2, <3>1, <3>2 DEF RecordInv
    <2> QED
      BY <2>1, <2>2
  <1>14. WfFrame(w) /\ HandlerInv(w)'
    <2>1. CASE written
      <3>1. WfFrame(w) /\ wf'[w].pc = "publishing" /\ wf'[w].task = t
        BY <1>0, <1>1, <2>1, ProceedStep
      <3> QED
        BY <1>6, <1>8, <3>1 DEF HandlerInv
    <2>2. CASE ~written
      BY <1>1, <2>2, EndStep
    <2> QED
      BY <2>1, <2>2
  <1> QED
    BY <1>1, <1>4, <1>8, <1>11, <1>12, <1>13, <1>14, OthersSame, CoreStep DEF Frame


-----------------------------------------------------------------------------
(***************************************************************************)
(* The restart, and the steps of the audit replay.                         *)
(***************************************************************************)

\* Releasing abandoned leases changes state and owner of a row and nothing
\* else.
LEMMA AbandonedValue ==
  ASSUME NEW r \in Rows
  PROVE  /\ Abandoned(r) \in Rows /\ Abandoned(r).sub = r.sub /\ Abandoned(r).pred = r.pred
         /\ Abandoned(r).seq = r.seq
         /\ Abandoned(r) = r \/ (r.state = "integrating" /\ Abandoned(r).state = "ready")
  BY RowValues DEF Abandoned

\* A restart ends the jobs in flight and keeps the store up to the released
\* leases.
LEMMA RestartCore ==
  ASSUME CoreInv, Restart
  PROVE  CoreInv'
  <1>1. /\ row' = [t \in Tasks |-> Abandoned(row[t])]
        /\ wf' = [w \in Handlers |-> IdleHandler] /\ exact' = [w \in Handlers |-> FALSE]
        /\ sj' = [s \in Submitters |-> IdleSubmitter] /\ batch' = {}
        /\ UNCHANGED <<counter, record, made, origin, newest, epic, cursor, audited>>
    BY DEF Restart
  <1>2. Grows
    BY <1>1, QuietGrows
  <1>3. IdleHandler \in Handling /\ IdleHandler.pc = "idle"
    BY DEF IdleHandler, Handling, Nullable
  <1>4. IdleSubmitter \in Submissions /\ IdleSubmitter.pc = "idle"
    BY DEF IdleSubmitter, Submissions, Nullable
  <1>5. row' \in [Tasks -> Rows]
    BY <1>1, Types, AbandonedValue
  <1>6. HandlersTypeOK'
    BY <1>1, <1>3, <1>4, <1>5 DEF CoreInv, HandlersTypeOK, StoreTypeOK
  <1>7. ASSUME NEW t \in Tasks
        PROVE  newest'[t] <= made'[t] /\ RowInv(t)' /\ RecordInv(t)'
    <2>1. row'[t] = Abandoned(row[t]) /\ row[t] \in Rows /\ RowInv(t)
      BY <1>1, Types
    <2>2. RowInv(t)'
      <3>1. CASE Abandoned(row[t]) = row[t]
        BY <1>2, <2>1, <3>1, RowKept
      <3>2. CASE row[t].state = "integrating" /\ Abandoned(row[t]).state = "ready"
        BY <1>1, <2>1, <3>2, AbandonedValue, RowRewritten DEF RowInv, Known
      <3> QED
        BY <2>1, <3>1, <3>2, AbandonedValue
    <2>3. newest'[t] <= made'[t] /\ RecordInv(t)'
      BY <1>1, <1>2, RecordKept DEF Grows
    <2> QED
      BY <2>2, <2>3
  <1>8. \A w \in Handlers : HandlerInv(w)'
    BY <1>1, <1>3 DEF HandlerInv, Working
  <1>9. \A s \in Submitters : SubmitterInv(s)'
    BY <1>1, <1>4 DEF SubmitterInv
  <1> QED
    BY <1>6, <1>7, <1>8, <1>9 DEF CoreInv

\* The replay reads rows of the store as they are.
LEMMA ReadLandingsCore ==
  ASSUME CoreInv, ReadLandings
  PROVE  CoreInv'
  <1>1. /\ batch' = {[task |-> t, row |-> row[t]] : t \in Landings}
        /\ UNCHANGED <<row, counter, record, made, origin, newest, epic, wf, exact, sj, cursor,
                       audited>>
    BY DEF ReadLandings, store
  <1>2. batch' \subseteq [task : Tasks, row : Rows]
    BY <1>1, Types DEF Landings
  <1>3. HandlersTypeOK'
    BY <1>1, <1>2 DEF CoreInv, HandlersTypeOK, StoreTypeOK
  <1>4. \A t \in Tasks : newest'[t] <= made'[t] /\ RowInv(t)' /\ RecordInv(t)'
    BY <1>1, Types DEF RowInv, RecordInv, Known
  <1>5. \A s \in Submitters : SubmitterInv(s)'
    BY <1>1 DEF CoreInv, SubmitterInv, Known
  <1>6. \A w \in Handlers : HandlerInv(w)'
    BY <1>1 DEF CoreInv, HandlerInv, Names, Pending
  <1> QED
    BY <1>3, <1>4, <1>5, <1>6 DEF CoreInv

\* The replay stages the audit of a row only while the store holds it
\* unchanged.
LEMMA StageRowCore ==
  ASSUME CoreInv, NEW b \in batch, NEW accepted \in BOOLEAN, StageRow(b, accepted)
  PROVE  CoreInv'
  <1> DEFINE t == b.task
  <1>1. t \in Tasks /\ b.row \in Rows
    BY ActorTypes DEF ReplayTypeOK
  <1>2. UNCHANGED <<row, counter, made, origin, newest, epic, wf, exact, sj>>
    BY DEF StageRow
  <1>3. ReplayTypeOK'
    <2>1. ReplayTypeOK /\ row[t].seq \in 0..MaxSeq /\ row[t].sub \in Nullable(Pairs)
      BY <1>1, ActorTypes, Types, Parts
    <2>2. \/ /\ audited' = audited \cup {[task |-> t, seq |-> row[t].seq, sub |-> row[t].sub]}
             /\ cursor' = row[t].seq /\ batch' = batch \ {b}
          \/ batch' = {} /\ UNCHANGED <<cursor, audited>>
      BY DEF StageRow
    <2> QED
      BY <1>1, <2>1, <2>2 DEF ReplayTypeOK
  <1>4. SubmitterFrame
    BY <1>2, ActorTypes DEF SubmitterFrame
  <1>5. CASE row[t] = b.row
    <2>1. record' = [record EXCEPT ![t] = Staged(record[t], row[t], accepted)]
      BY <1>1, <1>5, Types DEF StageRow
    <2> QED
      BY <1>1, <1>2, <1>3, <1>4, <2>1, NobodyFrame, StageCore
  <1>6. CASE row[t] # b.row
    <2>1. UNCHANGED record
      BY <1>1, <1>6, Types DEF StageRow
    <2>2. Grows
      BY <1>2, QuietGrows
    <2> QED
      BY <1>1, <1>2, <1>3, <1>4, <2>1, <2>2, NobodyFrame, RecordSame, RowKept, CoreStep DEF Frame
  <1> QED
    BY <1>5, <1>6

\* No row becomes integrated, and the replay does not move.
LEMMA ReplayKept ==
  ASSUME Inv, UNCHANGED <<counter, replay>>,
         \A u \in Tasks : row'[u].state = "integrated" => row'[u] = row[u]
  PROVE  ReplayInv'
  BY DEF Inv, ReplayInv, CursorMissesNothing, replay

\* A row becomes integrated under the next sequence, which is beyond the cursor
\* and beyond every row of the batch.
LEMMA ReplayLanding ==
  ASSUME Inv, NEW t \in Tasks, UNCHANGED replay, counter' = counter + 1,
         \A u \in Tasks : u # t => row'[u] = row[u],
         row'[t].seq = counter + 1
  PROVE  ReplayInv'
  <1>1. /\ counter \in Nat /\ cursor \in Nat /\ cursor <= counter
        /\ UNCHANGED <<cursor, batch, audited>>
    BY ActorTypes, Types, Bounds DEF Inv, ReplayInv, ReplayTypeOK, replay
  <1>2. \A b \in batch : b.row.seq \in Nat /\ b.row.seq <= counter /\ b.row.state = "integrated"
                         /\ cursor <= b.row.seq
    BY ActorTypes, Parts, Bounds DEF Inv, ReplayInv, ReplayTypeOK
  <1>3. \A u \in Tasks : row[u].seq \in Nat /\ row[u].seq <= counter
    BY Types, Parts, Bounds DEF Inv, RowInv
  <1>4. /\ cursor' <= counter'
        /\ \A b \in batch' : b.row.state = "integrated" /\ cursor' <= b.row.seq
                             /\ b.row.seq <= counter'
    BY <1>1, <1>2
  <1>5. \A u \in Tasks : row'[u].state = "integrated" /\ row'[u].seq > cursor' =>
          \/ batch' = {} \/ [task |-> u, row |-> row'[u]] \in batch'
          \/ \A b \in batch' : b.row.seq < row'[u].seq
    <2>1. \A b \in batch' : b.row.seq < row'[t].seq
      BY <1>1, <1>2
    <2> QED
      BY <1>1, <2>1 DEF Inv, ReplayInv
  <1>6. \A u, v \in Tasks :
          row'[u].state = "integrated" /\ row'[v].state = "integrated" /\ row'[u].seq = row'[v].seq
            => u = v
    BY <1>1, <1>3 DEF Inv, ReplayInv
  <1>7. CursorMissesNothing'
    BY <1>1 DEF Inv, ReplayInv, CursorMissesNothing
  <1> QED
    BY <1>4, <1>5, <1>6, <1>7 DEF ReplayInv

\* A batch read by the replay holds every landing behind the cursor up to its
\* end.
LEMMA ReadLandingsReplay ==
  ASSUME Inv, ReadLandings
  PROVE  ReplayInv'
  <1>1. /\ batch' = {[task |-> t, row |-> row[t]] : t \in Landings}
        /\ UNCHANGED <<row, counter, cursor, audited>>
    BY DEF ReadLandings, store
  <1>2. \A t \in Landings : /\ row[t].state = "integrated" /\ row[t].seq > cursor
                            /\ row[t].seq <= counter /\ row[t].seq \in Nat /\ cursor \in Nat
    BY ActorTypes, Types, Parts, Bounds DEF Inv, RowInv, Landings, ReplayTypeOK
  <1>3. \A b \in batch' : b.row.state = "integrated" /\ cursor' <= b.row.seq
                          /\ b.row.seq <= counter'
    BY <1>1, <1>2
  <1>4. \A t \in Tasks : row'[t].state = "integrated" /\ row'[t].seq > cursor' =>
          [task |-> t, row |-> row'[t]] \in batch'
    BY <1>1 DEF Landings
  <1> QED
    BY <1>1, <1>3, <1>4 DEF Inv, ReplayInv, CursorMissesNothing

\* The cursor passes a landing only when its audit was staged.
LEMMA StageRowReplay ==
  ASSUME Inv, NEW b \in batch, NEW accepted \in BOOLEAN, StageRow(b, accepted)
  PROVE  ReplayInv'
  <1> DEFINE t == b.task
  <1>1. /\ t \in Tasks /\ b.row \in Rows /\ b.row.state = "integrated"
        /\ b.row.seq \in Nat /\ cursor \in Nat /\ cursor <= b.row.seq /\ b.row.seq <= counter
    BY ActorTypes, Parts, Bounds DEF ReplayTypeOK, Inv, ReplayInv
  <1>2. UNCHANGED <<row, counter>>
    BY DEF StageRow
  <1>3. CASE batch' = {} /\ UNCHANGED <<cursor, audited>>
    BY <1>2, <1>3 DEF Inv, ReplayInv, CursorMissesNothing
  <1>4. CASE /\ row[t] = b.row /\ Oldest(b)
             /\ audited' = audited \cup {[task |-> t, seq |-> row[t].seq, sub |-> row[t].sub]}
             /\ cursor' = row[t].seq /\ batch' = batch \ {b}
    <2>1. \A c \in batch : c.row.seq \in Nat /\ b.row.seq <= c.row.seq /\ c.row.seq <= counter
                           /\ c.row.state = "integrated"
      BY <1>4, ActorTypes, Parts, Bounds DEF Oldest, ReplayTypeOK, Inv, ReplayInv
    <2>2. \A u \in Tasks : row[u].seq \in Nat
      BY Types, Parts, Bounds DEF Inv
    <2>3. cursor' <= counter' /\ \A c \in batch' : c.row.state = "integrated"
                          /\ cursor' <= c.row.seq /\ c.row.seq <= counter'
      BY <1>1, <1>2, <1>4, <2>1
    <2>4. ASSUME NEW u \in Tasks, row[u].state = "integrated", row[u].seq > cursor'
          PROVE  \/ [task |-> u, row |-> row[u]] \in batch'
                 \/ \A c \in batch' : c.row.seq < row[u].seq
      <3>1. row[u].seq > cursor
        BY <1>1, <1>4, <2>2, <2>4
      <3>2. \/ [task |-> u, row |-> row[u]] \in batch
            \/ \A c \in batch : c.row.seq < row[u].seq
        BY <2>4, <3>1 DEF Inv, ReplayInv
      <3>3. [task |-> u, row |-> row[u]] # b
        <4>1. row[u].seq # row[t].seq
          BY <1>4, <2>2, <2>4
        <4>2. [task |-> u, row |-> row[u]].row = row[u] /\ b.row = row[t]
          BY <1>4
        <4> QED
          BY <4>1, <4>2
      <3> QED
        BY <1>4, <3>2, <3>3
    <2>5. ASSUME NEW u \in Tasks, row[u].state = "integrated", row[u].seq <= cursor'
          PROVE  [task |-> u, seq |-> row[u].seq, sub |-> row[u].sub] \in audited'
      <3>1. CASE row[u].seq <= cursor
        BY <1>4, <2>5, <3>1 DEF Inv, ReplayInv, CursorMissesNothing
      <3>2. CASE row[u].seq > cursor
        <4>1. \/ [task |-> u, row |-> row[u]] \in batch
              \/ \A c \in batch : c.row.seq < row[u].seq
          BY <2>5, <3>2 DEF Inv, ReplayInv
        <4>2. ~(b.row.seq < row[u].seq)
          BY <1>1, <1>4, <2>2, <2>5
        <4>3. [task |-> u, row |-> row[u]] \in batch
          BY <4>1, <4>2
        <4>4. b.row.seq <= [task |-> u, row |-> row[u]].row.seq
          BY <2>1, <4>3
        <4>5. row[u].seq = row[t].seq
          BY <1>1, <1>4, <2>2, <2>5, <4>4
        <4>6. u = t
          BY <1>1, <1>4, <2>5, <4>5 DEF Inv, ReplayInv
        <4> QED
          BY <1>4, <4>6
      <3> QED
        BY <1>1, <2>2, <3>1, <3>2
    <2>6. CursorMissesNothing'
      BY <1>2, <2>5 DEF CursorMissesNothing
    <2> QED
      BY <1>2, <2>3, <2>4, <2>6 DEF Inv, ReplayInv
  <1> QED
    BY <1>3, <1>4 DEF StageRow


\* A write that does not integrate the row.
LEMMA PutReplay ==
  ASSUME Inv, NEW t \in Tasks, NEW r, NEW who, Put(t, r, who),
         r.state # "integrated", UNCHANGED <<counter, replay>>
  PROVE  ReplayInv'
  <1>1. row'[t] = r /\ \A u \in Tasks : u # t => row'[u] = row[u]
    BY Types DEF Put, Inv
  <1> QED
    BY <1>1, ReplayKept

\* No write at all.
LEMMA SameReplay ==
  ASSUME Inv, UNCHANGED <<row, counter, replay>>
  PROVE  ReplayInv'
  BY ReplayKept

\* The writes of the actions that keep or end a generation without a landing.
LEMMA WritesReplay ==
  ASSUME Inv, NEW w \in Handlers,
         \/ RecoverRow(w) \/ PrepareRebase(w) \/ AbortRebase(w) \/ CompletePublication(w)
         \/ RetireGeneration(w)
         \/ \E b \in BOOLEAN : ConsumeRetry(w, b) \/ PreparePublication(w, b) \/ FinishBlocked(w, b)
  PROVE  ReplayInv'
  <1> DEFINE t == wf[w].task
             r == row[t]
  <1>0. CoreInv
    BY DEF Inv
  <1>1. t \in Tasks
    BY <1>0, TaskOf DEF RecoverRow, PrepareRebase, AbortRebase, CompletePublication,
           RetireGeneration, ConsumeRetry, PreparePublication, FinishBlocked, At
  <1>2. r \in Rows /\ record[t] \in Records
    BY <1>0, <1>1, Types
  <1>3. CASE RecoverRow(w)
    <2>1. UNCHANGED <<counter, replay>> /\ record[t].sub \in Pairs
      BY <1>2, <1>3, Parts DEF RecoverRow, Nullable
    <2>2. NewRow(record[t].sub).state = "ready" /\ Released(r).state = "ready"
      BY <1>2, <2>1, NewRowType, RowValues
    <2>3. CASE Put(t, NewRow(record[t].sub), w)
      BY <1>1, <2>1, <2>2, <2>3, PutReplay
    <2>4. CASE Put(t, Released(r), w)
      BY <1>1, <2>1, <2>2, <2>4, PutReplay
    <2>5. CASE UNCHANGED <<row, exact>>
      BY <2>1, <2>5, SameReplay
    <2> QED
      BY <1>3, <2>3, <2>4, <2>5 DEF RecoverRow
  <1>4. CASE PrepareRebase(w)
    <2> DEFINE q == [r EXCEPT !.sub.moved = TRUE, !.pred = r.sub.head, !.intent = TRUE]
    <2>1. q.state = r.state /\ r.state = "ready" /\ UNCHANGED <<counter, replay>>
      BY <1>2, <1>4 DEF PrepareRebase, Authorized, Rows
    <2>2. Put(t, q, w) \/ UNCHANGED <<row, exact>>
      BY <1>4 DEF PrepareRebase
    <2> HIDE DEF q
    <2> QED
      BY <1>1, <2>1, <2>2, PutReplay, SameReplay
  <1>5. CASE AbortRebase(w)
    <2> DEFINE q == [r EXCEPT !.intent = FALSE, !.pred = NULL]
    <2>1. q.state = r.state /\ r.state = "ready" /\ UNCHANGED <<counter, replay>>
      BY <1>2, <1>5 DEF AbortRebase, Rows
    <2>2. \E who \in {w, NULL} : Put(t, q, who)
      BY <1>5 DEF AbortRebase
    <2> HIDE DEF q
    <2> QED
      BY <1>1, <2>1, <2>2, PutReplay
  <1>6. CASE CompletePublication(w)
    <2> DEFINE q == [r EXCEPT !.publishing = FALSE]
    <2>1. q.state = r.state /\ r.state = "ready" /\ UNCHANGED <<counter, replay>>
      BY <1>2, <1>6 DEF CompletePublication, Rows
    <2>2. Put(t, q, w)
      BY <1>6 DEF CompletePublication
    <2> HIDE DEF q
    <2> QED
      BY <1>1, <2>1, <2>2, PutReplay
  <1>7. CASE RetireGeneration(w)
    <2>1. Put(t, Cancelled(r), NULL) /\ UNCHANGED <<counter, replay>>
      BY <1>7 DEF RetireGeneration
    <2> QED
      BY <1>1, <1>2, <2>1, RowValues, PutReplay
  <1>8. ASSUME NEW b \in BOOLEAN, ConsumeRetry(w, b)
        PROVE  ReplayInv'
    <2>1. r.state = "ready" /\ UNCHANGED <<counter, replay>>
      BY <1>8 DEF ConsumeRetry
    <2>2. Put(t, r, w) \/ UNCHANGED <<row, exact>>
      BY <1>8 DEF ConsumeRetry
    <2> QED
      BY <1>1, <2>1, <2>2, PutReplay, SameReplay
  <1>9. ASSUME NEW b \in BOOLEAN, PreparePublication(w, b)
        PROVE  ReplayInv'
    <2> DEFINE q == [r EXCEPT !.sub = [head |-> made[t] + 1, moved |-> TRUE],
                              !.intent = FALSE, !.publishing = TRUE,
                              !.pred = IF r.pred # NULL THEN r.pred ELSE r.sub.head]
               who == IF b THEN w ELSE NULL
    <2>1. q.state = r.state /\ r.state = "ready" /\ UNCHANGED <<counter, replay>>
      BY <1>2, <1>9 DEF PreparePublication, Rows
    <2>2. Put(t, q, who)
      BY <1>9 DEF PreparePublication
    <2> HIDE DEF q
    <2> QED
      BY <1>1, <2>1, <2>2, PutReplay
  <1>10. ASSUME NEW b \in BOOLEAN, FinishBlocked(w, b)
         PROVE  ReplayInv'
    <2> DEFINE q == [r EXCEPT !.state = "blocked", !.attempts = Counted(@), !.seq = 0]
    <2>1. q.state = "blocked" /\ UNCHANGED <<counter, replay>>
      BY <1>2, <1>10 DEF FinishBlocked, Rows
    <2>2. Put(t, q, NULL)
      BY <1>10 DEF FinishBlocked
    <2> HIDE DEF q
    <2> QED
      BY <1>1, <2>1, <2>2, PutReplay
  <1> QED
    BY <1>3, <1>4, <1>5, <1>6, <1>7, <1>8, <1>9, <1>10

\* The two landings draw a new sequence.
LEMMA LandingsReplay ==
  ASSUME Inv, NEW w \in Handlers, PrepareTerminal(w) \/ \E b \in BOOLEAN : FinishLanded(w, b)
  PROVE  ReplayInv'
  <1> DEFINE t == wf[w].task
             r == row[t]
             p == record[t].sub
  <1>0. CoreInv
    BY DEF Inv
  <1>1. t \in Tasks
    BY <1>0, TaskOf DEF PrepareTerminal, FinishLanded, At
  <1>2. r \in Rows /\ row \in [Tasks -> Rows]
    BY <1>0, <1>1, Types
  <1>3. CASE PrepareTerminal(w)
    <2>1. CASE UNCHANGED <<row, counter, exact>>
      BY <1>3, <2>1, SameReplay DEF PrepareTerminal, NextSequence
    <2>2. CASE counter' = counter + 1 /\ Put(t, Integrated(r, p, counter + 1), w)
      <3>1. Integrated(r, p, counter + 1).seq = counter + 1
        BY <1>2 DEF Integrated, Rows
      <3>2. row'[t].seq = counter + 1 /\ \A u \in Tasks : u # t => row'[u] = row[u]
        BY <1>1, <1>2, <2>2, <3>1 DEF Put
      <3> QED
        BY <1>1, <1>3, <2>2, <3>2, ReplayLanding DEF PrepareTerminal, NextSequence
    <2> QED
      BY <1>3, <2>1, <2>2 DEF PrepareTerminal, NextSequence
  <1>4. ASSUME NEW b \in BOOLEAN, FinishLanded(w, b)
        PROVE  ReplayInv'
    <2> DEFINE q == [r EXCEPT !.state = "integrated", !.attempts = Counted(@),
                              !.seq = counter + 1]
    <2>1. q.seq = counter + 1
      BY <1>2 DEF Rows
    <2>2. Put(t, q, NULL) /\ counter' = counter + 1 /\ UNCHANGED replay
      BY <1>4 DEF FinishLanded, NextSequence
    <2> HIDE DEF q
    <2>3. row'[t].seq = counter + 1 /\ \A u \in Tasks : u # t => row'[u] = row[u]
      BY <1>1, <1>2, <2>1, <2>2 DEF Put
    <2> QED
      BY <1>1, <2>2, <2>3, ReplayLanding
  <1> QED
    BY <1>3, <1>4

-----------------------------------------------------------------------------
(***************************************************************************)
(* The theorems.                                                           *)
(***************************************************************************)

\* The initial store, fresh or left by a legacy lane, satisfies the invariant.
LEMMA InitInv == Init => Inv
  <1> SUFFICES ASSUME Init PROVE Inv
    OBVIOUS
  <1>1. /\ counter = 0 /\ wf = [w \in Handlers |-> IdleHandler]
        /\ exact = [w \in Handlers |-> FALSE] /\ sj = [s \in Submitters |-> IdleSubmitter]
        /\ cursor = 0 /\ batch = {} /\ audited = {}
    BY DEF Init
  <1>2. IdleHandler \in Handling /\ IdleHandler.pc = "idle"
    BY DEF IdleHandler, Handling, Nullable
  <1>3. IdleSubmitter \in Submissions /\ IdleSubmitter.pc = "idle"
    BY DEF IdleSubmitter, Submissions, Nullable
  <1>4. /\ \A w \in Handlers : HandlerInv(w)
        /\ \A s \in Submitters : SubmitterInv(s)
    BY <1>1, <1>2, <1>3 DEF HandlerInv, SubmitterInv, Working
  <1>5. /\ counter \in 0..MaxSeq /\ ReplayTypeOK /\ wf \in [Handlers -> Handling]
        /\ exact \in [Handlers -> BOOLEAN] /\ sj \in [Submitters -> Submissions]
    BY <1>1, <1>2, <1>3, Bounds DEF ReplayTypeOK
  <1>6. CASE InitFresh
    <2>1. NoRow \in Rows /\ NoRow.state = "absent" /\ NoRow.sub = NULL /\ NoRow.pred = NULL
          /\ NoRow.seq = 0
      BY Bounds DEF NoRow, Rows, Nullable
    <2>2. NoRecord \in Records /\ NoRecord.sub = NULL /\ NoRecord.state = "none"
      BY DEF NoRecord, Records, Nullable
    <2>3. StoreTypeOK
      BY <1>5, <1>6, <2>1, <2>2, Bounds DEF InitFresh, StoreTypeOK
    <2>4. \A t \in Tasks : newest[t] <= made[t] /\ RowInv(t) /\ RecordInv(t)
      BY <1>1, <1>6, <2>1, <2>2 DEF InitFresh, RowInv, RecordInv
    <2>5. \A t \in Tasks : row[t].state # "integrated"
      BY <1>6, <2>1 DEF InitFresh
    <2> QED
      BY <1>1, <1>4, <1>5, <2>3, <2>4, <2>5
         DEF Inv, CoreInv, HandlersTypeOK, ReplayTypeOK, ReplayInv, CursorMissesNothing
  <1>7. ASSUME NEW l \in Legacy, InitLegacy(l)
        PROVE  Inv
    <2>1. 1 \in Commits /\ 2 \in Commits /\ 1 \in 0..MaxCommit /\ 2 \in 0..MaxCommit
      BY <1>7, Bounds DEF InitLegacy, Commits
    <2> DEFINE p1 == First(1, FALSE)
               p2 == First(2, TRUE)
    <2>2. /\ p1 \in Pairs /\ p1.head = 1 /\ p1 # NULL
          /\ p2 \in Pairs /\ p2.head = 2 /\ p2 # NULL
      <3>1. /\ p1 = [head |-> 1, moved |-> FALSE]
            /\ p2 = [head |-> 2, moved |-> TRUE]
        BY Zenon DEF First
      <3> HIDE DEF p1, p2
      <3>2. p1 \in Pairs /\ p1.head = 1 /\ p2 \in Pairs /\ p2.head = 2
        BY <2>1, <3>1 DEF Pairs
      <3> QED
        BY <3>2, NotNull
    <2>2a. Legacy = {[row |-> Leased(NULL), sub |-> p1, state |-> "ready"],
                     [row |-> Leased(p2), sub |-> p2, state |-> "ready"],
                     [row |-> NewRow(p1), sub |-> p2, state |-> "integrated"]}
      BY DEF Legacy
    <2>2b. \A c : Leased(c) = [NewRow(p1) EXCEPT !.state = "integrating", !.owner = "gone",
                                                !.cand = c, !.attempts = Counted(0)]
      BY DEF Leased
    <2> HIDE DEF p1, p2
    <2>3. /\ NewRow(p1) \in Rows /\ NewRow(p1).sub = p1
          /\ NewRow(p1).pred = NULL /\ NewRow(p1).seq = 0
          /\ NewRow(p1).state = "ready"
      BY <2>2, NewRowType
    <2>4. ASSUME NEW c \in {NULL, p2}
          PROVE  /\ Leased(c) \in Rows /\ Leased(c).sub = p1
                 /\ Leased(c).pred = NULL /\ Leased(c).seq = 0
                 /\ Leased(c).state = "integrating"
      <3>1. Counted(0) \in 0..MaxAttempts
        BY CountedType, Bounds
      <3> QED
        BY <2>2, <2>2b, <2>3, <2>4, <3>1 DEF Rows, Nullable
    <2>5. /\ l.row \in Rows /\ l.row.sub = p1 /\ l.row.pred = NULL
          /\ l.row.seq = 0 /\ l.row.state \in {"ready", "integrating"}
          /\ l.sub \in {p1, p2} /\ l.state \in {"ready", "integrated"}
          /\ l.state = "integrated" => l.sub = p2
      <3>1. CASE l = [row |-> Leased(NULL), sub |-> p1, state |-> "ready"]
        BY <2>4, <3>1
      <3>2. CASE l = [row |-> Leased(p2), sub |-> p2, state |-> "ready"]
        BY <2>4, <3>2
      <3>3. CASE l = [row |-> NewRow(p1), sub |-> p2,
                      state |-> "integrated"]
        BY <2>3, <3>3
      <3> QED
        BY <1>7, <2>2a, <3>1, <3>2, <3>3
    <2> DEFINE n == [status |-> "ready", sub |-> l.sub, state |-> l.state]
    <2>6. n \in Records /\ n.sub = l.sub /\ n.state = l.state
      BY <2>2, <2>5 DEF Records, Nullable
    <2> HIDE DEF n
    <2>7. /\ row = [t \in Tasks |-> l.row] /\ record = [t \in Tasks |-> n]
          /\ made = [t \in Tasks |-> 2] /\ newest = [t \in Tasks |-> 1]
          /\ origin = [t \in Tasks |-> [c \in Commits |-> IF c <= 2 THEN 1 ELSE 0]]
          /\ epic = [t \in Tasks |-> IF l.state = "integrated" THEN {2} ELSE {}]
      BY <1>7 DEF InitLegacy, n
    <2>8. StoreTypeOK
      BY <1>5, <2>1, <2>5, <2>6, <2>7, Bounds DEF StoreTypeOK
    <2>9. ASSUME NEW t \in Tasks
          PROVE  newest[t] <= made[t] /\ RowInv(t) /\ RecordInv(t)
      <3>0. origin[t][1] = 1 /\ origin[t][2] = 1 /\ made[t] = 2 /\ newest[t] = 1
        BY <2>1, <2>7
      <3>1. /\ Known(t, p1) /\ origin[t][p1.head] = newest[t]
            /\ Known(t, p2) /\ origin[t][p2.head] = newest[t]
        BY <2>2, <3>0 DEF Known
      <3>2. RowInv(t)
        <4>1. row[t] = l.row /\ counter = 0
          BY <1>1, <2>7
        <4> QED
          BY <2>2, <2>5, <3>1, <4>1 DEF RowInv
      <3>3. l.state = "integrated" => l.sub.head \in epic[t]
        BY <2>2, <2>5, <2>7
      <3>4. RecordInv(t)
        BY <2>2, <2>5, <2>6, <2>7, <3>1, <3>3 DEF RecordInv
      <3> QED
        BY <2>7, <3>2, <3>4
    <2>10. \A t \in Tasks : row[t].state # "integrated"
      BY <2>5, <2>7
    <2> QED
      BY <1>1, <1>4, <1>5, <2>8, <2>9, <2>10
         DEF Inv, CoreInv, HandlersTypeOK, ReplayTypeOK, ReplayInv, CursorMissesNothing
  <1> QED
    BY <1>6, <1>7 DEF Init


\* Every step keeps the invariant.
LEMMA NextInv == Inv /\ [Next]_vars => Inv'
  <1> SUFFICES ASSUME Inv, [Next]_vars PROVE Inv'
    OBVIOUS
  <1>0. CoreInv
    BY DEF Inv
  <1>1. ASSUME NEW t \in Tasks, Tracker(t)
        PROVE  Inv'
    <2>1. CASE SubmitNew(t)
      BY <1>0, <2>1, SubmitNewCore, SameReplay DEF Inv, SubmitNew, Accept
    <2>2. CASE SubmitAgain(t)
      BY <1>0, <2>2, SubmitAgainCore, SameReplay DEF Inv, SubmitAgain, Accept
    <2>3. CASE LeaseExpires(t)
      <3>1. row'[t].state = "integrating" /\ \A u \in Tasks : u # t => row'[u] = row[u]
        BY <1>0, <2>3, Types DEF LeaseExpires, Rows
      <3>2. ReplayInv'
        BY <2>3, <3>1, ReplayKept DEF LeaseExpires
      <3> QED
        BY <1>0, <2>3, <3>2, LeaseExpiresCore DEF Inv
    <2>4. ASSUME NEW status \in {"open", "terminal"}, MoveTask(t, status)
          PROVE  Inv'
      BY <1>0, <2>4, MoveTaskCore, SameReplay DEF Inv, MoveTask
    <2>5. ASSUME NEW s \in Submitters, ReadSubmission(s, t)
          PROVE  Inv'
      BY <1>0, <2>5, ReadSubmissionCore, SameReplay DEF Inv, ReadSubmission, store
    <2> QED
      BY <1>1, <2>1, <2>2, <2>3, <2>4, <2>5 DEF Tracker
  <1>2. ASSUME NEW t \in Tasks, NEW w \in Handlers, Observe(w, t)
        PROVE  Inv'
    BY <1>0, <1>2, ObserveCore, SameReplay DEF Inv, Observe, store
  <1>3. ASSUME NEW s \in Submitters, QueueSubmission(s)
        PROVE  Inv'
    <2>1. sj[s].task \in Tasks /\ Known(sj[s].task, sj[s].sub)
      BY <1>0, <1>3 DEF CoreInv, SubmitterInv, QueueSubmission
    <2> DEFINE t == sj[s].task
               r == Enqueued(row[t], sj[s].sub, TRUE, TRUE, FALSE)
    <2>2. UNCHANGED <<counter, replay>>
      BY <1>3 DEF QueueSubmission
    <2>3. CASE r = row[t]
      BY <1>3, <2>2, <2>3, SameReplay, QueueSubmissionCore, <1>0 DEF Inv, QueueSubmission
    <2>4. CASE r # row[t]
      <3>1. r = [NewRow(sj[s].sub) EXCEPT !.attempts = 0] /\ Put(t, r, NULL)
        BY <1>3, <2>4 DEF Enqueued, QueueSubmission
      <3>2. r.state = "ready"
        BY <2>1, <3>1, NewRowType DEF Known
      <3> HIDE DEF r
      <3>3. ReplayInv'
        BY <2>1, <2>2, <3>1, <3>2, PutReplay
      <3> QED
        BY <1>0, <1>3, <3>3, QueueSubmissionCore DEF Inv
    <2> QED
      BY <2>3, <2>4
  <1>4. ASSUME NEW s \in Submitters, FinishSubmission(s)
        PROVE  Inv'
    BY <1>0, <1>4, FinishSubmissionCore, SameReplay DEF Inv, FinishSubmission
  <1>5. ASSUME NEW w \in Handlers, Deliver(w)
        PROVE  Inv'
    <2>1. CASE RecoverRow(w)
      BY <1>0, <2>1, RecoverRowCore, WritesReplay DEF Inv
    <2>2. CASE RepairRecord(w)
      BY <1>0, <2>2, RepairRecordCore, SameReplay DEF Inv, RepairRecord
    <2>3. CASE RecoverLanding(w)
      BY <1>0, <2>3, RecoverLandingCore, SameReplay DEF Inv, RecoverLanding, store
    <2>4. CASE PrepareRebase(w)
      BY <1>0, <2>4, PrepareRebaseCore, WritesReplay DEF Inv
    <2>5. CASE AbortRebase(w)
      BY <1>0, <2>5, AbortRebaseCore, WritesReplay DEF Inv
    <2>6. CASE ResumePublication(w)
      BY <1>0, <2>6, ResumePublicationCore, SameReplay DEF Inv, ResumePublication
    <2>7. CASE PublishHead(w)
      BY <1>0, <2>7, PublishHeadCore, SameReplay DEF Inv, PublishHead, store
    <2>8. CASE CompletePublication(w)
      BY <1>0, <2>8, CompletePublicationCore, WritesReplay DEF Inv
    <2>9. CASE AuthorizePush(w)
      BY <1>0, <2>9, AuthorizePushCore, SameReplay DEF Inv, AuthorizePush, store
    <2>10. CASE LandHead(w)
      BY <1>0, <2>10, LandHeadCore, SameReplay DEF Inv, LandHead
    <2>11. CASE PrepareTerminal(w)
      BY <1>0, <2>11, PrepareTerminalCore, LandingsReplay DEF Inv
    <2>12. CASE RetireGeneration(w)
      BY <1>0, <2>12, RetireGenerationCore, WritesReplay DEF Inv
    <2>13. CASE AbandonAction(w)
      BY <1>0, <2>13, AbandonActionCore, SameReplay DEF Inv, AbandonAction, store
    <2>14. ASSUME NEW b \in BOOLEAN, ConsumeRetry(w, b)
           PROVE  Inv'
      BY <1>0, <2>14, ConsumeRetryCore, WritesReplay DEF Inv
    <2>15. ASSUME NEW b \in BOOLEAN, PreparePublication(w, b)
           PROVE  Inv'
      BY <1>0, <2>15, PreparePublicationCore, WritesReplay DEF Inv
    <2>16. ASSUME NEW b \in BOOLEAN, RunGate(w, b)
           PROVE  Inv'
      BY <1>0, <2>16, RunGateCore, SameReplay DEF Inv, RunGate, store
    <2>17. ASSUME NEW b \in BOOLEAN, FinishLanded(w, b)
           PROVE  Inv'
      BY <1>0, <2>17, FinishLandedCore, LandingsReplay DEF Inv
    <2>18. ASSUME NEW b \in BOOLEAN, FinishBlocked(w, b)
           PROVE  Inv'
      BY <1>0, <2>18, FinishBlockedCore, WritesReplay DEF Inv
    <2>19. ASSUME NEW b \in BOOLEAN, StageTerminal(w, b)
           PROVE  Inv'
      BY <1>0, <2>19, StageTerminalCore, SameReplay DEF Inv, StageTerminal
    <2> QED
      BY <1>5, <2>1, <2>2, <2>3, <2>4, <2>5, <2>6, <2>7, <2>8, <2>9, <2>10, <2>11, <2>12,
         <2>13, <2>14, <2>15, <2>16, <2>17, <2>18, <2>19 DEF Deliver
  <1>6. CASE Restart
    <2>1. /\ row' = [t \in Tasks |-> Abandoned(row[t])] /\ batch' = {}
          /\ UNCHANGED <<counter, cursor, audited>>
      BY <1>6 DEF Restart
    <2>2. \A u \in Tasks : row'[u].state = "integrated" => row'[u] = row[u]
      BY <1>0, <2>1, Types, AbandonedValue
    <2>3. ReplayInv'
      BY <2>1, <2>2 DEF Inv, ReplayInv, CursorMissesNothing
    <2> QED
      BY <1>0, <1>6, <2>3, RestartCore DEF Inv
  <1>7. CASE ReadLandings
    BY <1>0, <1>7, ReadLandingsCore, ReadLandingsReplay DEF Inv
  <1>8. ASSUME NEW accepted \in BOOLEAN, StageLanding(accepted)
        PROVE  Inv'
    BY <1>0, <1>8, StageRowCore, StageRowReplay DEF Inv, StageLanding
  <1>9. CASE UNCHANGED vars
    <2>1. UNCHANGED <<row, counter, record, made, origin, newest, epic, wf, exact, sj,
                      cursor, batch, audited>>
      BY <1>9 DEF vars
    <2>2. HandlersTypeOK'
      BY <1>0, <2>1 DEF CoreInv, HandlersTypeOK, StoreTypeOK
    <2>3. \A t \in Tasks : newest'[t] <= made'[t] /\ RowInv(t)' /\ RecordInv(t)'
      BY <1>0, <2>1, Types DEF RowInv, RecordInv, Known
    <2>4. \A s \in Submitters : SubmitterInv(s)'
      BY <1>0, <2>1 DEF CoreInv, SubmitterInv, Known
    <2>5. \A w \in Handlers : HandlerInv(w)'
      BY <1>0, <2>1 DEF CoreInv, HandlerInv, Names, Pending
    <2>6. ReplayInv'
      BY <2>1, SameReplay DEF replay
    <2> QED
      BY <2>2, <2>3, <2>4, <2>5, <2>6 DEF Inv, CoreInv
  <1> QED
    BY <1>1, <1>2, <1>3, <1>4, <1>5, <1>6, <1>7, <1>8, <1>9 DEF Next

\* The inductive invariant of the handlers.
THEOREM HandlersInvariance == Spec => []Inv
  <1>1. Init => Inv
    BY InitInv
  <1>2. Inv /\ [Next]_vars => Inv'
    BY NextInv
  <1> QED
    BY <1>1, <1>2, PTL DEF Spec

\* Rows, records, jobs and the replay keep their types: no attempt, sequence or
\* commit leaves its range, for any number of tasks and actions.
THEOREM HandlersTypeCorrect == Spec => []HandlersTypeOK
  <1>1. Inv => HandlersTypeOK
    BY DEF Inv, CoreInv
  <1> QED
    BY <1>1, HandlersInvariance, PTL

\* Whatever the store and the tracker call integrated has landed on the epic
\* branch, for any number of actions in flight for a task.
THEOREM IntegratedLanded == Spec => []IntegratedMeansLanded
  <1>1. Inv => IntegratedMeansLanded
    BY Types DEF Inv, IntegratedMeansLanded, RowInv, RecordInv
  <1> QED
    BY <1>1, HandlersInvariance, PTL

\* No action that runs late, resumes a rebase or replays a landing puts an older
\* submission back into the record of the task.
THEOREM NewestKept == Spec => []NewestSubmissionKept
  <1>1. Inv => NewestSubmissionKept
    BY Types DEF Inv, NewestSubmissionKept, RecordInv
  <1> QED
    BY <1>1, HandlersInvariance, PTL

\* The cursor of the audit replay passes no landing that the audit has not seen,
\* for any number of tasks that land while a batch is staged.
THEOREM ReplayComplete == Spec => []CursorMissesNothing
  <1>1. Inv => CursorMissesNothing
    BY DEF Inv, ReplayInv
  <1> QED
    BY <1>1, HandlersInvariance, PTL

-----------------------------------------------------------------------------
(***************************************************************************)
(* The handlers implement Delivery: each of their steps lands a commit,    *)
(* delivers a landed one, notes or audits what is delivered, takes         *)
(* something back, or is not seen at all.                                  *)
(***************************************************************************)

\* What has landed, and what is called integrated, is a commit.
LEMMA HeadTypes ==
  ASSUME CoreInv, NEW t \in Tasks
  PROVE  /\ record \in [Tasks -> Records] /\ row \in [Tasks -> Rows]
         /\ epic[t] \subseteq Commits
         /\ row[t].state = "integrated" => row[t].sub.head \in Commits
  BY Types DEF RowInv

-----------------------------------------------------------------------------
(***************************************************************************)
(* The steps.                                                              *)
(***************************************************************************)

\* A write of a row, beside a record that loses its integrated state or keeps it.
LEMMA PutTakesBack ==
  ASSUME CoreInv, NEW t \in Tasks, NEW r, NEW who, Put(t, r, who), r.state # "integrated",
         UNCHANGED epic, NEW n, record' = [record EXCEPT ![t] = n] \/ (UNCHANGED record /\ n = record[t]),
         n.state # "integrated" \/ (n.state = record[t].state /\ n.sub = record[t].sub),
         n.status # "validating" \/ n.status = record[t].status
  PROVE  D!Next
  <1>1. row'[t] = r /\ record'[t] = n /\ Only(t)
    BY Types DEF Put, Only
  <1> QED
    BY <1>1, TakesBack

\* A write of a record alone.
LEMMA RecordTakesBack ==
  ASSUME CoreInv, NEW t \in Tasks, UNCHANGED <<row, epic>>,
         NEW n, record' = [record EXCEPT ![t] = n],
         n.state # "integrated" \/ (n.state = record[t].state /\ n.sub = record[t].sub),
         n.status # "validating" \/ n.status = record[t].status
  PROVE  D!Next
  <1>1. row'[t] = row[t] /\ record'[t] = n /\ Only(t)
    BY Types DEF Only
  <1> QED
    BY <1>1, TakesBack

\* Submissions, moves of the task and expiry.
LEMMA TrackerRefines ==
  ASSUME CoreInv, NEW t \in Tasks, Tracker(t)
  PROVE  D!Next \/ UNCHANGED D!vars
  <1>0. row[t] \in Rows /\ record[t] \in Records /\ row \in [Tasks -> Rows]
        /\ record \in [Tasks -> Records]
    BY Types
  <1>1. ASSUME NEW p, Accept(t, p)
        PROVE  D!Next
    <2> DEFINE n == [record[t] EXCEPT !.sub = p, !.state = "ready"]
    <2>1. record' = [record EXCEPT ![t] = n] /\ UNCHANGED <<row, epic>>
      BY <1>0, <1>1 DEF Accept
    <2>2. n.state = "ready" /\ n.status = record[t].status
      BY <1>0 DEF Records
    <2> HIDE DEF n
    <2> QED
      BY <2>1, <2>2, RecordTakesBack
  <1>2. CASE SubmitNew(t)
    BY <1>1, <1>2 DEF SubmitNew
  <1>3. CASE SubmitAgain(t)
    BY <1>1, <1>3 DEF SubmitAgain
  <1>4. CASE LeaseExpires(t)
    <2>1. row'[t].state = "integrating" /\ Only(t) /\ UNCHANGED <<record, epic>>
      BY <1>0, <1>4 DEF LeaseExpires, Only, Rows
    <2> QED
      BY <2>1, TakesBack
  <1>5. ASSUME NEW status \in {"open", "terminal"}, MoveTask(t, status)
        PROVE  D!Next
    <2> DEFINE n == [record[t] EXCEPT !.status = status]
    <2>1. record' = [record EXCEPT ![t] = n] /\ UNCHANGED <<row, epic>>
      BY <1>0, <1>5 DEF MoveTask
    <2>2. n.state = record[t].state /\ n.sub = record[t].sub /\ n.status = status
      BY <1>0 DEF Records
    <2> HIDE DEF n
    <2> QED
      BY <2>1, <2>2, RecordTakesBack
  <1>6. ASSUME NEW s \in Submitters, ReadSubmission(s, t)
        PROVE  UNCHANGED D!vars
    BY <1>6, Unseen DEF ReadSubmission, store
  <1> QED
    BY <1>2, <1>3, <1>4, <1>5, <1>6 DEF Tracker

\* The jobs of submissions.
LEMMA SubmissionRefines ==
  ASSUME CoreInv, NEW s \in Submitters, QueueSubmission(s) \/ FinishSubmission(s)
  PROVE  D!Next \/ UNCHANGED D!vars
  <1>1. PICK t \in Tasks : t = sj[s].task
    BY DEF QueueSubmission, FinishSubmission, CoreInv, SubmitterInv
  <1>2. Known(t, sj[s].sub)
    BY <1>1 DEF QueueSubmission, FinishSubmission, CoreInv, SubmitterInv
  <1>3. CASE QueueSubmission(s)
    <2> DEFINE r == Enqueued(row[t], sj[s].sub, TRUE, TRUE, FALSE)
    <2>1. UNCHANGED <<record, epic>>
      BY <1>3 DEF QueueSubmission
    <2>2. CASE r = row[t]
      BY <1>1, <1>3, <2>1, <2>2, Unseen DEF QueueSubmission
    <2>3. CASE r # row[t]
      <3>1. r = [NewRow(sj[s].sub) EXCEPT !.attempts = 0] /\ Put(t, r, NULL)
        BY <1>1, <1>3, <2>3 DEF Enqueued, QueueSubmission
      <3>2. r.state = "ready"
        BY <1>2, <3>1, NewRowType DEF Known
      <3> HIDE DEF r
      <3> QED
        BY <2>1, <3>1, <3>2, PutTakesBack
    <2> QED
      BY <2>2, <2>3
  <1>4. CASE FinishSubmission(s)
    <2> DEFINE n == [record[t] EXCEPT !.status = IF record[t].sub = sj[s].sub THEN "ready" ELSE @]
    <2>1. record' = [record EXCEPT ![t] = n] /\ UNCHANGED <<row, epic>>
      BY <1>1, <1>4, Types DEF FinishSubmission
    <2>2. n.state = record[t].state /\ n.sub = record[t].sub
          /\ n.status \in {"ready", record[t].status}
      BY Types DEF Records
    <2> HIDE DEF n
    <2> QED
      BY <2>1, <2>2, RecordTakesBack
  <1> QED
    BY <1>3, <1>4

\* Steps of an action that leave the row of its task without a landing.
LEMMA WritesRefine ==
  ASSUME CoreInv, NEW w \in Handlers,
         \/ RecoverRow(w) \/ PrepareRebase(w) \/ AbortRebase(w) \/ CompletePublication(w)
         \/ RetireGeneration(w)
         \/ \E b \in BOOLEAN : ConsumeRetry(w, b) \/ PreparePublication(w, b) \/ FinishBlocked(w, b)
  PROVE  D!Next \/ UNCHANGED D!vars
  <1>0. PICK t \in Tasks : t = wf[w].task
    BY TaskOf DEF RecoverRow, PrepareRebase, AbortRebase, CompletePublication,
           RetireGeneration, ConsumeRetry, PreparePublication, FinishBlocked, At
  <1> DEFINE r == row[t]
  <1>2. r \in Rows /\ record[t] \in Records /\ record \in [Tasks -> Records]
    BY Types
  <1>3. CASE RecoverRow(w)
    <2>1. UNCHANGED <<record, epic>> /\ record[t].sub \in Pairs
      BY <1>0, <1>2, <1>3, Parts DEF RecoverRow, Nullable
    <2>2. NewRow(record[t].sub).state = "ready" /\ Released(r).state = "ready"
      BY <1>2, <2>1, NewRowType, RowValues
    <2>3. CASE Put(t, NewRow(record[t].sub), w)
      BY <2>1, <2>2, <2>3, PutTakesBack
    <2>4. CASE Put(t, Released(r), w)
      BY <2>1, <2>2, <2>4, PutTakesBack
    <2>5. CASE UNCHANGED <<row, exact>>
      BY <2>1, <2>5, Unseen
    <2> QED
      BY <1>0, <1>3, <2>3, <2>4, <2>5 DEF RecoverRow
  <1>4. CASE PrepareRebase(w)
    <2> DEFINE q == [r EXCEPT !.sub.moved = TRUE, !.pred = r.sub.head, !.intent = TRUE]
    <2>1. q.state = r.state /\ r.state = "ready" /\ UNCHANGED <<record, epic>>
      BY <1>0, <1>2, <1>4 DEF PrepareRebase, Authorized, Rows
    <2>2. Put(t, q, w) \/ UNCHANGED <<row, exact>>
      BY <1>0, <1>4 DEF PrepareRebase
    <2> HIDE DEF q
    <2> QED
      BY <2>1, <2>2, PutTakesBack, Unseen
  <1>5. CASE AbortRebase(w)
    <2> DEFINE q == [r EXCEPT !.intent = FALSE, !.pred = NULL]
    <2>1. q.state = r.state /\ r.state = "ready" /\ UNCHANGED <<record, epic>>
      BY <1>0, <1>2, <1>5 DEF AbortRebase, Rows
    <2>2. \E who \in {w, NULL} : Put(t, q, who)
      BY <1>0, <1>5 DEF AbortRebase
    <2> HIDE DEF q
    <2> QED
      BY <2>1, <2>2, PutTakesBack
  <1>6. CASE CompletePublication(w)
    <2> DEFINE q == [r EXCEPT !.publishing = FALSE]
    <2>1. q.state = r.state /\ r.state = "ready" /\ UNCHANGED <<record, epic>>
      BY <1>0, <1>2, <1>6 DEF CompletePublication, Rows
    <2>2. Put(t, q, w)
      BY <1>0, <1>6 DEF CompletePublication
    <2> HIDE DEF q
    <2> QED
      BY <2>1, <2>2, PutTakesBack
  <1>7. CASE RetireGeneration(w)
    <2> DEFINE n == [record[t] EXCEPT !.status = "open"]
    <2>1. Put(t, Cancelled(r), NULL) /\ record' = [record EXCEPT ![t] = n] /\ UNCHANGED epic
      BY <1>0, <1>2, <1>7 DEF RetireGeneration
    <2>2. n.state = record[t].state /\ n.sub = record[t].sub /\ n.status = "open"
      BY <1>2 DEF Records
    <2> HIDE DEF n
    <2> QED
      BY <1>2, <2>1, <2>2, RowValues, PutTakesBack
  <1>8. ASSUME NEW b \in BOOLEAN, ConsumeRetry(w, b)
        PROVE  D!Next \/ UNCHANGED D!vars
    <2>1. r.state = "ready" /\ UNCHANGED <<record, epic>>
      BY <1>0, <1>8 DEF ConsumeRetry
    <2>2. Put(t, r, w) \/ UNCHANGED <<row, exact>>
      BY <1>0, <1>8 DEF ConsumeRetry
    <2> QED
      BY <2>1, <2>2, PutTakesBack, Unseen
  <1>9. ASSUME NEW b \in BOOLEAN, PreparePublication(w, b)
        PROVE  D!Next
    <2> DEFINE p == [head |-> made[t] + 1, moved |-> TRUE]
               q == [r EXCEPT !.sub = p, !.intent = FALSE, !.publishing = TRUE,
                              !.pred = IF r.pred # NULL THEN r.pred ELSE r.sub.head]
               who == IF b THEN w ELSE NULL
               n == [record[t] EXCEPT !.sub = IF b THEN p ELSE @]
    <2>1. q.state = r.state /\ r.state = "ready" /\ record[t].state = "ready" /\ UNCHANGED epic
      BY <1>0, <1>2, <1>9 DEF PreparePublication, Rows
    <2>2. Put(t, q, who)
      BY <1>0, <1>9 DEF PreparePublication
    <2>3. record' = [record EXCEPT ![t] = n]
      BY <1>0, <1>2, <1>9 DEF PreparePublication
    <2>4. n.state = "ready" /\ n.status = record[t].status
      BY <1>2, <2>1 DEF Records
    <2> HIDE DEF q, n, who
    <2> QED
      BY <2>1, <2>2, <2>3, <2>4, PutTakesBack
  <1>10. ASSUME NEW b \in BOOLEAN, FinishBlocked(w, b)
         PROVE  D!Next
    <2> DEFINE q == [r EXCEPT !.state = "blocked", !.attempts = Counted(@), !.seq = 0]
               n == IF b THEN [record[t] EXCEPT !.state = "blocked", !.sub = r.sub] ELSE record[t]
    <2>1. q.state = "blocked" /\ UNCHANGED epic
      BY <1>2, <1>10 DEF FinishBlocked, Rows
    <2>2. Put(t, q, NULL) /\ record' = [record EXCEPT ![t] = n]
      BY <1>0, <1>2, <1>10 DEF FinishBlocked
    <2>3. n = record[t] \/ (n.state = "blocked" /\ n.status = record[t].status)
      BY <1>2 DEF Records
    <2> HIDE DEF q, n
    <2> QED
      BY <2>1, <2>2, <2>3, PutTakesBack
  <1> QED
    BY <1>3, <1>4, <1>5, <1>6, <1>7, <1>8, <1>9, <1>10

\* The landing, and the two ways a landed row becomes integrated.
LEMMA LandingsRefine ==
  ASSUME CoreInv, NEW w \in Handlers,
         LandHead(w) \/ PrepareTerminal(w) \/ \E b \in BOOLEAN : FinishLanded(w, b)
  PROVE  D!Next \/ UNCHANGED D!vars
  <1>0. PICK t \in Tasks : t = wf[w].task
    BY TaskOf DEF LandHead, PrepareTerminal, FinishLanded, At
  <1> DEFINE r == row[t]
             p == record[t].sub
  <1>1. r \in Rows /\ record[t] \in Records /\ row \in [Tasks -> Rows]
        /\ record \in [Tasks -> Records]
    BY Types
  <1>2. CASE LandHead(w)
    <2> DEFINE c == wf[w].head
    <2>1. c \in Commits
      <3>1. c # NULL /\ wf[w] \in Handling
        BY <1>2, ActorTypes DEF LandHead, At, CoreInv, HandlerInv
      <3> QED
        BY <3>1 DEF Handling, Nullable
    <2>2. epic' = [epic EXCEPT ![t] = @ \cup {c}] /\ UNCHANGED <<row, record>>
      BY <1>0, <1>2 DEF LandHead
    <2>3. UNCHANGED <<delivered, noted, auditing>>
      BY <2>2 DEF delivered, noted, auditing
    <2>4. D!Land(t, c)
      BY <2>2, <2>3 DEF D!Land
    <2> QED
      BY <2>1, <2>4 DEF D!Next
  <1>3. CASE PrepareTerminal(w)
    <2>1. UNCHANGED <<record, epic>>
      BY <1>3 DEF PrepareTerminal, NextSequence
    <2>2. CASE UNCHANGED <<row, counter, exact>>
      BY <2>1, <2>2, Unseen
    <2>3. CASE p.head \in epic[t] /\ Put(t, Integrated(r, p, counter + 1), w)
      <3>1. Integrated(r, p, counter + 1).state = "integrated"
            /\ Integrated(r, p, counter + 1).sub = p
        BY <1>1 DEF Integrated, Rows
      <3>2. row'[t] = Integrated(r, p, counter + 1) /\ Only(t)
        BY <1>1, <2>1, <2>3 DEF Put, Only
      <3> QED
        BY <2>1, <2>3, <3>1, <3>2, Delivers, HeadTypes
    <2> QED
      BY <1>0, <1>3, <2>2, <2>3 DEF PrepareTerminal, NextSequence
  <1>4. ASSUME NEW b \in BOOLEAN, FinishLanded(w, b)
        PROVE  D!Next
    <2> DEFINE q == [r EXCEPT !.state = "integrated", !.attempts = Counted(@),
                              !.seq = counter + 1]
               n == IF b THEN [record[t] EXCEPT !.state = "integrated", !.sub = r.sub]
                    ELSE record[t]
    <2>1. q.state = "integrated" /\ q.sub = r.sub
      BY <1>1 DEF Rows
    <2>2. Put(t, q, NULL) /\ record' = [record EXCEPT ![t] = n] /\ UNCHANGED epic
      BY <1>0, <1>1, <1>4 DEF FinishLanded, NextSequence
    <2>3. /\ n.status = record[t].status
          /\ n = record[t] \/ (n.state = "integrated" /\ n.sub = r.sub)
      BY <1>1 DEF Records
    <2>3a. n.status = record[t].status
      BY <1>1 DEF Records
    <2>4. r.sub.head \in epic[t]
      BY <1>0, <1>4
        DEF FinishLanded, At, Authorized, CoreInv, HandlerInv, Names, RecordMatches, RecordNames
    <2> HIDE DEF q, n
    <2>5. row'[t] = q /\ record'[t] = n /\ Only(t)
      BY <1>1, <2>2 DEF Put, Only
    <2> QED
      BY <2>1, <2>2, <2>3, <2>3a, <2>4, <2>5, Delivers, HeadTypes
  <1> QED
    BY <1>2, <1>3, <1>4

\* The other steps of an action write its record, or nothing that is seen.
LEMMA DeliverRefines ==
  ASSUME CoreInv, NEW w \in Handlers, Deliver(w)
  PROVE  D!Next \/ UNCHANGED D!vars
  <1>1. CASE RepairRecord(w)
    <2>0. PICK t \in Tasks : t = wf[w].task
      BY <1>1, TaskOf DEF RepairRecord, At
    <2> DEFINE r == row[t]
               n == IF record[t].state = r.state THEN record[t]
                    ELSE [record[t] EXCEPT !.state = r.state, !.sub = r.sub]
    <2>1. record[t] \in Records /\ r \in Rows /\ record \in [Tasks -> Records]
      BY Types
    <2>2. record' = [record EXCEPT ![t] = n] /\ UNCHANGED <<row, epic>>
      BY <1>1, <2>0, <2>1 DEF RepairRecord
    <2>3. \/ n = record[t]
          \/ n.state = r.state /\ n.sub = r.sub /\ n.status = record[t].status
      BY <2>1 DEF Records
    <2> HIDE DEF n
    <2>4. record'[t] = n /\ Only(t)
      BY <2>1, <2>2 DEF Only
    <2>5. CASE n = record[t]
      <3>1. UNCHANGED record
        BY <2>1, <2>2, <2>5
      <3> QED
        BY <2>2, <3>1, Unseen
    <2>6. CASE n.state = r.state /\ n.sub = r.sub /\ n.status = record[t].status
      <3>1. CASE r.state = "integrated"
        BY <2>2, <2>4, <2>6, <3>1, Notes, HeadTypes
      <3>2. CASE r.state # "integrated"
        BY <2>2, <2>4, <2>6, <3>2, TakesBack
      <3> QED
        BY <3>1, <3>2
    <2> QED
      BY <2>3, <2>5, <2>6
  <1>2. CASE ResumePublication(w)
    <2>0. PICK t \in Tasks : t = wf[w].task
      BY <1>2, TaskOf DEF ResumePublication, At
    <2> DEFINE n == [record[t] EXCEPT !.sub = row[t].sub]
    <2>1. record' = [record EXCEPT ![t] = n] /\ UNCHANGED <<row, epic>>
          /\ record[t].state = "ready"
      BY <1>2, <2>0, Types DEF ResumePublication
    <2>2. n.state = "ready" /\ n.status = record[t].status
      BY <2>1, Types DEF Records
    <2> HIDE DEF n
    <2> QED
      BY <2>1, <2>2, RecordTakesBack
  <1>3. ASSUME NEW b \in BOOLEAN, StageTerminal(w, b)
        PROVE  D!Next \/ UNCHANGED D!vars
    <2>0. PICK t \in Tasks : t = wf[w].task
      BY <1>3, TaskOf DEF StageTerminal, At
    <2>1. record' = [record EXCEPT ![t] = Staged(record[t], row[t], b)]
          /\ UNCHANGED <<row, epic>>
      BY <1>3, <2>0, Types DEF StageTerminal
    <2> QED
      BY <2>1, StagingRefines, HeadTypes
  <1>4. ASSUME \/ RecoverLanding(w) \/ PublishHead(w) \/ AuthorizePush(w) \/ AbandonAction(w)
               \/ \E b \in BOOLEAN : RunGate(w, b)
        PROVE  UNCHANGED D!vars
    <2>1. UNCHANGED store
      BY <1>4 DEF RecoverLanding, PublishHead, AuthorizePush, AbandonAction, RunGate
    <2> QED
      BY <2>1, Unseen DEF store
  <1>5. CASE \/ RecoverRow(w) \/ PrepareRebase(w) \/ AbortRebase(w) \/ CompletePublication(w)
             \/ RetireGeneration(w)
             \/ \E b \in BOOLEAN : \/ ConsumeRetry(w, b) \/ PreparePublication(w, b)
                                   \/ FinishBlocked(w, b)
    BY <1>5, WritesRefine
  <1>6. CASE LandHead(w) \/ PrepareTerminal(w) \/ \E b \in BOOLEAN : FinishLanded(w, b)
    BY <1>6, LandingsRefine
  <1> QED
    BY <1>1, <1>2, <1>3, <1>4, <1>5, <1>6 DEF Deliver

\* Every step of the handlers is a step of Delivery, or is not seen.
LEMMA NextRefines == Inv /\ [Next]_vars => [D!Next]_(D!vars)
  <1> SUFFICES ASSUME Inv, [Next]_vars PROVE D!Next \/ UNCHANGED D!vars
    OBVIOUS
  <1>0. CoreInv
    BY DEF Inv
  <1>1. ASSUME NEW t \in Tasks, Tracker(t)
        PROVE  D!Next \/ UNCHANGED D!vars
    BY <1>0, <1>1, TrackerRefines
  <1>2. ASSUME NEW t \in Tasks, NEW w \in Handlers, Observe(w, t)
        PROVE  UNCHANGED D!vars
    BY <1>2, Unseen DEF Observe, store
  <1>3. ASSUME NEW s \in Submitters, QueueSubmission(s) \/ FinishSubmission(s)
        PROVE  D!Next \/ UNCHANGED D!vars
    BY <1>0, <1>3, SubmissionRefines
  <1>4. ASSUME NEW w \in Handlers, Deliver(w)
        PROVE  D!Next \/ UNCHANGED D!vars
    BY <1>0, <1>4, DeliverRefines
  <1>5. CASE Restart
    <2>1. row' = [t \in Tasks |-> Abandoned(row[t])] /\ UNCHANGED <<record, epic>>
      BY <1>5 DEF Restart
    <2>2. \A t \in Tasks :
            (IF row'[t].state = "integrated" THEN row'[t].sub.head ELSE NULL)
              = (IF row[t].state = "integrated" THEN row[t].sub.head ELSE NULL)
      BY <1>0, <2>1, Types, AbandonedValue
    <2>3. UNCHANGED <<delivered, noted, auditing>>
      BY <2>1, <2>2 DEF delivered, noted, auditing
    <2> QED
      BY <2>1, <2>3 DEF D!vars
  <1>6. CASE ReadLandings
    BY <1>6, Unseen DEF ReadLandings, store
  <1>7. ASSUME NEW accepted \in BOOLEAN, StageLanding(accepted)
        PROVE  D!Next \/ UNCHANGED D!vars
    <2>1. PICK b \in batch : StageRow(b, accepted)
      BY <1>7 DEF StageLanding
    <2>2. b.task \in Tasks /\ UNCHANGED <<row, epic>>
      BY <1>0, <2>1, ActorTypes DEF ReplayTypeOK, StageRow
    <2>3. CASE row[b.task] = b.row
      <3>1. record' = [record EXCEPT ![b.task] = Staged(record[b.task], row[b.task], accepted)]
        BY <1>0, <2>1, <2>2, <2>3, Types DEF StageRow
      <3> QED
        BY <1>0, <2>2, <3>1, StagingRefines, HeadTypes
    <2>4. CASE row[b.task] # b.row
      <3>1. UNCHANGED record
        BY <1>0, <2>1, <2>2, <2>4, Types DEF StageRow
      <3> QED
        BY <2>2, <3>1, Unseen
    <2> QED
      BY <2>3, <2>4
  <1>8. CASE UNCHANGED vars
    BY <1>8, Unseen DEF vars
  <1> QED
    BY <1>1, <1>2, <1>3, <1>4, <1>5, <1>6, <1>7, <1>8 DEF Next

\* The initial store is one of Delivery.
LEMMA InitRefines == Init => D!Init
  <1> SUFFICES ASSUME Init PROVE D!Init
    OBVIOUS
  <1>1. Inv
    BY InitInv
  <1>2. epic \in [Tasks -> SUBSET Commits]
    BY <1>1 DEF Inv, CoreInv, HandlersTypeOK, StoreTypeOK
  <1>3. ASSUME NEW t \in Tasks
        PROVE  /\ delivered[t] \in epic[t] \cup {NULL} /\ noted[t] \in epic[t] \cup {NULL}
               /\ delivered[t] \in Commits \cup {NULL} /\ noted[t] \in Commits \cup {NULL}
    BY <1>1, <1>2, Types, AbstractValue DEF Inv, RowInv, RecordInv
  <1>4. delivered \in [Tasks -> Commits \cup {NULL}] /\ noted \in [Tasks -> Commits \cup {NULL}]
    BY <1>3 DEF delivered, noted
  <1>5. \A t \in Tasks : record[t].status # "validating"
    <2>1. CASE InitFresh
      BY <2>1 DEF InitFresh, NoRecord
    <2>2. ASSUME NEW l \in Legacy, InitLegacy(l)
          PROVE  \A t \in Tasks : record[t].status # "validating"
      BY <2>2 DEF InitLegacy
    <2> QED
      BY <2>1, <2>2 DEF Init
  <1>6. auditing = [t \in Tasks |-> FALSE]
    BY <1>5 DEF auditing
  <1>7. \A t \in Tasks : {delivered[t], noted[t]} \subseteq epic[t] \cup {NULL}
    BY <1>3
  <1> QED
    BY <1>2, <1>4, <1>6, <1>7 DEF D!Init

\* The handlers keep the promise of the queue, for every set of tasks, actions
\* and submission jobs: with any number of stale actions, crashes and replays
\* their steps are those of Delivery.
THEOREM HandlersImplementDelivery == Spec => HandlersDeliver
  <1>1. Init => D!Init
    BY InitRefines
  <1>2. Inv /\ [Next]_vars => [D!Next]_(D!vars)
    BY NextRefines
  <1> QED
    BY <1>1, <1>2, HandlersInvariance, PTL DEF Spec, HandlersDeliver, D!Spec

=============================================================================
