------------------------ MODULE IntegrationLaneProofs -----------------------
(***************************************************************************)
(* Safety of the integration lane for every set of tasks, and the          *)
(* refinement of Delivery.                                                 *)
(*                                                                         *)
(* The lane alone integrates rows, one at a time, and holds the issue      *)
(* transition lock from the queue checkpoint to the tracker write.  So a   *)
(* record is integrated only while its row is, with the same pair          *)
(* (RecordInv): a new submission takes the record back before the row, and *)
(* what a pass read before never replaces an integrated row whose record   *)
(* follows it (ViewInv), since a submission that came in between made a    *)
(* commit that the row does not name.  An item in execution carries the    *)
(* candidate of its row, and after the push one that landed (LaneInv).     *)
(***************************************************************************)
EXTENDS IntegrationLane, DeliveryMapping, TLAPS

\* A pair, or none, of a commit that was made.
Known(t, p) == p # NULL => p.head <= made[t]

RowInv(t) ==
  /\ row[t].state # "absent" => row[t].sub # NULL
  /\ Known(t, row[t].sub) /\ Known(t, row[t].cand)
  /\ row[t].pred # NULL => row[t].pred <= made[t]
  /\ row[t].state = "integrated" => row[t].cand = row[t].sub /\ row[t].sub.head \in epic[t]

\* A record that is integrated follows its row, and one that could be repaired
\* from an integrated row already names its pair.
RecordInv(t) ==
  /\ record[t].status = "ready" => record[t].sub # NULL
  /\ Known(t, record[t].sub)
  /\ record[t].state = "integrated" => row[t].state = "integrated" /\ record[t].sub = row[t].sub
  /\ /\ row[t].state = "integrated" /\ record[t].sub # NULL
     /\ record[t].sub.head \in {row[t].pred, row[t].sub.head}
     => record[t].sub = row[t].sub

ViewInv(t) ==
  view[t] # NULL =>
    /\ lane.pc = "idle"
    /\ view[t].status = "ready" => view[t].sub # NULL
    /\ Known(t, view[t].sub)
    /\ row[t].state = "integrated" /\ record[t].sub = row[t].sub => view[t].sub = row[t].sub

Building   == {"claimed", "prepared"}
Verified   == {"canonical", "gated", "pushing", "landed"}

LaneInv ==
  LET t == lane.task
      i == lane.item
  IN lane.pc # "idle" =>
       /\ t \in Tasks /\ i \in Rows /\ i.sub # NULL
       /\ Known(t, i.sub) /\ Known(t, i.cand) /\ Known(t, lane.out)
       /\ lane.pc \in Verified \cup {"prepared", "checkpointed"} => lane.out # NULL
       /\ lane.pc # "checkpointed" => row[t].state # "integrated"
       /\ lane.pc \in Building \cup Verified => row[t].cand \in {NULL, i.cand}
       /\ lane.pc \in Verified => i.cand = lane.out
       /\ lane.pc \in {"landed", "checkpointed"} => lane.out.head \in epic[t]
       /\ lane.pc = "checkpointed" =>
            row[t].state = "integrated" /\ row[t].sub = lane.out /\ record[t].sub = lane.out

Inv ==
  /\ LaneTypeOK
  /\ \A t \in Tasks : RowInv(t) /\ RecordInv(t) /\ ViewInv(t)
  /\ LaneInv

-----------------------------------------------------------------------------
(***************************************************************************)
(* What a step leaves alone.                                               *)
(***************************************************************************)

\* Commits are made and pushed, never taken back.
Grows ==
  /\ made' \in [Tasks -> 0..MaxCommit]
  /\ epic' \in [Tasks -> SUBSET Commits]
  /\ \A t \in Tasks : made[t] <= made'[t] /\ epic[t] \subseteq epic'[t]

\* A row gets another state or lease.
Restated(r, q) ==
  /\ q.sub = r.sub /\ q.cand = r.cand /\ q.pred = r.pred
  /\ \/ q.state = r.state
     \/ q.state # "integrated" /\ r.state \notin {"absent", "integrated"}

\* A row is replaced by one for pair p.
Fresh(q, p) == /\ q.state = "ready" /\ q.sub = p /\ q.cand = NULL /\ q.pred = NULL

\* NULL is no task, commit or pair, and the bounds are numbers.
LEMMA Constants ==
  /\ NULL \notin Tasks /\ NULL \notin Commits /\ NULL \notin Pairs
  /\ MaxAttempts \in Nat /\ MaxCommit \in Nat /\ MaxSeq \in Nat
  /\ 0 \in 0..MaxAttempts /\ 0 \in 0..MaxSeq
  BY QueueAssumption

\* The parts of a record, a pair and a row have their types.
LEMMA Parts ==
  /\ \A n \in Records : /\ n.sub \in Nullable(Pairs)
                        /\ n.status \in {"ready", "validating", "terminal", "open"}
                        /\ n.state \in {"none", "ready", "blocked", "integrated"}
  /\ \A p \in Pairs : p.head \in Commits /\ p.head \in Nat /\ p.moved \in BOOLEAN
  /\ \A r \in Rows : /\ r.sub \in Nullable(Pairs) /\ r.cand \in Nullable(Pairs)
                     /\ r.pred \in Nullable(Commits) /\ r.attempts \in 0..MaxAttempts
  /\ \A l \in Items : /\ l.task \in Nullable(Tasks) /\ l.item \in Nullable(Rows)
                      /\ l.out \in Nullable(Pairs) /\ l.retry \in BOOLEAN
  BY Constants DEF Records, Pairs, Rows, Commits, Nullable, Items

\* The type of the store and of what the invariant says of a task.
LEMMA Types ==
  ASSUME Inv
  PROVE  /\ row \in [Tasks -> Rows] /\ record \in [Tasks -> Records]
         /\ made \in [Tasks -> 0..MaxCommit] /\ epic \in [Tasks -> SUBSET Commits]
         /\ origin \in [Tasks -> [Commits -> 0..MaxCommit]]
         /\ newest \in [Tasks -> 0..MaxCommit] /\ counter \in 0..MaxSeq
         /\ view \in [Tasks -> Nullable(Records)] /\ lane \in Items
         /\ starting \in BOOLEAN /\ exact \in BOOLEAN
  BY DEF Inv, LaneTypeOK, StoreTypeOK

\* The parts of the invariant for a task.
LEMMA TaskParts ==
  ASSUME Inv, NEW t \in Tasks
  PROVE  RowInv(t) /\ RecordInv(t) /\ ViewInv(t)
         /\ row[t] \in Rows /\ record[t] \in Records /\ made[t] \in Nat
         /\ view[t] \in Nullable(Records) /\ epic[t] \subseteq Commits
  <1>1. RowInv(t) /\ RecordInv(t) /\ ViewInv(t)
    BY DEF Inv
  <1> QED
    BY <1>1, Types, Constants

\* A commit that was made stays made.
LEMMA KnownKept ==
  ASSUME Inv, Grows, NEW t \in Tasks, NEW p \in Nullable(Pairs), Known(t, p)
  PROVE  p # NULL => p.head <= made'[t]
  <1>1. made[t] \in Nat /\ made'[t] \in Nat /\ made[t] <= made'[t]
    BY Types, Constants DEF Grows
  <1>2. p # NULL => p.head \in Nat
    BY Parts DEF Nullable
  <1> QED
    BY <1>1, <1>2 DEF Known

\* A step that makes and pushes nothing.
LEMMA QuietGrows ==
  ASSUME Inv, UNCHANGED <<made, epic>>
  PROVE  Grows
  BY Types, Constants DEF Grows

\* A restated row keeps its invariant.
LEMMA RowRestated ==
  ASSUME Inv, Grows, NEW t \in Tasks, Restated(row[t], row'[t])
  PROVE  RowInv(t)'
  <1> DEFINE r == row[t]
             q == row'[t]
  <1>1. RowInv(t) /\ r \in Rows
    BY TaskParts
  <1>2. r.sub \in Nullable(Pairs) /\ r.cand \in Nullable(Pairs) /\ r.pred \in Nullable(Commits)
    BY <1>1, Parts
  <1>3. /\ r.sub # NULL => r.sub.head <= made'[t]
        /\ r.cand # NULL => r.cand.head <= made'[t]
    BY <1>1, <1>2, KnownKept DEF RowInv
  <1>4. r.pred # NULL => r.pred <= made'[t]
    BY <1>1, <1>2, Types, Constants DEF RowInv, Grows, Commits, Nullable
  <1>5. q.state = "integrated" => q.cand = q.sub /\ q.sub.head \in epic'[t]
    BY <1>1 DEF RowInv, Restated, Grows
  <1>6. q.state # "absent" => q.sub # NULL
    BY <1>1 DEF RowInv, Restated
  <1>7. q.sub = r.sub /\ q.cand = r.cand /\ q.pred = r.pred
    BY DEF Restated
  <1> QED
    BY <1>3, <1>4, <1>5, <1>6, <1>7 DEF RowInv, Known

\* A fresh row for a commit that was made has the invariant.
LEMMA RowFresh ==
  ASSUME NEW t \in Tasks, NEW p, p # NULL, p.head <= made'[t], Fresh(row'[t], p)
  PROVE  RowInv(t)'
  BY DEF RowInv, Known, Fresh

\* A record whose submission and state stay is good beside a restated row.
LEMMA RecordRestated ==
  ASSUME Inv, Grows, NEW t \in Tasks, Restated(row[t], row'[t]),
         record'[t].sub = record[t].sub, record'[t].state = record[t].state,
         record'[t].status \in {record[t].status, "open", "terminal"}
  PROVE  RecordInv(t)'
  <1>1. RecordInv(t) /\ record[t] \in Records
    BY TaskParts
  <1>2. record[t].sub # NULL => record[t].sub.head <= made'[t]
    BY <1>1, Parts, KnownKept DEF RecordInv
  <1>3. record'[t].status = "ready" => record'[t].sub # NULL
    BY <1>1 DEF RecordInv
  <1>4. row'[t].sub = row[t].sub /\ row'[t].pred = row[t].pred
        /\ (row'[t].state = "integrated" <=> row[t].state = "integrated")
    BY DEF Restated
  <1>5. /\ record'[t].state = "integrated" =>
             row'[t].state = "integrated" /\ record'[t].sub = row'[t].sub
        /\ /\ row'[t].state = "integrated" /\ record'[t].sub # NULL
           /\ record'[t].sub.head \in {row'[t].pred, row'[t].sub.head}
           => record'[t].sub = row'[t].sub
    BY <1>1, <1>4 DEF RecordInv
  <1> QED
    BY <1>2, <1>3, <1>5 DEF RecordInv, Known

\* A record that is not integrated is good beside a row that is not.
LEMMA RecordOpen ==
  ASSUME NEW t \in Tasks, record'[t].sub # NULL \/ record'[t].status # "ready",
         Known(t, record[t].sub)', record'[t].state # "integrated",
         row'[t].state # "integrated"
  PROVE  RecordInv(t)'
  BY DEF RecordInv, Known

\* What a pass read stays true of a restated row while no submission comes.
LEMMA ViewRestated ==
  ASSUME Inv, Grows, NEW t \in Tasks, Restated(row[t], row'[t]),
         record'[t].sub = record[t].sub,
         view'[t] \in {view[t], NULL}, view'[t] # NULL => lane'.pc = "idle"
  PROVE  ViewInv(t)'
  <1>1. CASE view'[t] = NULL
    BY <1>1 DEF ViewInv
  <1>2. CASE view'[t] # NULL
    <2>1. view'[t] = view[t] /\ lane'.pc = "idle" /\ view[t] \in Records /\ ViewInv(t)
      BY <1>2, TaskParts DEF Nullable
    <2>2. view[t].sub # NULL => view[t].sub.head <= made'[t]
      BY <1>2, <2>1, Parts, KnownKept DEF ViewInv
    <2> QED
      BY <1>2, <2>1, <2>2 DEF ViewInv, Known, Restated
  <1> QED
    BY <1>1, <1>2

\* A task whose row is restated, beside a record that is only moved.
LEMMA TaskRestated ==
  ASSUME Inv, Grows, NEW t \in Tasks, Restated(row[t], row'[t]),
         record'[t].sub = record[t].sub, record'[t].state = record[t].state,
         record'[t].status \in {record[t].status, "open", "terminal"},
         view'[t] \in {view[t], NULL}, view'[t] # NULL => lane'.pc = "idle"
  PROVE  RowInv(t)' /\ RecordInv(t)' /\ ViewInv(t)'
  BY RowRestated, RecordRestated, ViewRestated

\* Tasks other than t.
Others(t) ==
  \A u \in Tasks : u # t => row'[u] = row[u] /\ record'[u] = record[u] /\ view'[u] = view[u]

\* A step on one task keeps the invariant if it keeps it for that task.
LEMMA OneTask ==
  ASSUME Inv, Grows, NEW t \in Tasks, Others(t), lane.pc = "idle" => lane'.pc = "idle",
         RowInv(t)', RecordInv(t)', ViewInv(t)', LaneInv', LaneTypeOK'
  PROVE  Inv'
  <1>1. ASSUME NEW u \in Tasks
        PROVE  RowInv(u)' /\ RecordInv(u)' /\ ViewInv(u)'
    <2>1. CASE u = t
      BY <2>1
    <2>2. CASE u # t
      <3>1. row'[u] = row[u] /\ record'[u] = record[u] /\ view'[u] = view[u]
        BY <2>2 DEF Others
      <3>2. view'[u] # NULL => lane'.pc = "idle"
        BY <3>1, TaskParts DEF ViewInv
      <3> QED
        BY <3>1, <3>2, TaskRestated DEF Restated
    <2> QED
      BY <2>1, <2>2
  <1> QED
    BY <1>1 DEF Inv

\* The item in execution is not disturbed by a step of somebody else.
LEMMA LaneKept ==
  ASSUME Inv, Grows, UNCHANGED lane,
         lane.pc # "idle" => LET t == lane.task IN
           /\ row'[t].cand \in {NULL, row[t].cand}
           /\ row'[t].state = "integrated" => row[t].state = "integrated"
           /\ lane.pc = "checkpointed" =>
                /\ row'[t].state = row[t].state /\ row'[t].sub = row[t].sub
                /\ record'[t].sub = record[t].sub
  PROVE  LaneInv'
  <1>1. CASE lane.pc = "idle"
    BY <1>1 DEF LaneInv
  <1>2. CASE lane.pc # "idle"
    <2>1. PICK t \in Tasks : t = lane.task
      BY <1>2 DEF Inv, LaneInv
    <2>2. LaneInv /\ lane \in Items
      BY Types DEF Inv
    <2>3. /\ lane.item \in Rows /\ lane.out \in Nullable(Pairs)
          /\ lane.item.sub \in Nullable(Pairs) /\ lane.item.cand \in Nullable(Pairs)
      BY <1>2, <2>2, Parts DEF LaneInv, Nullable
    <2>4. Known(t, lane.item.sub)' /\ Known(t, lane.item.cand)' /\ Known(t, lane.out)'
      <3>1. Known(t, lane.item.sub) /\ Known(t, lane.item.cand) /\ Known(t, lane.out)
        BY <1>2, <2>1, <2>2 DEF LaneInv
      <3> QED
        BY <2>3, <3>1, KnownKept DEF Known
    <2>5. epic[t] \subseteq epic'[t]
      BY DEF Grows
    <2> QED
      BY <1>2, <2>1, <2>2, <2>4, <2>5 DEF LaneInv, Known, Building, Verified
  <1> QED
    BY <1>1, <1>2


-----------------------------------------------------------------------------
(***************************************************************************)
(* What the transactions make of a row.                                    *)
(***************************************************************************)

\* Recovery, cancellation and expiry restate a row.
LEMMA RowValues ==
  ASSUME NEW r \in Rows
  PROVE  /\ Recovered(r) \in Rows /\ Restated(r, Recovered(r))
         /\ Abandoned(r) \in Rows /\ Restated(r, Abandoned(r))
         /\ Cancelled(r) \in Rows
         /\ r.state \in {"ready", "integrating", "blocked"} => Restated(r, Cancelled(r))
  <1>1. Released(r) \in Rows /\ (r.state = "integrating" => Restated(r, Released(r)))
    BY DEF Released, Rows, Restated
  <1>2. Restated(r, r)
    BY DEF Restated
  <1>3. Cancelled(r) \in Rows
    BY DEF Cancelled, Rows
  <1>4. r.state \in {"ready", "integrating", "blocked"} => Restated(r, Cancelled(r))
    BY DEF Cancelled, Rows, Restated
  <1> QED
    BY <1>1, <1>2, <1>3, <1>4 DEF Recovered, Abandoned

\* enqueue leaves a row alone or replaces it.
LEMMA EnqueuedValue ==
  ASSUME NEW r \in Rows, NEW p \in Pairs,
         NEW explicit \in BOOLEAN, NEW rearm \in BOOLEAN, NEW preserve \in BOOLEAN
  PROVE  LET q == Enqueued(r, p, explicit, rearm, preserve)
         IN /\ q \in Rows
            /\ q = r \/ Fresh(q, p)
            /\ r.state = "integrated" /\ r.cand = p /\ p # NULL /\ ~rearm => q = r
  <1> DEFINE a == IF preserve THEN r.attempts ELSE 0
             q == Enqueued(r, p, explicit, rearm, preserve)
             f == [NewRow(p) EXCEPT !.attempts = a]
  <1>1. a \in 0..MaxAttempts
    BY Parts, Constants
  <1>2. f \in Rows /\ Fresh(f, p)
    <2>1. NoRow \in Rows /\ NoRow.cand = NULL /\ NoRow.pred = NULL
      BY Constants DEF NoRow, Rows, Nullable
    <2>2. /\ NewRow(p) \in Rows /\ NewRow(p).state = "ready" /\ NewRow(p).sub = p
          /\ NewRow(p).cand = NULL /\ NewRow(p).pred = NULL
      BY <2>1 DEF NewRow, Rows, Nullable
    <2> QED
      BY <1>1, <2>2 DEF Rows, Fresh
  <1>3. q = r \/ q = f
    BY DEF Enqueued
  <1>4. ASSUME r.state = "integrated", r.cand = p, p # NULL, ~rearm
        PROVE  q = r
    BY <1>4 DEF Enqueued, Effective, Revives
  <1> HIDE DEF q, f
  <1> QED
    BY <1>2, <1>3, <1>4 DEF q

\* A write of one row.
LEMMA PutStep ==
  ASSUME Inv, NEW t \in Tasks, NEW r \in Rows, Put(t, r)
  PROVE  /\ row' \in [Tasks -> Rows] /\ row'[t] = r /\ exact' \in BOOLEAN
         /\ \A u \in Tasks : u # t => row'[u] = row[u]
  BY Types DEF Put

\* What enqueue does to the row of a task.
LEMMA EnqueueStep ==
  ASSUME Inv, NEW t \in Tasks, NEW p \in Pairs,
         NEW explicit \in BOOLEAN, NEW rearm \in BOOLEAN, NEW preserve \in BOOLEAN,
         Enqueue(t, p, explicit, rearm, preserve)
  PROVE  /\ row' \in [Tasks -> Rows] /\ exact' \in BOOLEAN
         /\ \A u \in Tasks : u # t => row'[u] = row[u]
         /\ row'[t] = row[t] \/ Fresh(row'[t], p)
         /\ row[t].state = "integrated" /\ row[t].cand = p /\ ~rearm => row'[t] = row[t]
  <1> DEFINE q == Enqueued(row[t], p, explicit, rearm, preserve)
  <1>1. row[t] \in Rows /\ p # NULL
    BY TaskParts, Constants
  <1>2. /\ q \in Rows /\ (q = row[t] \/ Fresh(q, p))
        /\ row[t].state = "integrated" /\ row[t].cand = p /\ ~rearm => q = row[t]
    BY <1>1, EnqueuedValue
  <1>3. (q = row[t] /\ UNCHANGED <<row, exact>>) \/ (q # row[t] /\ Put(t, q))
    BY DEF Enqueue
  <1> HIDE DEF q
  <1>4. CASE q = row[t] /\ UNCHANGED <<row, exact>>
    BY <1>4, Types
  <1>5. CASE q # row[t] /\ Put(t, q)
    BY <1>2, <1>5, PutStep
  <1> QED
    BY <1>3, <1>4, <1>5

\* What cancel does to the row of a task.
LEMMA CancelStep ==
  ASSUME Inv, NEW t \in Tasks, Cancel(t)
  PROVE  /\ row' \in [Tasks -> Rows] /\ exact' \in BOOLEAN
         /\ \A u \in Tasks : u # t => row'[u] = row[u]
         /\ Restated(row[t], row'[t])
  <1>1. row[t] \in Rows /\ Cancelled(row[t]) \in Rows
    BY TaskParts, RowValues
  <1>2. CASE row[t].state \in {"ready", "integrating", "blocked"}
    <2>1. Put(t, Cancelled(row[t])) /\ Restated(row[t], Cancelled(row[t]))
      BY <1>1, <1>2, RowValues DEF Cancel
    <2> QED
      BY <1>1, <2>1, PutStep
  <1>3. CASE row[t].state \notin {"ready", "integrating", "blocked"}
    BY <1>3, Types DEF Cancel, Restated
  <1> QED
    BY <1>2, <1>3

\* What fail does to the row of the item.
LEMMA FailStep ==
  ASSUME Inv, NEW t \in Tasks, t = lane.task, NEW state \in {"ready", "blocked"}, FailRow(state)
  PROVE  /\ row' \in [Tasks -> Rows] /\ exact' \in BOOLEAN
         /\ \A u \in Tasks : u # t => row'[u] = row[u]
         /\ Restated(row[t], row'[t])
  <1> DEFINE q == [row[t] EXCEPT !.state = state, !.owner = NULL, !.expired = FALSE, !.seq = 0]
  <1>1. row[t] \in Rows
    BY TaskParts
  <1>2. q \in Rows /\ (row[t].state = "integrating" => Restated(row[t], q))
    BY <1>1, Constants DEF Rows, Restated
  <1>3. (Put(t, q) /\ row[t].state = "integrating") \/ UNCHANGED <<row, exact>>
    BY DEF FailRow
  <1> HIDE DEF q
  <1>4. CASE Put(t, q) /\ row[t].state = "integrating"
    BY <1>2, <1>4, PutStep
  <1>5. CASE UNCHANGED <<row, exact>>
    BY <1>5, Types DEF Restated
  <1> QED
    BY <1>3, <1>4, <1>5

-----------------------------------------------------------------------------
(***************************************************************************)
(* Steps beside the item in execution.                                     *)
(***************************************************************************)

\* A step on one task that restates its row at most, beside the lane.
LEMMA RestateBeside ==
  ASSUME Inv, NEW t \in Tasks, UNCHANGED <<counter, made, origin, newest, epic, lane>>,
         row' \in [Tasks -> Rows], exact' \in BOOLEAN, starting' \in BOOLEAN,
         record' \in [Tasks -> Records], view' \in [Tasks -> Nullable(Records)],
         Others(t), Restated(row[t], row'[t]),
         record'[t].sub = record[t].sub, record'[t].state = record[t].state,
         record'[t].status \in {record[t].status, "open", "terminal"},
         view'[t] \in {view[t], NULL}
  PROVE  Inv'
  <1>1. Grows
    BY QuietGrows
  <1>2. LaneTypeOK'
    BY Types DEF LaneTypeOK, StoreTypeOK
  <1>3. view'[t] # NULL => lane'.pc = "idle"
    BY TaskParts DEF ViewInv
  <1>4. RowInv(t)' /\ RecordInv(t)' /\ ViewInv(t)'
    BY <1>1, <1>3, TaskRestated
  <1>5. LaneInv'
    <2>1. ASSUME NEW u \in Tasks
          PROVE  /\ row'[u].cand = row[u].cand /\ row'[u].sub = row[u].sub
                 /\ row'[u].state = "integrated" <=> row[u].state = "integrated"
                 /\ record'[u].sub = record[u].sub
      BY DEF Others, Restated
    <2>2. lane.pc = "checkpointed" => row[lane.task].state = "integrated" /\ lane.task \in Tasks
      BY DEF Inv, LaneInv
    <2>3. lane.pc # "idle" => lane.task \in Tasks
      BY DEF Inv, LaneInv
    <2> QED
      BY <1>1, <2>1, <2>2, <2>3, LaneKept
  <1> QED
    BY <1>1, <1>2, <1>4, <1>5, OneTask


\* Somebody else moves the task.
LEMMA MoveTaskKeeps ==
  ASSUME Inv, NEW t \in Tasks, NEW status \in {"open", "terminal"}, MoveTask(t, status)
  PROVE  Inv'
  <1> DEFINE n == [record[t] EXCEPT !.status = status]
  <1>1. n \in Records /\ n.sub = record[t].sub /\ n.state = record[t].state /\ n.status = status
    BY TaskParts DEF Records
  <1>2. record' = [record EXCEPT ![t] = n]
        /\ UNCHANGED <<row, counter, made, origin, newest, epic, view, lane, exact, starting>>
    BY Types DEF MoveTask
  <1> HIDE DEF n
  <1>3. record' \in [Tasks -> Records] /\ record'[t] = n /\ Others(t)
    BY <1>1, <1>2, Types DEF Others
  <1>4. Restated(row[t], row'[t])
    BY <1>2 DEF Restated
  <1> QED
    BY <1>1, <1>2, <1>3, <1>4, Types, RestateBeside

\* A pass reads the tracker.
LEMMA ScanTrackerKeeps ==
  ASSUME Inv, NEW t \in Tasks, ScanTracker(t)
  PROVE  Inv'
  <1>1. /\ lane.pc = "idle" /\ view' = [view EXCEPT ![t] = record[t]]
        /\ UNCHANGED <<row, counter, record, made, origin, newest, epic, lane, exact, starting>>
    BY DEF ScanTracker, store
  <1>2. Grows
    BY <1>1, QuietGrows
  <1>3. view' \in [Tasks -> Nullable(Records)] /\ view'[t] = record[t] /\ Others(t)
    BY <1>1, Types DEF Others, Nullable
  <1>4. LaneTypeOK'
    BY <1>1, <1>3, Types DEF LaneTypeOK, StoreTypeOK
  <1>5. RowInv(t)' /\ RecordInv(t)'
    BY <1>1, <1>2, RowRestated, RecordRestated DEF Restated
  <1>6. ViewInv(t)'
    BY <1>1, <1>3, <1>5 DEF ViewInv, RecordInv
  <1>7. LaneInv'
    BY <1>1 DEF LaneInv
  <1> QED
    BY <1>1, <1>2, <1>3, <1>4, <1>5, <1>6, <1>7, OneTask

\* A pass mirrors what it read: an integrated row whose record followed it is
\* the one that was read.
LEMMA SyncSubmissionKeeps ==
  ASSUME Inv, NEW t \in Tasks, SyncSubmission(t)
  PROVE  Inv'
  <1> DEFINE p == view[t].sub
  <1>1. /\ view[t] # NULL /\ view[t].status = "ready" /\ view' = [view EXCEPT ![t] = NULL]
        /\ UNCHANGED <<counter, record, made, origin, newest, epic, lane, starting>>
    BY DEF SyncSubmission
  <1>2. view[t] \in Records /\ ViewInv(t) /\ lane.pc = "idle"
    BY <1>1, TaskParts DEF ViewInv, Nullable
  <1>3. p \in Pairs /\ p # NULL /\ p.head <= made[t]
    BY <1>1, <1>2, Parts, Constants DEF ViewInv, Known, Nullable
  <1>4. /\ row' \in [Tasks -> Rows] /\ exact' \in BOOLEAN
        /\ \A u \in Tasks : u # t => row'[u] = row[u]
        /\ row'[t] = row[t] \/ Fresh(row'[t], p)
        /\ row[t].state = "integrated" /\ row[t].cand = p => row'[t] = row[t]
    <2> DEFINE retry == view[t].state = "ready"
    <2>1. UNCHANGED <<row, exact>> \/ Enqueue(t, p, retry, FALSE, retry)
      BY DEF SyncSubmission
    <2>2. retry \in BOOLEAN
      OBVIOUS
    <2>3. CASE UNCHANGED <<row, exact>>
      BY <2>3, Types
    <2> HIDE DEF retry, p
    <2>4. CASE Enqueue(t, p, retry, FALSE, retry)
      BY <1>3, <2>2, <2>4, EnqueueStep
    <2> QED
      BY <2>1, <2>3, <2>4
  <1>5. view' \in [Tasks -> Nullable(Records)] /\ view'[t] = NULL /\ Others(t)
    BY <1>1, <1>4, Types DEF Others, Nullable
  <1>6. CASE row'[t] = row[t]
    <2>1. Restated(row[t], row'[t])
      BY <1>6 DEF Restated
    <2> QED
      BY <1>1, <1>4, <1>5, <2>1, Types, RestateBeside
  <1>7. CASE Fresh(row'[t], p) /\ row'[t] # row[t]
    <2>1. Grows
      BY <1>1, QuietGrows
    <2>2. RowInv(t) /\ RecordInv(t)
      BY TaskParts
    <2>3. record[t].state # "integrated"
      BY <1>1, <1>2, <1>4, <1>7, <2>2 DEF RowInv, RecordInv, ViewInv
    <2>4. RowInv(t)'
      BY <1>1, <1>3, <1>7, RowFresh
    <2>5. RecordInv(t)'
      BY <1>1, <1>7, <2>2, <2>3, RecordOpen DEF RecordInv, Known, Fresh
    <2>6. ViewInv(t)' /\ LaneInv'
      BY <1>1, <1>2, <1>5 DEF ViewInv, LaneInv
    <2>7. LaneTypeOK'
      BY <1>1, <1>4, <1>5, Types DEF LaneTypeOK, StoreTypeOK
    <2> QED
      BY <1>1, <1>5, <2>1, <2>4, <2>5, <2>6, <2>7, OneTask
  <1> QED
    BY <1>4, <1>6, <1>7

\* A pass retires the row of a task that left the lane.
LEMMA RetireInactiveKeeps ==
  ASSUME Inv, NEW t \in Tasks, RetireInactive(t)
  PROVE  Inv'
  <1>1. /\ view' = [view EXCEPT ![t] = NULL]
        /\ UNCHANGED <<counter, record, made, origin, newest, epic, lane, starting>>
        /\ Cancel(t) \/ UNCHANGED <<row, exact>>
    BY DEF RetireInactive
  <1>2. /\ row' \in [Tasks -> Rows] /\ exact' \in BOOLEAN
        /\ \A u \in Tasks : u # t => row'[u] = row[u]
        /\ Restated(row[t], row'[t])
    <2>1. CASE Cancel(t)
      BY <2>1, CancelStep
    <2>2. CASE UNCHANGED <<row, exact>>
      BY <2>2, Types DEF Restated
    <2> QED
      BY <1>1, <2>1, <2>2
  <1>3. view' \in [Tasks -> Nullable(Records)] /\ view'[t] = NULL /\ Others(t)
    BY <1>1, <1>2, Types DEF Others, Nullable
  <1> QED
    BY <1>1, <1>2, <1>3, Types, RestateBeside

\* A row that cannot be proved to have landed is blocked.
LEMMA BlockPreflightKeeps ==
  ASSUME Inv, NEW t \in Tasks, BlockPreflight(t)
  PROVE  Inv'
  <1> DEFINE q == [row[t] EXCEPT !.state = "blocked", !.owner = NULL, !.expired = FALSE]
  <1>1. q \in Rows /\ Restated(row[t], q)
    BY TaskParts DEF Rows, Restated, BlockPreflight
  <1>2. Put(t, q) /\ UNCHANGED <<counter, record, made, origin, newest, epic, view, lane, starting>>
    BY DEF BlockPreflight
  <1> HIDE DEF q
  <1>3. /\ row' \in [Tasks -> Rows] /\ row'[t] = q /\ exact' \in BOOLEAN /\ Others(t)
    BY <1>1, <1>2, PutStep DEF Others
  <1> QED
    BY <1>1, <1>2, <1>3, Types, RestateBeside

\* A lease runs out.
LEMMA LeaseExpiresKeeps ==
  ASSUME Inv, NEW t \in Tasks, LeaseExpires(t)
  PROVE  Inv'
  <1> DEFINE q == [row[t] EXCEPT !.expired = TRUE]
  <1>1. q \in Rows /\ Restated(row[t], q)
    BY TaskParts DEF Rows, Restated
  <1>2. row' = [row EXCEPT ![t] = q]
        /\ UNCHANGED <<counter, record, made, origin, newest, epic, view, lane, exact, starting>>
    BY Types DEF LeaseExpires
  <1> HIDE DEF q
  <1>3. row' \in [Tasks -> Rows] /\ row'[t] = q /\ Others(t)
    BY <1>1, <1>2, Types DEF Others
  <1> QED
    BY <1>1, <1>2, <1>3, Types, RestateBeside

\* The replay repairs a record that already names the pair of its row.
LEMMA StageLandingKeeps ==
  ASSUME Inv, NEW t \in Tasks, NEW accepted \in BOOLEAN, StageLanding(t, accepted)
  PROVE  Inv'
  <1> DEFINE n == Staged(record[t], row[t], accepted)
  <1>1. /\ row[t].state = "integrated" /\ ~Locked(t)
        /\ record' = [record EXCEPT ![t] = n]
        /\ UNCHANGED <<row, counter, made, origin, newest, epic, view, lane, exact, starting>>
    BY Types DEF StageLanding
  <1>2. /\ record[t] \in Records /\ RecordInv(t) /\ RowInv(t)
        /\ row[t] \in Rows /\ row[t].sub # NULL
    BY <1>1, TaskParts DEF RowInv
  <1>3. LET m == Repaired(record[t], row[t])
        IN /\ m \in Records /\ m.sub = record[t].sub /\ m.status = record[t].status
           /\ m.state = "integrated" => m.sub = row[t].sub
    BY <1>1, <1>2, Parts DEF Repaired, QueueFirstGap, Records, RecordInv
  <1>4. /\ n \in Records /\ n.sub = record[t].sub
        /\ n.state = "integrated" => n.sub = row[t].sub
        /\ n.status \in {record[t].status, "validating"}
    BY <1>2, <1>3 DEF Staged, Records, RecordInv
  <1> HIDE DEF n
  <1>5. record' \in [Tasks -> Records] /\ record'[t] = n /\ Others(t)
    BY <1>1, <1>4, Types DEF Others
  <1>6. Grows /\ Restated(row[t], row'[t])
    BY <1>1, QuietGrows DEF Restated
  <1>7. RowInv(t)' /\ ViewInv(t)'
    <2>1. view'[t] # NULL => lane'.pc = "idle"
      BY <1>1, TaskParts DEF ViewInv
    <2> QED
      BY <1>1, <1>4, <1>5, <1>6, <2>1, RowRestated, ViewRestated
  <1>8. RecordInv(t)'
    BY <1>1, <1>2, <1>4, <1>5 DEF RecordInv, Known
  <1>9. LaneInv'
    <2>1. lane.pc # "idle" => lane.task \in Tasks
      BY DEF Inv, LaneInv
    <2>2. \A u \in Tasks : record'[u].sub = record[u].sub
      BY <1>4, <1>5 DEF Others
    <2> QED
      BY <1>1, <1>6, <2>1, <2>2, LaneKept
  <1>10. LaneTypeOK'
    BY <1>1, <1>5, Types DEF LaneTypeOK, StoreTypeOK
  <1> QED
    BY <1>1, <1>5, <1>6, <1>7, <1>8, <1>9, <1>10, OneTask


\* A submission takes the record back, and names either what the record named
\* or a commit that is new.
LEMMA SubmitKeeps ==
  ASSUME Inv, Grows, NEW t \in Tasks, NEW p \in Pairs, NEW queued \in BOOLEAN,
         Submit(t, p, queued), p.head <= made'[t],
         origin' \in [Tasks -> [Commits -> 0..MaxCommit]], newest' \in [Tasks -> 0..MaxCommit],
         p = record[t].sub \/ p.head > made[t]
  PROVE  Inv'
  <1> DEFINE n == [status |-> "ready", sub |-> p, state |-> "ready"]
  <1>1. /\ ~Locked(t) /\ record' = [record EXCEPT ![t] = n]
        /\ UNCHANGED <<counter, epic, view, lane, starting>>
        /\ Enqueue(t, p, TRUE, TRUE, FALSE) \/ UNCHANGED <<row, exact>>
    BY DEF Submit
  <1>2. /\ row' \in [Tasks -> Rows] /\ exact' \in BOOLEAN
        /\ \A u \in Tasks : u # t => row'[u] = row[u]
        /\ row'[t] = row[t] \/ Fresh(row'[t], p)
    <2>1. CASE Enqueue(t, p, TRUE, TRUE, FALSE)
      BY <2>1, EnqueueStep
    <2>2. CASE UNCHANGED <<row, exact>>
      BY <2>2, Types
    <2> QED
      BY <1>1, <2>1, <2>2
  <1>3. n \in Records /\ p # NULL
    BY Constants DEF Records, Nullable
  <1>4. /\ record' \in [Tasks -> Records] /\ Others(t)
        /\ record'[t].sub = p /\ record'[t].state = "ready" /\ record'[t].status = "ready"
    BY <1>1, <1>2, <1>3, Types DEF Others
  <1>5. RowInv(t) /\ RecordInv(t) /\ ViewInv(t) /\ row[t] \in Rows /\ made[t] \in Nat
    BY TaskParts
  <1>6. RowInv(t)'
    BY <1>2, <1>3, RowFresh, RowRestated DEF Restated
  <1>7. row'[t].state = "integrated" => row'[t] = row[t]
    BY <1>2 DEF Fresh
  <1>8. row[t].state = "integrated" /\ p.head \in {row[t].pred, row[t].sub.head} => p = row[t].sub
    <2>1. CASE p = record[t].sub
      BY <1>3, <1>5, <2>1 DEF RecordInv
    <2>2. CASE p.head > made[t]
      <3>1. p.head \in Nat /\ p.head \in Commits
        BY Parts
      <3>2. row[t].pred # NULL => row[t].pred \in Nat /\ row[t].pred <= made[t]
        BY <1>5, Parts, Constants DEF RowInv, Nullable, Commits
      <3>3. row[t].state = "integrated" => row[t].sub.head \in Nat /\ row[t].sub.head <= made[t]
        BY <1>5, Parts DEF RowInv, Known, Nullable
      <3> QED
        BY <1>5, <2>2, <3>1, <3>2, <3>3, Constants
    <2> QED
      BY <2>1, <2>2
  <1>9. RecordInv(t)'
    BY <1>3, <1>4, <1>7, <1>8 DEF RecordInv, Known
  <1>10. ViewInv(t)'
    <2> SUFFICES ASSUME view[t] # NULL
                 PROVE  ViewInv(t)'
      BY <1>1 DEF ViewInv
    <2>1. view[t] \in Records
      BY TaskParts DEF Nullable
    <2>2. view[t].sub # NULL => view[t].sub.head <= made'[t]
      BY <1>5, <2>1, Parts, KnownKept DEF ViewInv
    <2>3. row[t].state = "integrated" /\ p = row[t].sub => record[t].sub = row[t].sub
      <3>1. CASE p = record[t].sub
        BY <3>1
      <3>2. CASE p.head > made[t]
        <4>1. row[t].state = "integrated" => row[t].sub.head \in Nat /\ row[t].sub.head <= made[t]
          BY <1>5, Parts DEF RowInv, Known, Nullable
        <4> QED
          BY <1>5, <3>2, <4>1
      <3> QED
        BY <3>1, <3>2
    <2> QED
      BY <1>1, <1>4, <1>5, <1>7, <2>2, <2>3 DEF ViewInv, Known
  <1>11. LaneInv'
    <2>1. lane.pc # "idle" => lane.task \in Tasks
      BY DEF Inv, LaneInv
    <2>2. \A u \in Tasks : row'[u].cand \in {NULL, row[u].cand}
                           /\ (row'[u].state = "integrated" => row'[u] = row[u])
      BY <1>2, <1>7 DEF Fresh
    <2>3. lane.pc = "checkpointed" => lane.task # t
      BY <1>1 DEF Locked
    <2>4. \A u \in Tasks : u # t => row'[u] = row[u] /\ record'[u] = record[u]
      BY <1>4 DEF Others
    <2> QED
      BY <1>1, <2>1, <2>2, <2>3, <2>4, LaneKept
  <1>12. LaneTypeOK'
    BY <1>1, <1>2, <1>4, Types DEF LaneTypeOK, StoreTypeOK, Grows
  <1> QED
    BY <1>1, <1>4, <1>6, <1>9, <1>10, <1>11, <1>12, OneTask

\* A commit is made for a submission.
LEMMA MakeStep ==
  ASSUME Inv, NEW t \in Tasks, NEW c \in 0..MaxCommit, Make(t, c), UNCHANGED epic
  PROVE  /\ Grows /\ made'[t] = made[t] + 1 /\ made[t] + 1 \in Commits
         /\ origin' \in [Tasks -> [Commits -> 0..MaxCommit]]
  <1>1. made[t] \in 0..MaxCommit /\ made[t] < MaxCommit
    BY Types DEF Make
  <1>2. made[t] + 1 \in Commits /\ made[t] + 1 \in 0..MaxCommit
    BY <1>1, Constants DEF Commits
  <1>3. made' = [made EXCEPT ![t] = made[t] + 1] /\ made' \in [Tasks -> 0..MaxCommit]
    BY <1>2, Types DEF Make
  <1>4. \A u \in Tasks : made[u] <= made'[u] /\ epic[u] \subseteq epic'[u]
    BY <1>1, <1>3, Types, Constants
  <1>5. origin' \in [Tasks -> [Commits -> 0..MaxCommit]]
    BY <1>2, Types DEF Make
  <1> QED
    BY <1>2, <1>3, <1>4, <1>5, Types DEF Grows

\* A new submission.
LEMMA SubmitNewKeeps ==
  ASSUME Inv, NEW t \in Tasks, NEW queued \in BOOLEAN, SubmitNew(t, queued)
  PROVE  Inv'
  <1> DEFINE c == made[t] + 1
             p == [head |-> c, moved |-> FALSE]
  <1>1. Make(t, c) /\ newest' = [newest EXCEPT ![t] = c] /\ Submit(t, p, queued)
    BY DEF SubmitNew
  <1>2. UNCHANGED epic
    BY <1>1 DEF Submit
  <1>3. c \in 0..MaxCommit /\ c > made[t]
    BY <1>1, Types, Constants DEF Make
  <1>4. /\ Grows /\ made'[t] = c /\ c \in Commits
        /\ origin' \in [Tasks -> [Commits -> 0..MaxCommit]]
    BY <1>1, <1>2, <1>3, MakeStep
  <1>5. p \in Pairs /\ p.head = c
    BY <1>4 DEF Pairs
  <1>6. newest' \in [Tasks -> 0..MaxCommit]
    BY <1>1, <1>3, Types
  <1>7. c <= made'[t]
    BY <1>3, <1>4, Constants
  <1> HIDE DEF p, c
  <1> QED
    BY <1>1, <1>3, <1>4, <1>5, <1>6, <1>7, SubmitKeeps

\* The same submission again.
LEMMA SubmitAgainKeeps ==
  ASSUME Inv, NEW t \in Tasks, NEW queued \in BOOLEAN, SubmitAgain(t, queued)
  PROVE  Inv'
  <1>1. /\ record[t].sub # NULL /\ Submit(t, record[t].sub, queued)
        /\ UNCHANGED <<made, origin, newest>>
    BY DEF SubmitAgain
  <1>2. Grows
    BY <1>1, QuietGrows DEF Submit
  <1>3. record[t].sub \in Pairs /\ record[t].sub.head <= made'[t]
    BY <1>1, TaskParts, Parts DEF Nullable, RecordInv, Known
  <1> QED
    BY <1>1, <1>2, <1>3, Types, SubmitKeeps

-----------------------------------------------------------------------------
(***************************************************************************)
(* Steps that sweep the rows of every task.                                *)
(***************************************************************************)

\* Rows that are only restated, while the passes and the item go on or end.
LEMMA SweepKeeps ==
  ASSUME Inv, UNCHANGED <<counter, record, made, origin, newest, epic>>,
         row' \in [Tasks -> Rows], exact' \in BOOLEAN, starting' \in BOOLEAN,
         \A t \in Tasks : Restated(row[t], row'[t]),
         \/ UNCHANGED <<view, lane>>
         \/ view' = [t \in Tasks |-> NULL] /\ lane' = IdleLane
  PROVE  Inv'
  <1>1. Grows
    BY QuietGrows
  <1>2. ASSUME NEW t \in Tasks
        PROVE  RowInv(t)' /\ RecordInv(t)' /\ ViewInv(t)'
    <2>1. view'[t] \in {view[t], NULL}
      OBVIOUS
    <2>2. view'[t] # NULL => lane'.pc = "idle"
      BY TaskParts DEF ViewInv
    <2> QED
      BY <1>1, <2>1, <2>2, TaskRestated
  <1>3. LaneInv'
    <2>1. CASE UNCHANGED <<view, lane>>
      <3>1. lane.pc # "idle" => lane.task \in Tasks
        BY DEF Inv, LaneInv
      <3>2. lane.pc = "checkpointed" => row[lane.task].state = "integrated"
        BY DEF Inv, LaneInv
      <3>3. \A t \in Tasks : /\ row'[t].cand = row[t].cand /\ row'[t].sub = row[t].sub
                             /\ row'[t].state = "integrated" <=> row[t].state = "integrated"
        BY DEF Restated
      <3> QED
        BY <1>1, <2>1, <3>1, <3>2, <3>3, LaneKept
    <2>2. CASE lane' = IdleLane
      BY <2>2 DEF LaneInv, IdleLane
    <2> QED
      BY <2>1, <2>2
  <1>4. LaneTypeOK'
    <2>1. IdleLane \in Items
      BY DEF IdleLane, Items, Nullable
    <2>2. [t \in Tasks |-> NULL] \in [Tasks -> Nullable(Records)]
      BY DEF Nullable
    <2> QED
      BY <2>1, <2>2, Types DEF LaneTypeOK, StoreTypeOK
  <1> QED
    BY <1>2, <1>3, <1>4 DEF Inv

\* Expired leases are released.
LEMMA RecoverExpiredKeeps ==
  ASSUME Inv, RecoverExpired
  PROVE  Inv'
  <1>1. /\ row' = [t \in Tasks |-> Recovered(row[t])] /\ exact' \in BOOLEAN
        /\ UNCHANGED <<counter, record, made, origin, newest, epic, view, lane, starting>>
    BY DEF RecoverExpired, Sweep
  <1>2. \A t \in Tasks : Recovered(row[t]) \in Rows /\ Restated(row[t], Recovered(row[t]))
    BY TaskParts, RowValues
  <1> QED
    BY <1>1, <1>2, Types, SweepKeeps

\* The service dies.
LEMMA RestartKeeps ==
  ASSUME Inv, Restart
  PROVE  Inv'
  <1> DEFINE G(r) == IF r.owner = "lane" THEN [r EXCEPT !.owner = "gone"] ELSE r
  <1>1. /\ row' = [t \in Tasks |-> G(row[t])] /\ exact' = FALSE /\ starting' = TRUE
        /\ view' = [t \in Tasks |-> NULL] /\ lane' = IdleLane
        /\ UNCHANGED <<counter, record, made, origin, newest, epic>>
    BY DEF Restart
  <1>2. \A r \in Rows : G(r) \in Rows /\ Restated(r, G(r))
    BY DEF Rows, Restated
  <1> HIDE DEF G
  <1>3. \A t \in Tasks : G(row[t]) \in Rows /\ Restated(row[t], G(row[t]))
    BY <1>2, TaskParts
  <1> QED
    BY <1>1, <1>3, SweepKeeps

\* startup_cleanup releases every lease.
LEMMA RecoverAbandonedKeeps ==
  ASSUME Inv, RecoverAbandoned
  PROVE  Inv'
  <1>1. /\ row' = [t \in Tasks |-> Abandoned(row[t])] /\ exact' \in BOOLEAN /\ starting' = FALSE
        /\ UNCHANGED <<counter, record, made, origin, newest, epic, view, lane>>
    BY DEF RecoverAbandoned, Sweep
  <1>2. \A t \in Tasks : Abandoned(row[t]) \in Rows /\ Restated(row[t], Abandoned(row[t]))
    BY TaskParts, RowValues
  <1> QED
    BY <1>1, <1>2, SweepKeeps


-----------------------------------------------------------------------------
(***************************************************************************)
(* Steps of the item in execution.                                         *)
(***************************************************************************)

\* What is known of the item.
LEMMA ItemParts ==
  ASSUME Inv, lane.pc # "idle", NEW t \in Tasks, t = lane.task
  PROVE  /\ lane \in Items /\ lane.item \in Rows
         /\ lane.item.sub \in Pairs /\ lane.item.cand \in Nullable(Pairs)
         /\ lane.out \in Nullable(Pairs)
         /\ Known(t, lane.item.sub) /\ Known(t, lane.item.cand) /\ Known(t, lane.out)
         /\ Effective(lane.item) \in Pairs /\ Known(t, Effective(lane.item))
         /\ \A u \in Tasks : view[u] = NULL
  <1>1. /\ lane \in Items /\ lane.item \in Rows /\ lane.item.sub # NULL
        /\ lane.item.sub \in Nullable(Pairs) /\ lane.item.cand \in Nullable(Pairs)
        /\ lane.out \in Nullable(Pairs)
        /\ Known(t, lane.item.sub) /\ Known(t, lane.item.cand) /\ Known(t, lane.out)
    BY Types, Parts DEF Inv, LaneInv, Nullable
  <1>2. \A u \in Tasks : view[u] = NULL
    BY DEF Inv, ViewInv
  <1>3. lane.item.sub \in Pairs
    BY <1>1 DEF Nullable
  <1> QED
    BY <1>1, <1>2, <1>3 DEF Effective, Nullable

\* A step of the item on its own task; no pass has read anything.
LEMMA ItemStep ==
  ASSUME Inv, lane.pc # "idle", NEW t \in Tasks, t = lane.task, Grows, UNCHANGED view,
         \A u \in Tasks : u # t => row'[u] = row[u] /\ record'[u] = record[u],
         RowInv(t)', RecordInv(t)', LaneInv', LaneTypeOK'
  PROVE  Inv'
  <1>1. Others(t)
    BY DEF Others
  <1>2. ViewInv(t)'
    BY ItemParts DEF ViewInv
  <1> QED
    BY <1>1, <1>2, OneTask

\* A step of the item that restates its row at most, and moves its task at most.
LEMMA ItemRestates ==
  ASSUME Inv, lane.pc # "idle", NEW t \in Tasks, t = lane.task, Grows,
         UNCHANGED <<counter, newest, view, starting>>,
         row' \in [Tasks -> Rows], record' \in [Tasks -> Records], exact' \in BOOLEAN,
         origin' \in [Tasks -> [Commits -> 0..MaxCommit]],
         \A u \in Tasks : u # t => row'[u] = row[u] /\ record'[u] = record[u],
         Restated(row[t], row'[t]), record'[t].sub = record[t].sub,
         record'[t].state = record[t].state, record'[t].status \in {record[t].status, "open"},
         lane' \in Items, LaneInv'
  PROVE  Inv'
  <1>1. RowInv(t)' /\ RecordInv(t)'
    BY RowRestated, RecordRestated
  <1>2. LaneTypeOK'
    BY Types DEF LaneTypeOK, StoreTypeOK, Grows
  <1> QED
    BY <1>1, <1>2, ItemStep

\* The item goes on with the row and the pair it has.
LEMMA LaneMoved ==
  ASSUME Inv, lane.pc \notin {"idle", "checkpointed"}, NEW t \in Tasks, t = lane.task, Grows,
         lane'.task = t, lane'.item = lane.item, lane'.out = lane.out,
         lane'.pc # "checkpointed",
         row'[t].cand \in {NULL, row[t].cand}, row'[t].state # "integrated",
         lane'.pc \in Building \cup Verified => lane.pc \in Building \cup Verified,
         lane'.pc \in Verified => lane.pc \in Verified,
         lane'.pc # "prepared",
         lane'.pc = "landed" => lane.out.head \in epic'[t]
  PROVE  LaneInv'
  <1>1. LaneInv
    BY DEF Inv
  <1>2. /\ lane.item.sub # NULL => lane.item.sub.head <= made'[t]
        /\ lane.item.cand # NULL => lane.item.cand.head <= made'[t]
        /\ lane.out # NULL => lane.out.head <= made'[t]
    BY ItemParts, KnownKept DEF Nullable
  <1>3. lane'.item \in Rows /\ lane'.item.sub # NULL
    BY <1>1 DEF LaneInv
  <1>4. lane'.pc \in Verified => lane'.out # NULL /\ lane'.item.cand = lane'.out
    BY <1>1 DEF LaneInv
  <1>5. lane'.pc \in Building \cup Verified => row'[t].cand \in {NULL, lane'.item.cand}
    BY <1>1 DEF LaneInv
  <1> QED
    BY <1>2, <1>3, <1>4, <1>5 DEF LaneInv, Known, Verified

\* An idle lane promises nothing.
LEMMA IdleKeeps ==
  ASSUME lane' = IdleLane
  PROVE  lane' \in Items /\ LaneInv'
  BY DEF IdleLane, Items, LaneInv, Nullable

\* The parts of an item that only moves.
LEMMA MoveParts ==
  ASSUME lane \in Items,
         NEW pc \in {"idle", "claimed", "prepared", "canonical", "gated", "pushing", "landed",
                     "checkpointed", "cancelling", "deferred", "failing", "noting",
                     "requeueing", "routing"},
         Move(pc)
  PROVE  /\ lane' \in Items /\ lane'.pc = pc /\ lane'.task = lane.task
         /\ lane'.item = lane.item /\ lane'.out = lane.out
  BY DEF Items, Move

\* Checks of the authority and failures write nothing.
LEMMA ChecksKeep ==
  ASSUME Inv,
         \/ LoseAuthority \/ PassGate \/ AuthorizeLanding
         \/ \E b \in BOOLEAN : FailItem(b)
  PROVE  Inv'
  <1>1. /\ lane.pc \in Building \cup Verified /\ lane.pc # "landed"
        /\ UNCHANGED <<row, counter, record, made, origin, newest, epic, view, exact, starting>>
    BY DEF LoseAuthority, PassGate, AuthorizeLanding, FailItem, store, Building, Verified
  <1>2. lane.pc \notin {"idle", "checkpointed"}
    BY <1>1 DEF Building, Verified
  <1>3. PICK t \in Tasks : t = lane.task
    BY <1>2 DEF Inv, LaneInv
  <1>4. Grows /\ Restated(row[t], row'[t]) /\ row'[t].state # "integrated"
    BY <1>1, <1>2, <1>3, QuietGrows DEF Restated, Inv, LaneInv
  <1>5. lane \in Items
    BY Types
  <1>6. /\ lane' \in Items /\ lane'.task = t /\ lane'.item = lane.item /\ lane'.out = lane.out
        /\ lane'.pc \in {"cancelling", "gated", "pushing", "failing"}
        /\ lane'.pc \in {"gated", "pushing"} => lane.pc \in Verified
    <2>1. CASE LoseAuthority
      BY <1>3, <1>5, <2>1, MoveParts DEF LoseAuthority
    <2>2. CASE PassGate
      BY <1>3, <1>5, <2>2, MoveParts DEF PassGate, Verified
    <2>3. CASE AuthorizeLanding
      BY <1>3, <1>5, <2>3, MoveParts DEF AuthorizeLanding, Verified
    <2>4. ASSUME NEW b \in BOOLEAN, FailItem(b)
          PROVE  /\ lane' \in Items /\ lane'.task = t /\ lane'.item = lane.item
                 /\ lane'.out = lane.out /\ lane'.pc = "failing"
      BY <1>3, <1>5, <2>4 DEF FailItem, Items
    <2> QED
      BY <2>1, <2>2, <2>3, <2>4
  <1>7. LaneInv'
    BY <1>1, <1>2, <1>3, <1>4, <1>6, LaneMoved DEF Building, Verified
  <1> QED
    BY <1>1, <1>2, <1>3, <1>4, <1>6, <1>7, Types, ItemRestates

\* The push adds the head of the item to the epic branch.
LEMMA LandItemKeeps ==
  ASSUME Inv, LandItem
  PROVE  Inv'
  <1>1. /\ lane.pc = "pushing" /\ Move("landed")
        /\ UNCHANGED <<row, counter, record, made, origin, newest, view, exact, starting>>
    BY DEF LandItem
  <1>2. PICK t \in Tasks : t = lane.task
    BY <1>1 DEF Inv, LaneInv
  <1>3. lane.out \in Pairs /\ row[t].state # "integrated" /\ lane \in Items
    BY <1>1, <1>2, ItemParts DEF Inv, LaneInv, Nullable, Verified
  <1>4. /\ epic' = [epic EXCEPT ![t] = @ \cup {lane.out.head}]
        /\ lane.out.head \in Commits
    BY <1>2, <1>3, Parts DEF LandItem
  <1>5. Grows /\ lane.out.head \in epic'[t]
    BY <1>1, <1>4, Types, Constants DEF Grows
  <1>6. /\ lane' \in Items /\ lane'.pc = "landed" /\ lane'.task = t
        /\ lane'.item = lane.item /\ lane'.out = lane.out
    BY <1>1, <1>2, <1>3, MoveParts
  <1>7. LaneInv'
    BY <1>1, <1>2, <1>3, <1>5, <1>6, LaneMoved DEF Verified
  <1>8. Restated(row[t], row'[t])
    BY <1>1 DEF Restated
  <1> QED
    BY <1>1, <1>2, <1>5, <1>6, <1>7, <1>8, Types, ItemRestates

\* The lane lets its row go, as far as it still is its own, and ends.
LEMMA LetsGoKeeps ==
  ASSUME Inv, ReleaseItem \/ CancelItem \/ \E b \in BOOLEAN : RouteStatus(b)
  PROVE  Inv'
  <1>1. /\ lane.pc # "idle" /\ lane' = IdleLane
        /\ UNCHANGED <<counter, made, origin, newest, epic, view, starting>>
    BY DEF ReleaseItem, CancelItem, RouteStatus, EndItem
  <1>2. PICK t \in Tasks : t = lane.task
    BY <1>1 DEF Inv, LaneInv
  <1>3. Grows /\ lane' \in Items /\ LaneInv'
    BY <1>1, QuietGrows, IdleKeeps
  <1>4. CASE ReleaseItem
    <2>1. FailRow("ready") /\ UNCHANGED record
      BY <1>4 DEF ReleaseItem
    <2> QED
      BY <1>1, <1>2, <1>3, <2>1, Types, FailStep, ItemRestates
  <1>5. CASE CancelItem
    <2>1. Cancel(t) /\ UNCHANGED record
      BY <1>2, <1>5 DEF CancelItem
    <2> QED
      BY <1>1, <1>2, <1>3, <2>1, Types, CancelStep, ItemRestates
  <1>6. ASSUME NEW b \in BOOLEAN, RouteStatus(b)
        PROVE  Inv'
    <2> DEFINE n == [record[t] EXCEPT !.status = IF b /\ @ = "ready" THEN "open" ELSE @]
    <2>1. /\ n \in Records /\ n.sub = record[t].sub /\ n.state = record[t].state
          /\ n.status \in {record[t].status, "open"}
      BY TaskParts DEF Records
    <2>2. record' = [record EXCEPT ![t] = n] /\ UNCHANGED <<row, exact>>
      BY <1>2, <1>6, Types DEF RouteStatus
    <2> HIDE DEF n
    <2>3. record' \in [Tasks -> Records] /\ record'[t] = n
          /\ \A u \in Tasks : u # t => record'[u] = record[u]
      BY <2>1, <2>2, Types
    <2>4. Restated(row[t], row'[t])
      BY <2>2 DEF Restated
    <2> QED
      BY <1>1, <1>2, <1>3, <2>1, <2>2, <2>3, <2>4, Types, ItemRestates
  <1> QED
    BY <1>4, <1>5, <1>6


\* The attempt counter stays within its bound.
LEMMA CountedType == \A n \in 0..MaxAttempts : Counted(n) \in 0..MaxAttempts
  BY Constants DEF Counted

\* The item is the row as the lane leased it.
LEMMA ClaimNextKeeps ==
  ASSUME Inv, NEW t \in Tasks, ClaimNext(t)
  PROVE  Inv'
  <1> DEFINE r    == Recovered(row[t])
             mine == [r EXCEPT !.state = "integrating", !.owner = "lane",
                               !.expired = FALSE, !.attempts = Counted(@)]
  <1>1. /\ lane.pc = "idle" /\ \A u \in Tasks : view[u] = NULL
        /\ r.state = "ready"
        /\ row' = [[u \in Tasks |-> Recovered(row[u])] EXCEPT ![t] = mine]
        /\ lane' = [IdleLane EXCEPT !.pc = "claimed", !.task = t, !.item = mine]
        /\ exact' = FALSE
        /\ UNCHANGED <<counter, record, made, origin, newest, epic, view, starting>>
    BY DEF ClaimNext
  <1>2. /\ \A u \in Tasks : row[u] \in Rows /\ Recovered(row[u]) \in Rows
                            /\ Restated(row[u], Recovered(row[u]))
        /\ RowInv(t)
    BY TaskParts, RowValues
  <1>3. r \in Rows /\ Restated(row[t], r) /\ r.attempts \in 0..MaxAttempts
    BY <1>2, Parts
  <1> HIDE DEF r
  <1>4. /\ mine \in Rows /\ mine.state = "integrating"
        /\ mine.sub = r.sub /\ mine.cand = r.cand /\ mine.pred = r.pred
    BY <1>3, CountedType DEF Rows
  <1> HIDE DEF mine
  <1>5. Restated(row[t], mine) /\ row[t].state # "absent"
    BY <1>1, <1>3, <1>4 DEF Restated
  <1>6. row' \in [Tasks -> Rows] /\ row'[t] = mine /\ \A u \in Tasks : Restated(row[u], row'[u])
    <2>1. row' \in [Tasks -> Rows] /\ row'[t] = mine
      BY <1>1, <1>2, <1>4
    <2>2. \A u \in Tasks : u # t => row'[u] = Recovered(row[u])
      BY <1>1
    <2> QED
      BY <1>2, <1>5, <2>1, <2>2
  <1>7. Grows
    BY <1>1, QuietGrows
  <1>8. ASSUME NEW u \in Tasks
        PROVE  RowInv(u)' /\ RecordInv(u)' /\ ViewInv(u)'
    BY <1>1, <1>6, <1>7, TaskRestated
  <1>9. /\ lane' \in Items /\ lane'.pc = "claimed" /\ lane'.task = t
        /\ lane'.item = mine /\ lane'.out = NULL
    BY <1>1, <1>4 DEF IdleLane, Items, Nullable
  <1>11. LaneInv'
    <2>1. mine.sub # NULL /\ Known(t, mine.sub) /\ Known(t, mine.cand)
      BY <1>2, <1>4, <1>5 DEF RowInv, Restated
    <2>2. UNCHANGED made
      BY <1>1
    <2> QED
      BY <1>4, <1>6, <1>9, <2>1, <2>2 DEF LaneInv, Known, Building, Verified
  <1>12. LaneTypeOK'
    BY <1>1, <1>6, <1>9, Types DEF LaneTypeOK, StoreTypeOK
  <1> QED
    BY <1>8, <1>11, <1>12 DEF Inv

\* A new commit is made for the submission that the item comes from.
LEMMA PrepareCandidateKeeps ==
  ASSUME Inv, NEW rebased \in BOOLEAN, PrepareCandidate(rebased)
  PROVE  Inv'
  <1>1. /\ lane.pc = "claimed"
        /\ UNCHANGED <<row, counter, record, newest, epic, view, exact, starting>>
    BY DEF PrepareCandidate
  <1>2. PICK t \in Tasks : t = lane.task
    BY <1>1 DEF Inv, LaneInv
  <1>3. PICK p \in Pairs : p = Effective(lane.item)
    BY <1>1, <1>2, ItemParts
  <1>4. /\ lane \in Items /\ Known(t, p) /\ p # NULL
        /\ lane.item.sub \in Pairs /\ lane.item.cand \in Nullable(Pairs)
        /\ Known(t, lane.item.sub) /\ Known(t, lane.item.cand)
    BY <1>1, <1>2, <1>3, ItemParts, Constants
  <1>5. \E q \in Pairs :
          /\ lane' = [lane EXCEPT !.pc = "prepared", !.out = q] /\ q.head <= made'[t]
          /\ Grows /\ origin' \in [Tasks -> [Commits -> 0..MaxCommit]]
    <2>1. CASE rebased
      <3> DEFINE q == [head |-> made[t] + 1, moved |-> TRUE]
      <3>1. Make(t, origin[t][p.head]) /\ lane' = [lane EXCEPT !.pc = "prepared", !.out = q]
        BY <1>2, <1>3, <2>1 DEF PrepareCandidate
      <3>2. origin[t][p.head] \in 0..MaxCommit
        BY Types, Parts
      <3>3. /\ Grows /\ made'[t] = made[t] + 1 /\ made[t] + 1 \in Commits
            /\ origin' \in [Tasks -> [Commits -> 0..MaxCommit]]
        BY <1>1, <3>1, <3>2, MakeStep
      <3>4. q \in Pairs /\ q.head <= made'[t]
        BY <3>3, Constants DEF Pairs, Commits
      <3> QED
        BY <3>1, <3>3, <3>4
    <2>2. CASE ~rebased
      <3>1. lane' = [lane EXCEPT !.pc = "prepared", !.out = p] /\ UNCHANGED <<made, origin>>
        BY <1>2, <1>3, <2>2 DEF PrepareCandidate
      <3>2. Grows
        BY <1>1, <3>1, QuietGrows
      <3> QED
        BY <1>4, <3>1, <3>2, Types DEF Known
    <2> QED
      BY <2>1, <2>2
  <1>6. PICK q \in Pairs :
          /\ lane' = [lane EXCEPT !.pc = "prepared", !.out = q] /\ q.head <= made'[t]
          /\ Grows /\ origin' \in [Tasks -> [Commits -> 0..MaxCommit]]
    BY <1>5
  <1>7. /\ lane' \in Items /\ lane'.pc = "prepared" /\ lane'.task = t
        /\ lane'.item = lane.item /\ lane'.out = q /\ q # NULL
    BY <1>2, <1>4, <1>6, Constants DEF Items, Nullable
  <1>8. LaneInv'
    <2>1. /\ lane.item.sub.head <= made'[t]
          /\ lane.item.cand # NULL => lane.item.cand.head <= made'[t]
      BY <1>4, <1>6, KnownKept, Constants DEF Nullable
    <2>2. /\ lane.item \in Rows /\ lane.item.sub # NULL /\ row[t].state # "integrated"
          /\ row[t].cand \in {NULL, lane.item.cand}
      BY <1>1, <1>2 DEF Inv, LaneInv, Building
    <2> QED
      BY <1>1, <1>6, <1>7, <2>1, <2>2 DEF LaneInv, Known, Building, Verified
  <1>9. Restated(row[t], row'[t])
    BY <1>1 DEF Restated
  <1> QED
    BY <1>1, <1>2, <1>6, <1>7, <1>8, <1>9, Types, ItemRestates

\* The candidate is recorded in the row, then in the tracker.
LEMMA CanonicalizeCandidateKeeps ==
  ASSUME Inv, NEW written \in BOOLEAN, CanonicalizeCandidate(written)
  PROVE  Inv'
  <1>1. /\ lane.pc = "prepared"
        /\ UNCHANGED <<counter, made, origin, newest, epic, view, starting>>
    BY DEF CanonicalizeCandidate
  <1>2. PICK t \in Tasks : t = lane.task
    BY <1>1 DEF Inv, LaneInv
  <1>3. PICK o \in Pairs : o = lane.out
    BY <1>1, <1>2, ItemParts DEF Inv, LaneInv, Nullable
  <1>4. /\ lane \in Items /\ lane.item \in Rows /\ o # NULL /\ Known(t, o)
        /\ row[t] \in Rows /\ record[t] \in Records /\ RowInv(t) /\ RecordInv(t)
        /\ lane.item.sub # NULL /\ Known(t, lane.item.sub) /\ Known(t, lane.item.cand)
        /\ row[t].state # "integrated" /\ record[t].state # "integrated"
    <2>1. lane.item.sub # NULL /\ row[t].state # "integrated"
      BY <1>1, <1>2 DEF Inv, LaneInv
    <2> QED
      BY <1>1, <1>2, <1>3, <2>1, ItemParts, TaskParts, Constants DEF RecordInv
  <1>5. Grows
    BY <1>1, QuietGrows
  <1>6. CASE ~Canonical
    <2>1. UNCHANGED <<row, exact, record>>
      <3>1. [record[t] EXCEPT !.sub = record[t].sub] = record[t]
        BY <1>4 DEF Records
      <3>2. record' = [record EXCEPT ![t] = [record[t] EXCEPT !.sub = record[t].sub]]
        BY <1>2, <1>6, Types DEF CanonicalizeCandidate
      <3>3. UNCHANGED record
        BY <3>1, <3>2, Types
      <3> QED
        BY <1>6, <3>3 DEF CanonicalizeCandidate
    <2>2. lane' = [lane EXCEPT !.pc = "deferred"]
      BY <1>6 DEF CanonicalizeCandidate
    <2>3. /\ lane' \in Items /\ lane'.pc = "deferred" /\ lane'.task = t
          /\ lane'.item = lane.item /\ lane'.out = lane.out
      BY <1>2, <1>4, <2>2 DEF Items
    <2>4. LaneInv'
      BY <1>1, <1>2, <1>4, <1>5, <2>1, <2>3, LaneMoved DEF Building, Verified
    <2>5. Restated(row[t], row'[t])
      BY <2>1 DEF Restated
    <2> QED
      BY <1>1, <1>2, <1>5, <2>1, <2>3, <2>4, <2>5, Types, ItemRestates
  <1>7. CASE Canonical
    <2> DEFINE q == [row[t] EXCEPT !.cand = o]
               n == [record[t] EXCEPT !.sub = IF written THEN o ELSE @]
    <2>1. Put(t, q) /\ record' = [record EXCEPT ![t] = n]
      BY <1>2, <1>3, <1>7, Types DEF CanonicalizeCandidate
    <2>2. /\ q \in Rows /\ q.cand = o /\ q.sub = row[t].sub /\ q.pred = row[t].pred
          /\ q.state = row[t].state /\ row[t].state = "integrating"
      BY <1>2, <1>4, <1>7 DEF Canonical, Rows, Nullable
    <2>3. /\ n \in Records /\ n.sub \in {o, record[t].sub}
          /\ n.state = record[t].state /\ n.status = record[t].status
      BY <1>4 DEF Records, Nullable
    <2> HIDE DEF q, n
    <2>4. /\ row' \in [Tasks -> Rows] /\ row'[t] = q /\ exact' \in BOOLEAN
          /\ record' \in [Tasks -> Records] /\ record'[t] = n
          /\ \A u \in Tasks : u # t => row'[u] = row[u] /\ record'[u] = record[u]
      BY <2>1, <2>2, <2>3, Types, PutStep
    <2>5. RowInv(t)'
      BY <1>1, <1>4, <2>2, <2>4 DEF RowInv, Known
    <2>6. RecordInv(t)'
      BY <1>1, <1>4, <2>2, <2>3, <2>4 DEF RecordInv, Known
    <2>7. CASE written
      <3>1. lane' = [lane EXCEPT !.pc = "canonical", !.item.cand = o]
        BY <1>3, <1>7, <2>7 DEF CanonicalizeCandidate
      <3>2. lane' = [lane EXCEPT !.pc = "canonical", !.item = [lane.item EXCEPT !.cand = o]]
        BY <1>4, <3>1 DEF Items
      <3> DEFINE i == [lane.item EXCEPT !.cand = o]
      <3>3. i \in Rows /\ i.cand = o /\ i.sub = lane.item.sub
        BY <1>4 DEF Rows, Nullable
      <3> HIDE DEF i
      <3>4. /\ lane' \in Items /\ lane'.pc = "canonical" /\ lane'.task = t
            /\ lane'.item = i /\ lane'.out = o
        BY <1>2, <1>3, <1>4, <3>2, <3>3 DEF Items, Nullable, i
      <3>5. LaneInv'
        BY <1>1, <1>4, <2>2, <2>4, <3>3, <3>4 DEF LaneInv, Known, Building, Verified
      <3>6. LaneTypeOK'
        BY <1>1, <2>4, <3>4, Types DEF LaneTypeOK, StoreTypeOK
      <3> QED
        BY <1>1, <1>2, <1>5, <2>4, <2>5, <2>6, <3>5, <3>6, ItemStep
    <2>8. CASE ~written
      <3>1. lane' = [lane EXCEPT !.pc = "deferred"]
        BY <2>8 DEF CanonicalizeCandidate
      <3>2. /\ lane' \in Items /\ lane'.pc = "deferred" /\ lane'.task = t
            /\ lane'.item = lane.item /\ lane'.out = o
        BY <1>2, <1>3, <1>4, <3>1 DEF Items
      <3>3. LaneInv'
        BY <1>1, <1>4, <2>2, <2>4, <3>2 DEF LaneInv, Known, Building, Verified
      <3>4. LaneTypeOK'
        BY <1>1, <2>4, <3>2, Types DEF LaneTypeOK, StoreTypeOK
      <3> QED
        BY <1>1, <1>2, <1>5, <2>4, <2>5, <2>6, <3>3, <3>4, ItemStep
    <2> QED
      BY <2>7, <2>8
  <1> QED
    BY <1>6, <1>7


\* A failure returns or blocks the row of the item.
LEMMA RouteRowKeeps ==
  ASSUME Inv, RouteRow
  PROVE  Inv'
  <1>1. /\ lane.pc = "failing" /\ Move("noting")
        /\ FailRow(IF lane.retry THEN "ready" ELSE "blocked")
        /\ UNCHANGED <<counter, record, made, origin, newest, epic, view, starting>>
    BY DEF RouteRow
  <1>2. PICK t \in Tasks : t = lane.task
    BY <1>1 DEF Inv, LaneInv
  <1>3. Grows /\ lane \in Items /\ row[t].state # "integrated"
    BY <1>1, <1>2, QuietGrows, Types DEF Inv, LaneInv
  <1>4. /\ row' \in [Tasks -> Rows] /\ exact' \in BOOLEAN
        /\ \A u \in Tasks : u # t => row'[u] = row[u]
        /\ Restated(row[t], row'[t])
    <2>1. PICK state \in {"ready", "blocked"} : FailRow(state)
      BY <1>1
    <2> QED
      BY <1>2, <2>1, FailStep
  <1>5. /\ lane' \in Items /\ lane'.pc = "noting" /\ lane'.task = t
        /\ lane'.item = lane.item /\ lane'.out = lane.out
    BY <1>1, <1>2, <1>3, MoveParts
  <1>6. row'[t].cand = row[t].cand /\ row'[t].state # "integrated"
    BY <1>3, <1>4 DEF Restated
  <1>7. LaneInv'
    BY <1>1, <1>2, <1>3, <1>5, <1>6, LaneMoved DEF Building, Verified
  <1> QED
    BY <1>1, <1>2, <1>3, <1>4, <1>5, <1>7, Types, ItemRestates

\* The record of a failure names the pair that failed, and never a landing.
LEMMA RouteRecordKeeps ==
  ASSUME Inv, NEW ready \in BOOLEAN, RouteRecord(ready)
  PROVE  Inv'
  <1>1. /\ lane.pc = "noting" /\ Move(IF lane.retry THEN "requeueing" ELSE "routing")
        /\ UNCHANGED <<row, counter, made, origin, newest, epic, view, exact, starting>>
    BY DEF RouteRecord
  <1>2. PICK t \in Tasks : t = lane.task
    BY <1>1 DEF Inv, LaneInv
  <1>3. Grows /\ lane \in Items /\ row[t].state # "integrated"
    BY <1>1, <1>2, QuietGrows, Types DEF Inv, LaneInv
  <1>4. PICK p \in Pairs : p = (IF lane.out # NULL THEN lane.out ELSE Effective(lane.item))
    BY <1>1, <1>2, ItemParts DEF Nullable
  <1>5. Known(t, p) /\ p # NULL /\ record[t] \in Records
    BY <1>1, <1>2, <1>4, ItemParts, TaskParts, Constants
  <1> DEFINE n == [record[t] EXCEPT !.sub = p, !.state = IF ready THEN "ready" ELSE "blocked"]
  <1>6. n \in Records /\ n.sub = p /\ n.state # "integrated"
    BY <1>5 DEF Records, Nullable
  <1>7. record' = [record EXCEPT ![t] = n]
    BY <1>2, <1>4, Types DEF RouteRecord
  <1> HIDE DEF n
  <1>8. record' \in [Tasks -> Records] /\ record'[t] = n
        /\ \A u \in Tasks : u # t => record'[u] = record[u]
    BY <1>6, <1>7, Types
  <1>9. RowInv(t)'
    BY <1>1, <1>3, RowRestated DEF Restated
  <1>10. RecordInv(t)'
    BY <1>1, <1>3, <1>5, <1>6, <1>8, RecordOpen DEF Known
  <1>11. /\ lane' \in Items /\ lane'.pc \in {"requeueing", "routing"} /\ lane'.task = t
         /\ lane'.item = lane.item /\ lane'.out = lane.out
    <2>1. PICK pc \in {"requeueing", "routing"} : Move(pc)
      BY <1>1
    <2> QED
      BY <1>2, <1>3, <2>1, MoveParts
  <1>12. LaneInv'
    BY <1>1, <1>2, <1>3, <1>11, LaneMoved DEF Building, Verified
  <1>13. LaneTypeOK'
    BY <1>1, <1>8, <1>11, Types DEF LaneTypeOK, StoreTypeOK
  <1> QED
    BY <1>1, <1>2, <1>3, <1>8, <1>9, <1>10, <1>12, <1>13, ItemStep

\* A retried failure queues the pair that was built, unless the row names it.
LEMMA RequeueRebasedKeeps ==
  ASSUME Inv, RequeueRebased
  PROVE  Inv'
  <1>1. /\ lane.pc = "requeueing" /\ lane' = IdleLane
        /\ UNCHANGED <<counter, record, made, origin, newest, epic, view, starting>>
    BY DEF RequeueRebased, EndItem
  <1>2. PICK t \in Tasks : t = lane.task
    BY <1>1 DEF Inv, LaneInv
  <1>3. /\ Grows /\ row[t].state # "integrated" /\ lane.out \in Nullable(Pairs)
        /\ Known(t, lane.out) /\ RecordInv(t)
    BY <1>1, <1>2, QuietGrows, ItemParts, TaskParts DEF Inv, LaneInv
  <1>4. /\ row' \in [Tasks -> Rows] /\ exact' \in BOOLEAN
        /\ \A u \in Tasks : u # t => row'[u] = row[u]
        /\ row'[t] = row[t] \/ (lane.out # NULL /\ Fresh(row'[t], lane.out))
    <2>1. CASE lane.out # NULL
      <3>1. Enqueue(t, lane.out, FALSE, FALSE, TRUE) /\ lane.out \in Pairs
        BY <1>2, <1>3, <2>1 DEF RequeueRebased, Nullable
      <3> QED
        BY <2>1, <3>1, EnqueueStep
    <2>2. CASE lane.out = NULL
      BY <2>2, Types DEF RequeueRebased
    <2> QED
      BY <2>1, <2>2
  <1>5. RowInv(t)'
    BY <1>1, <1>3, <1>4, RowRestated, RowFresh DEF Restated, Known
  <1>6. RecordInv(t)'
    <2>1. row'[t].state # "integrated" /\ record[t].state # "integrated"
      BY <1>3, <1>4 DEF Fresh, RecordInv
    <2> QED
      BY <1>1, <1>3, <2>1, RecordOpen DEF RecordInv, Known
  <1>7. lane' \in Items /\ LaneInv'
    BY <1>1, IdleKeeps
  <1>8. LaneTypeOK'
    BY <1>1, <1>4, <1>7, Types DEF LaneTypeOK, StoreTypeOK
  <1> QED
    BY <1>1, <1>2, <1>3, <1>4, <1>5, <1>6, <1>7, <1>8, ItemStep

\* The queue calls a row integrated with the candidate that landed, while the
\* tracker names it.
LEMMA CheckpointItemKeeps ==
  ASSUME Inv, CheckpointItem
  PROVE  Inv'
  <1>1. /\ lane.pc = "landed"
        /\ UNCHANGED <<record, made, origin, newest, epic, view, starting>>
    BY DEF CheckpointItem
  <1>2. PICK t \in Tasks : t = lane.task
    BY <1>1 DEF Inv, LaneInv
  <1>3. Grows
    BY <1>1, QuietGrows
  <1>4. CASE ~Current
    <2>1. lane' = IdleLane /\ UNCHANGED <<row, counter, exact>>
      BY <1>4 DEF CheckpointItem, EndItem
    <2>2. lane' \in Items /\ LaneInv' /\ Restated(row[t], row'[t])
      BY <2>1, IdleKeeps DEF Restated
    <2> QED
      BY <1>1, <1>2, <1>3, <2>1, <2>2, Types, ItemRestates
  <1>5. CASE Current
    <2>1. PICK o \in Pairs : o = lane.out
      BY <1>1, <1>2, ItemParts DEF Inv, LaneInv, Nullable, Verified
    <2>2. /\ lane \in Items /\ lane.item.cand = o /\ o # NULL /\ o.head \in epic[t]
          /\ lane.item \in Rows /\ lane.item.sub # NULL
          /\ row[t].cand \in {NULL, o} /\ Known(t, o) /\ Known(t, lane.item.sub)
      BY <1>1, <1>2, <2>1, Types, Constants DEF Inv, LaneInv, Verified
    <2>3. row[t].state = "integrating" /\ row[t].cand = o
      BY <1>2, <1>5, <2>2 DEF Current, OwnsLease
    <2>4. record[t].sub = o
      BY <1>1, <1>2, <1>5, <2>2 DEF Current, TrackerNames, Effective
    <2>5. RowInv(t) /\ RecordInv(t) /\ row[t] \in Rows /\ row[t].sub \in Pairs
          /\ record[t].state # "integrated"
      BY <2>3, TaskParts, Parts DEF RowInv, RecordInv, Nullable
    <2> DEFINE q == Integrated(row[t], o, counter + 1)
    <2>6. counter' = counter + 1 /\ counter' \in 0..MaxSeq /\ exact' = TRUE /\ Move("checkpointed")
          /\ row' = [row EXCEPT ![t] = q]
      BY <1>2, <1>5, <2>1, Types, Constants DEF CheckpointItem
    <2>7. /\ q \in Rows /\ q.state = "integrated" /\ q.sub = o /\ q.cand = o
          /\ q.pred \in {row[t].pred, row[t].sub.head}
      <3>1. row[t].sub.head \in Nullable(Commits)
        BY <2>5, Parts DEF Nullable
      <3>2. counter + 1 \in 0..MaxSeq
        BY <2>6
      <3> QED
        BY <2>3, <2>5, <3>1, <3>2 DEF Integrated, Rows, Nullable
    <2> HIDE DEF q
    <2>8. /\ row' \in [Tasks -> Rows] /\ row'[t] = q
          /\ \A u \in Tasks : u # t => row'[u] = row[u] /\ record'[u] = record[u]
      BY <1>1, <2>6, <2>7, Types
    <2>9. /\ lane' \in Items /\ lane'.pc = "checkpointed" /\ lane'.task = t
          /\ lane'.item = lane.item /\ lane'.out = o
      BY <1>2, <2>1, <2>2, <2>6, MoveParts
    <2>10. RowInv(t)'
      <3>1. q.pred # NULL => q.pred <= made[t]
        BY <2>5, <2>7, Constants DEF RowInv, Known
      <3> QED
        BY <1>1, <2>2, <2>7, <2>8, <3>1 DEF RowInv, Known
    <2>11. RecordInv(t)'
      BY <1>1, <2>2, <2>4, <2>5, <2>7, <2>8 DEF RecordInv, Known
    <2>12. LaneInv'
      BY <1>1, <2>2, <2>4, <2>7, <2>8, <2>9 DEF LaneInv, Known, Building, Verified
    <2>13. LaneTypeOK'
      BY <1>1, <2>6, <2>8, <2>9, Types DEF LaneTypeOK, StoreTypeOK
    <2> QED
      BY <1>1, <1>2, <1>3, <2>8, <2>10, <2>11, <2>12, <2>13, ItemStep
  <1> QED
    BY <1>4, <1>5

\* The tracker follows the queue.
LEMMA PersistItemKeeps ==
  ASSUME Inv, NEW written \in BOOLEAN, PersistItem(written)
  PROVE  Inv'
  <1>1. /\ lane.pc = "checkpointed" /\ lane' = IdleLane /\ exact' = FALSE
        /\ UNCHANGED <<row, counter, made, origin, newest, epic, view, starting>>
    BY DEF PersistItem, EndItem
  <1>2. PICK t \in Tasks : t = lane.task
    BY <1>1 DEF Inv, LaneInv
  <1>3. PICK o \in Pairs : o = lane.out
    BY <1>1, <1>2, ItemParts DEF Inv, LaneInv, Nullable
  <1>4. /\ Grows /\ o # NULL /\ row[t].state = "integrated" /\ row[t].sub = o
        /\ record[t].sub = o /\ RecordInv(t) /\ record[t] \in Records
    BY <1>1, <1>2, <1>3, QuietGrows, TaskParts, Constants DEF Inv, LaneInv
  <1> DEFINE n == IF exact /\ written THEN [record[t] EXCEPT !.state = "integrated", !.sub = o]
                                      ELSE record[t]
  <1>5. n \in Records /\ n.sub = o /\ n.status = record[t].status
        /\ n.state \in {record[t].state, "integrated"}
    BY <1>4 DEF Records, Nullable
  <1>6. record' = [record EXCEPT ![t] = n]
    BY <1>2, <1>3, Types DEF PersistItem
  <1> HIDE DEF n
  <1>7. record' \in [Tasks -> Records] /\ record'[t] = n
        /\ \A u \in Tasks : u # t => record'[u] = record[u]
    BY <1>5, <1>6, Types
  <1>8. RowInv(t)'
    BY <1>1, <1>4, RowRestated DEF Restated
  <1>9. RecordInv(t)'
    BY <1>1, <1>4, <1>5, <1>7 DEF RecordInv, Known
  <1>10. lane' \in Items /\ LaneInv'
    BY <1>1, IdleKeeps
  <1>11. LaneTypeOK'
    BY <1>1, <1>7, <1>10, Types DEF LaneTypeOK, StoreTypeOK
  <1> QED
    BY <1>1, <1>2, <1>4, <1>7, <1>8, <1>9, <1>10, <1>11, ItemStep


-----------------------------------------------------------------------------
(***************************************************************************)
(* The invariant.                                                          *)
(***************************************************************************)

\* An empty queue has the invariant.
LEMMA InitInv == Init => Inv
  <1> SUFFICES ASSUME Init PROVE Inv
    OBVIOUS
  <1>1. NoRow \in Rows /\ NoRow.state = "absent" /\ NoRow.sub = NULL /\ NoRow.cand = NULL
        /\ NoRow.pred = NULL
    BY Constants DEF NoRow, Rows, Nullable
  <1>2. NoRecord \in Records /\ NoRecord.status = "open" /\ NoRecord.sub = NULL
        /\ NoRecord.state = "none"
    BY DEF NoRecord, Records, Nullable
  <1>3. IdleLane \in Items /\ IdleLane.pc = "idle"
    BY DEF IdleLane, Items, Nullable
  <1>4. 0 \in 0..MaxCommit
    BY Constants
  <1>5. LaneTypeOK
    BY <1>1, <1>2, <1>3, <1>4, Constants DEF Init, LaneTypeOK, StoreTypeOK, Nullable
  <1>6. \A t \in Tasks : RowInv(t) /\ RecordInv(t) /\ ViewInv(t)
    BY <1>1, <1>2 DEF Init, RowInv, RecordInv, ViewInv, Known
  <1>7. LaneInv
    BY <1>3 DEF Init, LaneInv
  <1> QED
    BY <1>5, <1>6, <1>7 DEF Inv

\* Every step keeps it.
LEMMA NextInv == Inv /\ [Next]_vars => Inv'
  <1> SUFFICES ASSUME Inv, [Next]_vars PROVE Inv'
    OBVIOUS
  <1>1. ASSUME NEW t \in Tasks, Tracker(t)
        PROVE  Inv'
    BY <1>1, SubmitNewKeeps, SubmitAgainKeeps, MoveTaskKeeps, StageLandingKeeps DEF Tracker
  <1>2. ASSUME NEW t \in Tasks, Pass(t)
        PROVE  Inv'
    BY <1>2, ScanTrackerKeeps, SyncSubmissionKeeps, RetireInactiveKeeps, BlockPreflightKeeps,
       LeaseExpiresKeeps, ClaimNextKeeps DEF Pass
  <1>3. CASE Execute
    BY <1>3, ChecksKeep, LandItemKeeps, LetsGoKeeps, RouteRowKeeps, RouteRecordKeeps,
       RequeueRebasedKeeps, CheckpointItemKeeps, PersistItemKeeps, PrepareCandidateKeeps,
       CanonicalizeCandidateKeeps DEF Execute
  <1>4. CASE RecoverExpired \/ Restart \/ RecoverAbandoned
    BY <1>4, RecoverExpiredKeeps, RestartKeeps, RecoverAbandonedKeeps
  <1>5. CASE UNCHANGED vars
    <2>1. UNCHANGED <<row, counter, record, made, origin, newest, epic, starting, view, lane, exact>>
      BY <1>5 DEF vars
    <2>2. \A t \in Tasks : Restated(row[t], row'[t])
      BY <2>1 DEF Restated
    <2> QED
      BY <2>1, <2>2, Types, SweepKeeps
  <1> QED
    BY <1>1, <1>2, <1>3, <1>4, <1>5 DEF Next

\* The inductive invariant of the lane.
THEOREM LaneInvariance == Spec => []Inv
  <1>1. Init => Inv
    BY InitInv
  <1>2. Inv /\ [Next]_vars => Inv'
    BY NextInv
  <1> QED
    BY <1>1, <1>2, PTL DEF Spec

\* Rows, records, the pass and the item keep their types, for every set of tasks
\* and every budget.
THEOREM LaneTypeCorrect == Spec => []LaneTypeOK
  <1>1. Inv => LaneTypeOK
    BY DEF Inv
  <1> QED
    BY <1>1, LaneInvariance, PTL

\* Whatever the store and the tracker call integrated has landed on the epic
\* branch, for every set of tasks, through expired leases, released leases and
\* restarts.
THEOREM LaneLanded == Spec => []IntegratedMeansLanded
  <1>1. ASSUME Inv, NEW t \in Tasks
        PROVE  /\ row[t].state = "integrated" => row[t].sub # NULL /\ row[t].sub.head \in epic[t]
               /\ record[t].state = "integrated" =>
                    record[t].sub # NULL /\ record[t].sub.head \in epic[t]
    BY <1>1, TaskParts DEF RowInv, RecordInv
  <1>2. Inv => IntegratedMeansLanded
    BY <1>1 DEF IntegratedMeansLanded
  <1> QED
    BY <1>2, LaneInvariance, PTL

-----------------------------------------------------------------------------
(***************************************************************************)
(* What replaces a landing.                                                *)
(***************************************************************************)

\* Submission p is the one of the row of a task, or a later one.
NotOlder(t, p) == p # NULL /\ origin[t][p.head] >= origin[t][row[t].sub.head]

\* A commit descends from no later submission than the last, and what the
\* record and the pass say of an integrated row is not older than its landing.
OrderInv(t) ==
  /\ \A c \in Commits : c <= made[t] => origin[t][c] <= made[t]
  /\ row[t].state = "integrated" =>
       NotOlder(t, record[t].sub) /\ (view[t] # NULL => NotOlder(t, view[t].sub))

\* What is made keeps its origin.
OriginsKept(t) ==
  /\ made[t] <= made'[t] /\ made'[t] \in Nat
  /\ \A c \in Commits : c <= made[t] => origin'[t][c] = origin[t][c]
  /\ \A c \in Commits : c <= made'[t] => origin'[t][c] <= made'[t]

\* A pair that was submitted just now.
JustMade(t, p) == p \in Pairs /\ p.head <= made'[t] /\ origin'[t][p.head] = made'[t]

\* What a step may make of the row, the record and the view of a task: an
\* integrated row gives way to what the record or the pass named, or to a new
\* submission; a row becomes integrated beside the record that names its pair.
Ordered(t) ==
  /\ OriginsKept(t)
  /\ row[t].state = "integrated" =>
       \/ row'[t].sub \in {row[t].sub, record[t].sub} \/ JustMade(t, row'[t].sub)
       \/ view[t] # NULL /\ row'[t].sub = view[t].sub
  /\ row'[t].state = "integrated" =>
       \/ record'[t].sub = row'[t].sub
       \/ /\ row[t].state = "integrated" /\ row'[t].sub = row[t].sub
          /\ record'[t].sub = record[t].sub \/ JustMade(t, record'[t].sub)
          /\ view'[t] \in {NULL, view[t], record[t]}

\* No landing of the task gives way to an older submission.
Stands(t) ==
  row[t].state = "integrated" =>
    row'[t].sub # NULL /\ origin'[t][row'[t].sub.head] >= origin[t][row[t].sub.head]

\* The values that are compared are numbers.
LEMMA OriginTypes ==
  ASSUME Inv, NEW t \in Tasks
  PROVE  /\ made[t] \in Nat /\ \A c \in Commits : origin[t][c] \in Nat
         /\ \A p \in Pairs : p.head \in Commits /\ p # NULL
         /\ row[t].state = "integrated" => row[t].sub \in Pairs /\ row[t].sub.head <= made[t]
         /\ record[t].sub # NULL => record[t].sub \in Pairs /\ record[t].sub.head <= made[t]
         /\ view[t] # NULL /\ view[t].sub # NULL =>
              view[t].sub \in Pairs /\ view[t].sub.head <= made[t]
  <1>1. made[t] \in Nat /\ \A c \in Commits : origin[t][c] \in Nat
    BY Types, Constants
  <1>2. row[t] \in Rows /\ record[t] \in Records /\ view[t] \in Nullable(Records)
        /\ RowInv(t) /\ RecordInv(t) /\ ViewInv(t)
    BY TaskParts
  <1>3. row[t].sub \in Nullable(Pairs) /\ record[t].sub \in Nullable(Pairs)
        /\ (view[t] # NULL => view[t].sub \in Nullable(Pairs))
    BY <1>2, Parts DEF Nullable
  <1> QED
    BY <1>1, <1>2, <1>3, Parts, Constants DEF RowInv, RecordInv, ViewInv, Known, Nullable

\* A submission that is not older stays so, whatever is made.
LEMMA NotOlderKept ==
  ASSUME Inv, NEW t \in Tasks, OriginsKept(t), row[t].state = "integrated",
         NEW p \in Pairs, p.head <= made[t], NotOlder(t, p)
  PROVE  origin'[t][p.head] >= origin[t][row[t].sub.head]
         /\ origin'[t][row[t].sub.head] = origin[t][row[t].sub.head]
  BY OriginTypes DEF OriginsKept, NotOlder

\* Such a step lets a landing stand.
LEMMA OrderedStands ==
  ASSUME Inv, Inv', NEW t \in Tasks, OrderInv(t), Ordered(t)
  PROVE  Stands(t)
  <1> SUFFICES ASSUME row[t].state = "integrated"
               PROVE  row'[t].sub # NULL /\ origin'[t][row'[t].sub.head] >= origin[t][row[t].sub.head]
    BY DEF Stands
  <1>1. OriginsKept(t)
    BY DEF Ordered
  <1>2. /\ row[t].sub \in Pairs /\ row[t].sub.head <= made[t] /\ NotOlder(t, row[t].sub)
        /\ made[t] \in Nat /\ \A c \in Commits : origin[t][c] \in Nat
    BY OriginTypes DEF NotOlder
  <1>3. CASE row'[t].sub = row[t].sub
    BY <1>1, <1>2, <1>3, NotOlderKept, OriginTypes
  <1>4. CASE row'[t].sub = record[t].sub
    BY <1>1, <1>4, NotOlderKept, OriginTypes DEF OrderInv, NotOlder
  <1>5. CASE view[t] # NULL /\ row'[t].sub = view[t].sub
    BY <1>1, <1>5, NotOlderKept, OriginTypes DEF OrderInv, NotOlder
  <1>6. CASE JustMade(t, row'[t].sub)
    <2>1. origin[t][row[t].sub.head] <= made[t] /\ row[t].sub.head \in Commits
      BY <1>2, OriginTypes DEF OrderInv
    <2>2. made[t] <= made'[t] /\ made'[t] \in Nat
      BY <1>1 DEF OriginsKept
    <2> QED
      BY <1>2, <1>6, <2>1, <2>2, OriginTypes DEF JustMade
  <1> QED
    BY <1>3, <1>4, <1>5, <1>6 DEF Ordered

\* The order is kept by such a step.
LEMMA OrderedKeeps ==
  ASSUME Inv, Inv', NEW t \in Tasks, OrderInv(t), Ordered(t)
  PROVE  OrderInv(t)'
  <1>1. OriginsKept(t)
    BY DEF Ordered
  <1>2. \A c \in Commits : c <= made'[t] => origin'[t][c] <= made'[t]
    BY <1>1 DEF OriginsKept
  <1>3. ASSUME row'[t].state = "integrated"
        PROVE  NotOlder(t, record[t].sub)' /\ (view'[t] # NULL => NotOlder(t, view[t].sub)')
    <2>1. /\ row'[t].sub \in Pairs /\ row'[t].sub.head <= made'[t] /\ row'[t].sub # NULL
          /\ \A c \in Commits : origin'[t][c] \in Nat
          /\ \A p \in Pairs : p.head \in Commits /\ p # NULL
      <3>1. RowInv(t)' /\ row'[t] \in Rows
        BY <1>3 DEF Inv, LaneTypeOK, StoreTypeOK
      <3>2. row'[t].sub \in Nullable(Pairs)
        BY <3>1, Parts
      <3>3. \A c \in Commits : origin'[t][c] \in Nat
        BY Constants DEF Inv, LaneTypeOK, StoreTypeOK
      <3> QED
        BY <1>3, <3>1, <3>2, <3>3, Parts, Constants DEF RowInv, Known, Nullable
    <2>2. NotOlder(t, row[t].sub)'
      BY <2>1 DEF NotOlder
    <2>3. CASE record'[t].sub = row'[t].sub
      <3>1. view'[t] # NULL => view'[t].sub = row'[t].sub
        BY <1>3, <2>3 DEF Inv, ViewInv
      <3> QED
        BY <2>2, <2>3, <3>1 DEF NotOlder
    <2>4. CASE /\ row[t].state = "integrated" /\ row'[t].sub = row[t].sub
               /\ record'[t].sub = record[t].sub \/ JustMade(t, record'[t].sub)
               /\ view'[t] \in {NULL, view[t], record[t]}
      <3>1. /\ NotOlder(t, record[t].sub) /\ record[t].sub \in Pairs /\ record[t].sub.head <= made[t]
            /\ view[t] # NULL =>
                 NotOlder(t, view[t].sub) /\ view[t].sub \in Pairs /\ view[t].sub.head <= made[t]
        BY <2>4, OriginTypes DEF OrderInv, NotOlder
      <3>2. \A p \in Pairs : p.head <= made[t] /\ NotOlder(t, p) => NotOlder(t, p)'
        BY <1>1, <2>1, <2>4, NotOlderKept DEF NotOlder
      <3>3. \A p : JustMade(t, p) => NotOlder(t, p)'
        BY <1>2, <2>1 DEF JustMade, NotOlder
      <3>4. NotOlder(t, record[t].sub)'
        <4>1. CASE record'[t].sub = record[t].sub
          BY <3>1, <3>2, <4>1 DEF NotOlder
        <4>2. CASE JustMade(t, record'[t].sub)
          BY <3>3, <4>2 DEF NotOlder
        <4> QED
          BY <2>4, <4>1, <4>2
      <3>5. view'[t] # NULL => NotOlder(t, view[t].sub)'
        <4>1. CASE view'[t] = view[t]
          BY <3>1, <3>2, <4>1 DEF NotOlder
        <4>2. CASE view'[t] = record[t]
          BY <3>1, <3>2, <4>2 DEF NotOlder
        <4> QED
          BY <2>4, <4>1, <4>2
      <3> QED
        BY <3>4, <3>5
    <2> QED
      BY <1>3, <2>3, <2>4 DEF Ordered
  <1> QED
    BY <1>2, <1>3 DEF OrderInv

\* A step that makes no commit keeps all origins.
LEMMA OriginsSame ==
  ASSUME Inv, NEW t \in Tasks, OrderInv(t), UNCHANGED <<made, origin>>
  PROVE  OriginsKept(t)
  BY OriginTypes DEF OriginsKept, OrderInv

\* Rows that are only restated, beside records that name what they named.
LEMMA RestatesOrdered ==
  ASSUME Inv, NEW t \in Tasks, OrderInv(t), UNCHANGED <<made, origin>>,
         Restated(row[t], row'[t]), record'[t].sub = record[t].sub,
         view'[t] \in {NULL, view[t], record[t]}
  PROVE  Ordered(t)
  BY OriginsSame DEF Ordered, Restated

\* A commit is made for a submission that was made before, or for itself.
LEMMA MakeOrigins ==
  ASSUME Inv, NEW t \in Tasks, NEW c \in 0..MaxCommit, c <= made[t] + 1, Make(t, c),
         NEW u \in Tasks, OrderInv(u)
  PROVE  OriginsKept(u) /\ (u = t => origin'[t][made[t] + 1] = c)
  <1>1. made[t] \in 0..MaxCommit /\ made[t] < MaxCommit
    BY Types DEF Make
  <1>2. made[t] + 1 \in Commits
    BY <1>1, Constants DEF Commits
  <1>3. made' = [made EXCEPT ![t] = made[t] + 1] /\ origin' = [origin EXCEPT ![t][made[t] + 1] = c]
    BY Types DEF Make
  <1>4. CASE u # t
    BY <1>3, <1>4, Types, OriginTypes DEF OriginsKept, OrderInv
  <1>5. CASE u = t
    <2>1. /\ made'[t] = made[t] + 1 /\ origin'[t][made[t] + 1] = c
          /\ \A d \in Commits : d # made[t] + 1 => origin'[t][d] = origin[t][d]
      BY <1>2, <1>3, Types
    <2>2. \A d \in Commits : d \in Nat /\ (d <= made[t] + 1 => d <= made[t] \/ d = made[t] + 1)
      BY OriginTypes, Constants DEF Commits
    <2>3. \A d \in Commits : d <= made[t] => d # made[t] + 1
      BY <2>2, OriginTypes
    <2>4. \A d \in Commits : d <= made[t] => origin[t][d] <= made[t] + 1
      BY <1>5, OriginTypes DEF OrderInv
    <2> QED
      BY <1>5, <2>1, <2>2, <2>3, <2>4, OriginTypes DEF OriginsKept
  <1> QED
    BY <1>4, <1>5

\* A submission names what the record named, or a commit that is new.
LEMMA SubmitOrders ==
  ASSUME Inv, NEW t \in Tasks, NEW p \in Pairs, NEW queued \in BOOLEAN, Submit(t, p, queued),
         p = record[t].sub \/ JustMade(t, p), \A u \in Tasks : OriginsKept(u)
  PROVE  \A u \in Tasks : Ordered(u)
  <1>1. /\ record' = [record EXCEPT ![t] = [status |-> "ready", sub |-> p, state |-> "ready"]]
        /\ UNCHANGED view
        /\ Enqueue(t, p, TRUE, TRUE, FALSE) \/ UNCHANGED <<row, exact>>
    BY DEF Submit
  <1>2. /\ \A u \in Tasks : u # t => row'[u] = row[u]
        /\ row'[t] = row[t] \/ Fresh(row'[t], p)
    <2>1. CASE Enqueue(t, p, TRUE, TRUE, FALSE)
      BY <2>1, EnqueueStep
    <2>2. CASE UNCHANGED <<row, exact>>
      BY <2>2
    <2> QED
      BY <1>1, <2>1, <2>2
  <1>3. record'[t].sub = p /\ \A u \in Tasks : u # t => record'[u] = record[u]
    BY <1>1, Types
  <1>4. ASSUME NEW u \in Tasks, u # t
        PROVE  Ordered(u)
    BY <1>1, <1>2, <1>3, <1>4 DEF Ordered
  <1>5. Ordered(t)
    BY <1>1, <1>2, <1>3 DEF Ordered, Fresh
  <1> QED
    BY <1>4, <1>5

\* Submissions, moves of the task and the replay of landings.
LEMMA TrackerOrders ==
  ASSUME Inv, \A u \in Tasks : OrderInv(u), NEW t \in Tasks, Tracker(t)
  PROVE  \A u \in Tasks : Ordered(u)
  <1>1. ASSUME NEW queued \in BOOLEAN, SubmitNew(t, queued)
        PROVE  \A u \in Tasks : Ordered(u)
    <2> DEFINE c == made[t] + 1
               p == [head |-> c, moved |-> FALSE]
    <2>1. Make(t, c) /\ Submit(t, p, queued)
      BY <1>1 DEF SubmitNew
    <2>2. made[t] \in 0..MaxCommit /\ made[t] < MaxCommit
      BY <2>1, Types DEF Make
    <2>3. c \in 0..MaxCommit /\ c \in Commits /\ c <= made[t] + 1
      BY <2>2, Constants DEF Commits
    <2>4. p \in Pairs /\ p.head = c
      BY <2>3 DEF Pairs
    <2>5. made'[t] = c
      BY <2>1, <2>2, Types DEF Make
    <2>6. (\A u \in Tasks : OriginsKept(u)) /\ origin'[t][c] = c
      BY <2>1, <2>3, MakeOrigins
    <2>7. JustMade(t, p)
      BY <2>3, <2>4, <2>5, <2>6, Constants DEF JustMade, Commits
    <2> HIDE DEF c, p
    <2> QED
      BY <2>1, <2>4, <2>6, <2>7, SubmitOrders
  <1>2. ASSUME NEW queued \in BOOLEAN, SubmitAgain(t, queued)
        PROVE  \A u \in Tasks : Ordered(u)
    <2>1. record[t].sub \in Pairs /\ Submit(t, record[t].sub, queued) /\ UNCHANGED <<made, origin>>
      BY <1>2, OriginTypes DEF SubmitAgain
    <2> QED
      BY <2>1, OriginsSame, SubmitOrders
  <1>3. ASSUME NEW status \in {"open", "terminal"}, MoveTask(t, status)
        PROVE  \A u \in Tasks : Ordered(u)
    <2>1. /\ UNCHANGED <<row, made, origin, view>>
          /\ record' = [record EXCEPT ![t].status = status]
      BY <1>3 DEF MoveTask
    <2>2. \A u \in Tasks : record'[u].sub = record[u].sub /\ Restated(row[u], row'[u])
      BY <2>1, Types DEF Records, Restated
    <2> QED
      BY <2>1, <2>2, RestatesOrdered
  <1>4. ASSUME NEW b \in BOOLEAN, StageLanding(t, b)
        PROVE  \A u \in Tasks : Ordered(u)
    <2>1. /\ UNCHANGED <<row, made, origin, view>>
          /\ record' = [record EXCEPT ![t] = Staged(record[t], row[t], b)]
      BY <1>4, Types DEF StageLanding
    <2>2. Staged(record[t], row[t], b).sub = record[t].sub
      BY TaskParts, Parts DEF Staged, Repaired, QueueFirstGap, Records, RecordInv, Stageable,
         StageLanding
    <2>3. \A u \in Tasks : record'[u].sub = record[u].sub /\ Restated(row[u], row'[u])
      BY <2>1, <2>2, Types DEF Restated
    <2> QED
      BY <2>1, <2>3, RestatesOrdered
  <1> QED
    BY <1>1, <1>2, <1>3, <1>4 DEF Tracker

\* The pass restates rows, except where it mirrors what it has read.
LEMMA PassOrders ==
  ASSUME Inv, \A u \in Tasks : OrderInv(u), NEW t \in Tasks, Pass(t)
  PROVE  \A u \in Tasks : Ordered(u)
  <1>0. row[t] \in Rows
    BY TaskParts
  <1>1. CASE ScanTracker(t)
    <2>1. UNCHANGED <<row, record, made, origin>> /\ view' = [view EXCEPT ![t] = record[t]]
      BY <1>1 DEF ScanTracker, store
    <2>2. \A u \in Tasks : view'[u] \in {NULL, view[u], record[u]} /\ Restated(row[u], row'[u])
      BY <2>1, Types DEF Restated
    <2> QED
      BY <2>1, <2>2, RestatesOrdered
  <1>2. CASE SyncSubmission(t)
    <2>1. /\ UNCHANGED <<record, made, origin>>
          /\ view[t] # NULL /\ view' = [view EXCEPT ![t] = NULL]
      BY <1>2 DEF SyncSubmission
    <2>2. view[t].sub \in Pairs
      BY <1>2, TaskParts, Parts DEF SyncSubmission, ViewInv, Nullable
    <2> DEFINE retry == view[t].state = "ready"
    <2>3. UNCHANGED <<row, exact>> \/ Enqueue(t, view[t].sub, retry, FALSE, retry)
      BY <1>2 DEF SyncSubmission
    <2>4. retry \in BOOLEAN
      OBVIOUS
    <2> HIDE DEF retry
    <2>5. /\ \A u \in Tasks : u # t => row'[u] = row[u]
          /\ row'[t] = row[t] \/ Fresh(row'[t], view[t].sub)
      <3>1. CASE UNCHANGED <<row, exact>>
        BY <3>1
      <3>2. CASE Enqueue(t, view[t].sub, retry, FALSE, retry)
        BY <2>2, <2>4, <3>2, EnqueueStep
      <3> QED
        BY <2>3, <3>1, <3>2
    <2>6. \A u \in Tasks : OriginsKept(u) /\ view'[u] \in {NULL, view[u]}
      BY <2>1, OriginsSame, Types
    <2>7. Ordered(t)
      BY <2>1, <2>5, <2>6 DEF Ordered, Fresh
    <2>8. \A u \in Tasks : u # t => Ordered(u)
      BY <2>1, <2>5, <2>6 DEF Ordered
    <2> QED
      BY <2>7, <2>8
  <1>3. CASE RetireInactive(t)
    <2>1. /\ UNCHANGED <<record, made, origin>> /\ view' = [view EXCEPT ![t] = NULL]
          /\ Cancel(t) \/ UNCHANGED <<row, exact>>
      BY <1>3 DEF RetireInactive
    <2>2. \A u \in Tasks : view'[u] \in {NULL, view[u], record[u]}
      BY <2>1, Types
    <2>3. \A u \in Tasks : Restated(row[u], row'[u])
      BY <2>1, CancelStep DEF Restated
    <2> QED
      BY <2>1, <2>2, <2>3, RestatesOrdered
  <1>4. CASE BlockPreflight(t)
    <2> DEFINE q == [row[t] EXCEPT !.state = "blocked", !.owner = NULL, !.expired = FALSE]
    <2>1. /\ q \in Rows /\ Restated(row[t], q) /\ Put(t, q)
          /\ UNCHANGED <<record, made, origin, view>>
      BY <1>0, <1>4 DEF BlockPreflight, Rows, Restated
    <2> HIDE DEF q
    <2>2. \A u \in Tasks : Restated(row[u], row'[u])
      BY <2>1, PutStep DEF Restated
    <2> QED
      BY <2>1, <2>2, RestatesOrdered
  <1>5. CASE LeaseExpires(t)
    <2> DEFINE q == [row[t] EXCEPT !.expired = TRUE]
    <2>1. /\ Restated(row[t], q) /\ row' = [row EXCEPT ![t] = q]
          /\ UNCHANGED <<record, made, origin, view>>
      BY <1>0, <1>5, Types DEF LeaseExpires, Rows, Restated
    <2> HIDE DEF q
    <2>2. \A u \in Tasks : Restated(row[u], row'[u])
      BY <2>1, Types DEF Restated
    <2> QED
      BY <2>1, <2>2, RestatesOrdered
  <1>6. CASE ClaimNext(t)
    <2> DEFINE r    == Recovered(row[t])
               mine == [r EXCEPT !.state = "integrating", !.owner = "lane",
                                 !.expired = FALSE, !.attempts = Counted(@)]
    <2>1. /\ r.state = "ready" /\ UNCHANGED <<record, made, origin, view>>
          /\ row' = [[u \in Tasks |-> Recovered(row[u])] EXCEPT ![t] = mine]
      BY <1>6 DEF ClaimNext
    <2>2. \A u \in Tasks : Restated(row[u], Recovered(row[u])) /\ Recovered(row[u]) \in Rows
      BY TaskParts, RowValues
    <2>3. r \in Rows /\ Restated(row[t], r)
      BY <2>2
    <2> HIDE DEF r
    <2>4. mine.state = "integrating" /\ mine.sub = r.sub /\ mine.cand = r.cand /\ mine.pred = r.pred
      BY <2>3 DEF Rows
    <2> HIDE DEF mine
    <2>5. Restated(row[t], mine)
      BY <2>1, <2>3, <2>4 DEF Restated
    <2>6. row'[t] = mine /\ \A u \in Tasks : u # t => row'[u] = Recovered(row[u])
      BY <2>1
    <2>7. \A u \in Tasks : Restated(row[u], row'[u])
      BY <2>2, <2>5, <2>6
    <2> QED
      BY <2>1, <2>7, RestatesOrdered
  <1> QED
    BY <1>1, <1>2, <1>3, <1>4, <1>5, <1>6 DEF Pass

\* A step of the item that may rewrite a row and a record which are not
\* integrated leaves landings alone.
LEMMA ItemOrders ==
  ASSUME Inv, NEW t \in Tasks, row[t].state # "integrated", UNCHANGED view,
         \A u \in Tasks : OriginsKept(u),
         \A u \in Tasks : u # t => row'[u] = row[u] /\ record'[u] = record[u],
         row'[t].state = "integrated" => record'[t].sub = row'[t].sub
  PROVE  \A u \in Tasks : Ordered(u)
  BY DEF Ordered

\* The item makes a commit, rewrites its own row and record, or restates them.
LEMMA ExecuteOrders ==
  ASSUME Inv, \A u \in Tasks : OrderInv(u), Execute
  PROVE  \A u \in Tasks : Ordered(u)
  <1>0. lane.pc # "idle"
    BY DEF Execute, ReleaseItem, LoseAuthority, PassGate, AuthorizeLanding, LandItem, RouteRow,
           RequeueRebased, CancelItem, CheckpointItem, PrepareCandidate, CanonicalizeCandidate,
           FailItem, RouteRecord, RouteStatus, PersistItem
  <1>1. PICK t \in Tasks : t = lane.task
    BY <1>0 DEF Inv, LaneInv
  <1>2. row[t] \in Rows /\ record[t] \in Records /\ RowInv(t) /\ RecordInv(t)
    BY TaskParts
  <1>3. ASSUME UNCHANGED <<record, made, origin, view>>,
               \/ UNCHANGED row
               \/ \E state \in {"ready", "blocked"} : FailRow(state)
               \/ Cancel(lane.task)
        PROVE  \A u \in Tasks : Ordered(u)
    <2>1. \A u \in Tasks : Restated(row[u], row'[u])
      <3>1. CASE UNCHANGED row
        BY <3>1 DEF Restated
      <3>2. ASSUME NEW state \in {"ready", "blocked"}, FailRow(state)
            PROVE  \A u \in Tasks : Restated(row[u], row'[u])
        BY <1>1, <3>2, FailStep DEF Restated
      <3>3. CASE Cancel(lane.task)
        BY <1>1, <3>3, CancelStep DEF Restated
      <3> QED
        BY <1>3, <3>1, <3>2, <3>3
    <2> QED
      BY <1>3, <2>1, RestatesOrdered
  <1>4. CASE \/ ReleaseItem \/ LoseAuthority \/ PassGate \/ AuthorizeLanding \/ LandItem
             \/ RouteRow \/ CancelItem \/ \E b \in BOOLEAN : FailItem(b)
    BY <1>3, <1>4 DEF ReleaseItem, LoseAuthority, PassGate, AuthorizeLanding, LandItem, RouteRow,
       CancelItem, FailItem, store
  <1>5. ASSUME NEW b \in BOOLEAN, PrepareCandidate(b)
        PROVE  \A u \in Tasks : Ordered(u)
    <2>1. UNCHANGED <<row, record, view>> /\ Effective(lane.item) \in Pairs
          /\ Known(t, Effective(lane.item))
      BY <1>0, <1>1, <1>5, ItemParts DEF PrepareCandidate
    <2>2. PICK p \in Pairs : p = Effective(lane.item)
      BY <2>1
    <2>3. origin[t][p.head] \in 0..MaxCommit /\ origin[t][p.head] <= made[t] + 1
      <3>1. p.head \in Commits /\ p # NULL /\ p.head <= made[t]
        BY <2>1, <2>2, OriginTypes DEF Known
      <3> QED
        BY <3>1, OriginTypes, Types DEF OrderInv
    <2>4. Make(t, origin[t][p.head]) \/ UNCHANGED <<made, origin>>
      BY <1>1, <1>5, <2>2 DEF PrepareCandidate
    <2>5. \A u \in Tasks : OriginsKept(u)
      BY <2>3, <2>4, MakeOrigins, OriginsSame
    <2> QED
      BY <2>1, <2>5 DEF Ordered
  <1>6. ASSUME NEW b \in BOOLEAN, CanonicalizeCandidate(b)
        PROVE  \A u \in Tasks : Ordered(u)
    <2>1. lane.pc = "prepared" /\ UNCHANGED <<made, origin, view>>
      BY <1>6 DEF CanonicalizeCandidate
    <2>2. row[t].state # "integrated" /\ lane.out \in Nullable(Pairs)
      BY <1>0, <1>1, <2>1, ItemParts DEF Inv, LaneInv
    <2> DEFINE q == [row[t] EXCEPT !.cand = lane.out]
    <2>3. q \in Rows /\ q.state = row[t].state
      BY <1>2, <2>2 DEF Rows
    <2>4. Put(t, q) \/ UNCHANGED <<row, exact>>
      BY <1>1, <1>6 DEF CanonicalizeCandidate
    <2> HIDE DEF q
    <2>5. row'[t].state # "integrated" /\ \A u \in Tasks : u # t => row'[u] = row[u]
      BY <2>2, <2>3, <2>4, PutStep
    <2>6. \A u \in Tasks : u # t => record'[u] = record[u]
      BY <1>1, <1>6, Types DEF CanonicalizeCandidate
    <2> QED
      BY <2>1, <2>2, <2>5, <2>6, OriginsSame, ItemOrders
  <1>7. ASSUME NEW b \in BOOLEAN, RouteRecord(b)
        PROVE  \A u \in Tasks : Ordered(u)
    <2>1. /\ lane.pc = "noting" /\ UNCHANGED <<row, made, origin, view>>
          /\ \A u \in Tasks : u # t => record'[u] = record[u]
      BY <1>1, <1>7, Types DEF RouteRecord
    <2>2. row[t].state # "integrated"
      BY <1>1, <2>1 DEF Inv, LaneInv
    <2> QED
      BY <2>1, <2>2, OriginsSame, ItemOrders
  <1>8. CASE RequeueRebased
    <2>1. /\ lane.pc = "requeueing" /\ UNCHANGED <<record, made, origin, view>>
          /\ UNCHANGED <<row, exact>> \/ (lane.out # NULL /\ Enqueue(t, lane.out, FALSE, FALSE, TRUE))
      BY <1>1, <1>8 DEF RequeueRebased
    <2>2. row[t].state # "integrated" /\ lane.out \in Nullable(Pairs)
      BY <1>0, <1>1, <2>1, ItemParts DEF Inv, LaneInv
    <2>3. row'[t].state # "integrated" /\ \A u \in Tasks : u # t => row'[u] = row[u]
      <3>1. CASE UNCHANGED <<row, exact>>
        BY <2>2, <3>1
      <3>2. CASE lane.out # NULL /\ Enqueue(t, lane.out, FALSE, FALSE, TRUE)
        <4>1. lane.out \in Pairs
          BY <2>2, <3>2 DEF Nullable
        <4> QED
          BY <2>2, <3>2, <4>1, EnqueueStep DEF Fresh
      <3> QED
        BY <2>1, <3>1, <3>2
    <2> QED
      BY <2>1, <2>2, <2>3, OriginsSame, ItemOrders
  <1>9. CASE CheckpointItem
    <2>1. lane.pc = "landed" /\ UNCHANGED <<record, made, origin, view>>
      BY <1>9 DEF CheckpointItem
    <2>2. row[t].state # "integrated" /\ lane.item.cand = lane.out /\ lane.out # NULL
      BY <1>1, <2>1 DEF Inv, LaneInv, Verified
    <2>3. CASE ~Current
      BY <1>3, <1>9, <2>1, <2>3 DEF CheckpointItem
    <2>4. CASE Current
      <3> DEFINE q == Integrated(row[t], lane.out, counter + 1)
      <3>1. row' = [row EXCEPT ![t] = q]
        BY <1>1, <1>9, <2>4, Types DEF CheckpointItem
      <3>2. q.sub = lane.out
        BY <1>2 DEF Integrated, Rows
      <3> HIDE DEF q
      <3>3. row'[t].sub = lane.out /\ \A u \in Tasks : u # t => row'[u] = row[u]
        BY <3>1, <3>2, Types
      <3>4. record[t].sub = lane.out
        BY <1>1, <2>1, <2>2, <2>4 DEF Current, TrackerNames, Effective
      <3> QED
        BY <2>1, <2>2, <3>3, <3>4, OriginsSame, ItemOrders
    <2> QED
      BY <2>3, <2>4
  <1>10. ASSUME NEW b \in BOOLEAN, RouteStatus(b)
         PROVE  \A u \in Tasks : Ordered(u)
    <2>1. /\ UNCHANGED <<row, made, origin, view>>
          /\ record'[t].sub = record[t].sub /\ \A u \in Tasks : u # t => record'[u] = record[u]
      BY <1>1, <1>2, <1>10, Types DEF RouteStatus, Records
    <2>2. \A u \in Tasks : Restated(row[u], row'[u])
      BY <2>1 DEF Restated
    <2> QED
      BY <2>1, <2>2, RestatesOrdered
  <1>11. ASSUME NEW b \in BOOLEAN, PersistItem(b)
         PROVE  \A u \in Tasks : Ordered(u)
    <2>1. lane.pc = "checkpointed" /\ UNCHANGED <<row, made, origin, view>>
      BY <1>11 DEF PersistItem
    <2>2. row[t].sub = lane.out /\ record[t].sub = lane.out
      BY <1>1, <2>1 DEF Inv, LaneInv
    <2>3. record'[t].sub = record[t].sub /\ \A u \in Tasks : u # t => record'[u] = record[u]
      BY <1>1, <1>2, <1>11, <2>2, Types DEF PersistItem, Records
    <2>4. \A u \in Tasks : Restated(row[u], row'[u])
      BY <2>1 DEF Restated
    <2> QED
      BY <2>1, <2>3, <2>4, RestatesOrdered
  <1> QED
    BY <1>4, <1>5, <1>6, <1>7, <1>8, <1>9, <1>10, <1>11 DEF Execute

\* Every step of the lane keeps the order of what a task submitted.
LEMMA NextOrders ==
  ASSUME Inv, \A u \in Tasks : OrderInv(u), [Next]_vars
  PROVE  \A u \in Tasks : Ordered(u)
  <1>1. ASSUME NEW t \in Tasks, Tracker(t) \/ Pass(t)
        PROVE  \A u \in Tasks : Ordered(u)
    BY <1>1, TrackerOrders, PassOrders
  <1>2. CASE Execute
    BY <1>2, ExecuteOrders
  <1>3. ASSUME UNCHANGED <<record, made, origin>>, \A u \in Tasks : Restated(row[u], row'[u]),
               view' = view \/ view' = [u \in Tasks |-> NULL]
        PROVE  \A u \in Tasks : Ordered(u)
    BY <1>3, RestatesOrdered
  <1>4. CASE RecoverExpired
    BY <1>3, <1>4, TaskParts, RowValues DEF RecoverExpired, Sweep
  <1>5. CASE RecoverAbandoned
    BY <1>3, <1>5, TaskParts, RowValues DEF RecoverAbandoned, Sweep
  <1>6. CASE Restart
    <2> DEFINE G(r) == IF r.owner = "lane" THEN [r EXCEPT !.owner = "gone"] ELSE r
    <2>1. /\ row' = [t \in Tasks |-> G(row[t])] /\ UNCHANGED <<record, made, origin>>
          /\ view' = [t \in Tasks |-> NULL]
      BY <1>6 DEF Restart
    <2>2. \A r \in Rows : Restated(r, G(r))
      BY DEF Rows, Restated
    <2> HIDE DEF G
    <2> QED
      BY <1>3, <2>1, <2>2, TaskParts
  <1>7. CASE UNCHANGED vars
    BY <1>3, <1>7 DEF vars, Restated
  <1> QED
    BY <1>1, <1>2, <1>4, <1>5, <1>6, <1>7 DEF Next

\* An integrated row gives way only to its own submission or a later one, for
\* every set of tasks: what a pass has read, a crash left in the record or a
\* failure queues again is never older than what landed.
THEOREM LandingsNotOvertaken == Spec => LandedNotOvertaken
  <1> DEFINE Order == \A t \in Tasks : OrderInv(t)
             Stand == \A t \in Tasks : Stands(t)
  <1>1. Init => Order
    <2> SUFFICES ASSUME Init, NEW t \in Tasks PROVE OrderInv(t)
      OBVIOUS
    <2>1. row[t].state = "absent" /\ made[t] = 0 /\ \A c \in Commits : origin[t][c] = 0
      BY DEF Init, NoRow
    <2> QED
      BY <2>1 DEF OrderInv
  <1>2. Inv /\ Order /\ [Next]_vars => Inv' /\ Order' /\ Stand
    <2> SUFFICES ASSUME Inv, Order, [Next]_vars PROVE Inv' /\ Order' /\ Stand
      OBVIOUS
    <2>1. Inv' /\ \A t \in Tasks : Ordered(t)
      BY NextInv, NextOrders
    <2> QED
      BY <2>1, OrderedKeeps, OrderedStands
  <1>3. Stand => [\A t \in Tasks : row[t].state = "integrated" =>
                    /\ row'[t].sub # NULL
                    /\ origin'[t][row'[t].sub.head] >= origin[t][row[t].sub.head]]_vars
    BY DEF Stands
  <1> QED
    BY <1>1, <1>2, <1>3, LaneInvariance, PTL DEF Spec, LandedNotOvertaken

-----------------------------------------------------------------------------
(***************************************************************************)
(* The refinement of Delivery.                                             *)
(***************************************************************************)

\* Rows that are only restated deliver what they did.
LEMMA RestatesUnseen ==
  ASSUME \A t \in Tasks : Restated(row[t], row'[t]), UNCHANGED <<record, epic>>
  PROVE  UNCHANGED D!vars
  <1>1. \A t \in Tasks : (IF row'[t].state = "integrated" THEN row'[t].sub.head ELSE NULL)
                           = (IF row[t].state = "integrated" THEN row[t].sub.head ELSE NULL)
    BY DEF Restated
  <1>2. UNCHANGED <<delivered, noted, auditing>>
    BY <1>1 DEF delivered, noted, auditing
  <1> QED
    BY <1>2 DEF D!vars

\* The same for a step on one task.
LEMMA RestateUnseen ==
  ASSUME NEW t \in Tasks, Restated(row[t], row'[t]), UNCHANGED <<record, epic>>,
         \A u \in Tasks : u # t => row'[u] = row[u]
  PROVE  UNCHANGED D!vars
  <1>1. \A u \in Tasks : Restated(row[u], row'[u])
    BY DEF Restated
  <1> QED
    BY <1>1, RestatesUnseen

\* Submissions, moves of the task and the replay of landings.
LEMMA TrackerRefines ==
  ASSUME Inv, NEW t \in Tasks, Tracker(t)
  PROVE  D!Next \/ UNCHANGED D!vars
  <1>1. ASSUME NEW p \in Pairs, NEW queued \in BOOLEAN, Submit(t, p, queued)
        PROVE  D!Next
    <2>1. /\ record' = [record EXCEPT ![t] = [status |-> "ready", sub |-> p, state |-> "ready"]]
          /\ UNCHANGED epic
          /\ Enqueue(t, p, TRUE, TRUE, FALSE) \/ UNCHANGED <<row, exact>>
      BY <1>1 DEF Submit
    <2>2. /\ \A u \in Tasks : u # t => row'[u] = row[u]
          /\ row'[t].state # "integrated" \/ row'[t] = row[t]
      <3>1. CASE Enqueue(t, p, TRUE, TRUE, FALSE)
        BY <3>1, EnqueueStep DEF Fresh
      <3>2. CASE UNCHANGED <<row, exact>>
        BY <3>2
      <3> QED
        BY <2>1, <3>1, <3>2
    <2>3. record'[t].state = "ready" /\ record'[t].status = "ready" /\ Only(t)
      BY <2>1, <2>2, Types DEF Only
    <2> QED
      BY <2>1, <2>2, <2>3, TakesBack
  <1>2. ASSUME NEW queued \in BOOLEAN, SubmitNew(t, queued)
        PROVE  D!Next
    <2> DEFINE p == [head |-> made[t] + 1, moved |-> FALSE]
    <2>1. p \in Pairs /\ Submit(t, p, queued)
      BY <1>2, Types, Constants DEF SubmitNew, Make, Pairs, Commits
    <2> HIDE DEF p
    <2> QED
      BY <1>1, <2>1
  <1>3. ASSUME NEW queued \in BOOLEAN, SubmitAgain(t, queued)
        PROVE  D!Next
    <2>1. record[t].sub \in Pairs /\ Submit(t, record[t].sub, queued)
      BY <1>3, TaskParts, Parts DEF SubmitAgain, Nullable
    <2> QED
      BY <1>1, <2>1
  <1>4. ASSUME NEW status \in {"open", "terminal"}, MoveTask(t, status)
        PROVE  D!Next
    <2>1. UNCHANGED <<row, epic>> /\ record' = [record EXCEPT ![t].status = status]
      BY <1>4 DEF MoveTask
    <2>2. record'[t].status = status /\ record'[t].state = record[t].state
          /\ record'[t].sub = record[t].sub /\ Only(t)
      BY <2>1, TaskParts, Types DEF Only, Records
    <2> QED
      BY <2>1, <2>2, TakesBack
  <1>5. ASSUME NEW b \in BOOLEAN, StageLanding(t, b)
        PROVE  D!Next \/ UNCHANGED D!vars
    <2>1. row[t].state = "integrated" => row[t].sub.head \in Commits
      BY TaskParts DEF RowInv
    <2>2. record' = [record EXCEPT ![t] = Staged(record[t], row[t], b)] /\ UNCHANGED <<row, epic>>
      BY <1>5, Types DEF StageLanding
    <2> QED
      BY <2>1, <2>2, Types, StagingRefines
  <1> QED
    BY <1>2, <1>3, <1>4, <1>5 DEF Tracker

\* The pass replaces or lets go rows; what it reads is not seen.
LEMMA PassRefines ==
  ASSUME Inv, NEW t \in Tasks, Pass(t)
  PROVE  D!Next \/ UNCHANGED D!vars
  <1>0. row[t] \in Rows
    BY TaskParts
  <1>1. CASE ScanTracker(t)
    BY <1>1, Unseen DEF ScanTracker, store
  <1>2. CASE SyncSubmission(t)
    <2>1. UNCHANGED <<record, epic>>
      BY <1>2 DEF SyncSubmission
    <2>2. view[t].sub \in Pairs
      BY <1>2, TaskParts, Parts DEF SyncSubmission, ViewInv, Nullable
    <2> DEFINE retry == view[t].state = "ready"
    <2>3. UNCHANGED <<row, exact>> \/ Enqueue(t, view[t].sub, retry, FALSE, retry)
      BY <1>2 DEF SyncSubmission
    <2>4. retry \in BOOLEAN
      OBVIOUS
    <2> HIDE DEF retry
    <2>5. CASE UNCHANGED <<row, exact>>
      BY <2>1, <2>5, Unseen
    <2>6. CASE Enqueue(t, view[t].sub, retry, FALSE, retry)
      <3>1. Only(t) /\ (row'[t].state # "integrated" \/ row'[t] = row[t])
        BY <2>1, <2>2, <2>4, <2>6, EnqueueStep DEF Only, Fresh
      <3> QED
        BY <2>1, <3>1, TakesBack
    <2> QED
      BY <2>3, <2>5, <2>6
  <1>3. CASE RetireInactive(t)
    <2>1. UNCHANGED <<record, epic>> /\ (Cancel(t) \/ UNCHANGED <<row, exact>>)
      BY <1>3 DEF RetireInactive
    <2> QED
      BY <2>1, CancelStep, RestateUnseen, Unseen
  <1>4. CASE BlockPreflight(t)
    <2> DEFINE q == [row[t] EXCEPT !.state = "blocked", !.owner = NULL, !.expired = FALSE]
    <2>1. q \in Rows /\ Restated(row[t], q) /\ Put(t, q) /\ UNCHANGED <<record, epic>>
      BY <1>0, <1>4 DEF BlockPreflight, Rows, Restated
    <2> HIDE DEF q
    <2> QED
      BY <2>1, PutStep, RestateUnseen
  <1>5. CASE LeaseExpires(t)
    <2> DEFINE q == [row[t] EXCEPT !.expired = TRUE]
    <2>1. Restated(row[t], q) /\ row' = [row EXCEPT ![t] = q] /\ UNCHANGED <<record, epic>>
      BY <1>0, <1>5, Types DEF LeaseExpires, Rows, Restated
    <2> HIDE DEF q
    <2> QED
      BY <2>1, Types, RestateUnseen
  <1>6. CASE ClaimNext(t)
    <2> DEFINE r    == Recovered(row[t])
               mine == [r EXCEPT !.state = "integrating", !.owner = "lane",
                                 !.expired = FALSE, !.attempts = Counted(@)]
    <2>1. /\ r.state = "ready" /\ UNCHANGED <<record, epic>>
          /\ row' = [[u \in Tasks |-> Recovered(row[u])] EXCEPT ![t] = mine]
      BY <1>6 DEF ClaimNext
    <2>2. \A u \in Tasks : Restated(row[u], Recovered(row[u])) /\ Recovered(row[u]) \in Rows
      BY TaskParts, RowValues
    <2>3. r \in Rows /\ Restated(row[t], r)
      BY <2>2
    <2> HIDE DEF r
    <2>4. mine.state = "integrating" /\ mine.sub = r.sub /\ mine.cand = r.cand /\ mine.pred = r.pred
      BY <2>3 DEF Rows
    <2> HIDE DEF mine
    <2>5. Restated(row[t], mine)
      BY <2>1, <2>3, <2>4 DEF Restated
    <2>6. \A u \in Tasks : Restated(row[u], row'[u])
      <3>1. row'[t] = mine /\ \A u \in Tasks : u # t => row'[u] = Recovered(row[u])
        BY <2>1
      <3> QED
        BY <2>2, <2>5, <3>1
    <2> QED
      BY <2>1, <2>6, RestatesUnseen
  <1> QED
    BY <1>1, <1>2, <1>3, <1>4, <1>5, <1>6 DEF Pass

\* The item lands a commit, delivers and notes it, or takes its row back.
LEMMA ExecuteRefines ==
  ASSUME Inv, Execute
  PROVE  D!Next \/ UNCHANGED D!vars
  <1>0. lane.pc # "idle"
    BY DEF Execute, ReleaseItem, LoseAuthority, PassGate, AuthorizeLanding, LandItem, RouteRow,
           RequeueRebased, CancelItem, CheckpointItem, PrepareCandidate, CanonicalizeCandidate,
           FailItem, RouteRecord, RouteStatus, PersistItem
  <1>1. PICK t \in Tasks : t = lane.task
    BY <1>0 DEF Inv, LaneInv
  <1>2. row[t] \in Rows /\ record[t] \in Records /\ RowInv(t) /\ RecordInv(t)
    BY TaskParts
  <1>3. CASE ReleaseItem
    BY <1>1, <1>3, FailStep, RestateUnseen DEF ReleaseItem
  <1>4. CASE \/ LoseAuthority \/ PassGate \/ AuthorizeLanding
             \/ \E b \in BOOLEAN : FailItem(b) \/ PrepareCandidate(b)
    <2>1. UNCHANGED <<row, record, epic>>
      BY <1>4 DEF LoseAuthority, PassGate, AuthorizeLanding, FailItem, PrepareCandidate, store
    <2> QED
      BY <2>1, Unseen
  <1>5. CASE LandItem
    <2>1. /\ UNCHANGED <<row, record>> /\ lane.out \in Pairs
          /\ epic' = [epic EXCEPT ![t] = @ \cup {lane.out.head}]
      BY <1>0, <1>1, <1>5, ItemParts DEF LandItem, Inv, LaneInv, Nullable, Verified
    <2>2. lane.out.head \in Commits /\ UNCHANGED <<delivered, noted, auditing>>
      BY <2>1, Parts DEF delivered, noted, auditing
    <2>3. D!Land(t, lane.out.head)
      BY <2>1, <2>2 DEF D!Land
    <2> QED
      BY <2>2, <2>3 DEF D!Next
  <1>6. CASE RouteRow
    <2>1. PICK state \in {"ready", "blocked"} : FailRow(state)
      BY <1>6 DEF RouteRow
    <2> QED
      BY <1>1, <1>6, <2>1, FailStep, RestateUnseen DEF RouteRow
  <1>7. CASE RequeueRebased
    <2>1. UNCHANGED <<record, epic>>
      BY <1>7 DEF RequeueRebased
    <2>2. CASE lane.out = NULL
      BY <1>7, <2>1, <2>2, Unseen DEF RequeueRebased
    <2>3. CASE lane.out # NULL
      <3>1. Enqueue(t, lane.out, FALSE, FALSE, TRUE) /\ lane.out \in Pairs
        BY <1>0, <1>1, <1>7, <2>3, ItemParts DEF RequeueRebased, Nullable
      <3>2. Only(t) /\ (row'[t].state # "integrated" \/ row'[t] = row[t])
        BY <2>1, <3>1, EnqueueStep DEF Only, Fresh
      <3> QED
        BY <2>1, <3>2, TakesBack
    <2> QED
      BY <2>2, <2>3
  <1>8. CASE CancelItem
    BY <1>1, <1>8, CancelStep, RestateUnseen DEF CancelItem
  <1>9. CASE CheckpointItem
    <2>1. UNCHANGED <<record, epic>> /\ lane.pc = "landed"
      BY <1>9 DEF CheckpointItem
    <2>2. CASE ~Current
      BY <1>9, <2>1, <2>2, Unseen DEF CheckpointItem
    <2>3. CASE Current
      <3> DEFINE q == Integrated(row[t], lane.out, counter + 1)
      <3>1. row' = [row EXCEPT ![t] = q]
        BY <1>1, <1>9, <2>3, Types DEF CheckpointItem
      <3>2. q.state = "integrated" /\ q.sub = lane.out
        BY <1>2 DEF Integrated, Rows
      <3>3. lane.out.head \in epic[t] /\ epic[t] \subseteq Commits
        BY <1>1, <2>1, TaskParts DEF Inv, LaneInv
      <3> HIDE DEF q
      <3>4. row'[t] = q /\ Only(t)
        BY <2>1, <3>1, Types DEF Only
      <3> QED
        BY <2>1, <3>2, <3>3, <3>4, Delivers
    <2> QED
      BY <2>2, <2>3
  <1>10. ASSUME NEW b \in BOOLEAN, CanonicalizeCandidate(b)
         PROVE  D!Next
    <2>1. lane.pc = "prepared" /\ UNCHANGED epic
      BY <1>10 DEF CanonicalizeCandidate
    <2>2. row[t].state # "integrated" /\ record[t].state # "integrated"
      BY <1>1, <1>2, <2>1 DEF Inv, LaneInv, RecordInv
    <2>3. lane.out \in Nullable(Pairs)
      BY <1>0, <1>1, ItemParts
    <2>4. /\ record'[t].state = record[t].state /\ record'[t].status = record[t].status
          /\ \A u \in Tasks : u # t => record'[u] = record[u]
      BY <1>1, <1>2, <1>10, Types DEF CanonicalizeCandidate, Records
    <2> DEFINE q == [row[t] EXCEPT !.cand = lane.out]
    <2>5. q \in Rows /\ q.state = row[t].state
      BY <1>2, <2>3 DEF Rows
    <2>6. Put(t, q) \/ UNCHANGED <<row, exact>>
      BY <1>1, <1>10 DEF CanonicalizeCandidate
    <2> HIDE DEF q
    <2>7. row'[t].state # "integrated" /\ \A u \in Tasks : u # t => row'[u] = row[u]
      BY <2>2, <2>5, <2>6, PutStep
    <2>8. Only(t)
      BY <2>4, <2>7 DEF Only
    <2> QED
      BY <2>1, <2>2, <2>4, <2>7, <2>8, TakesBack
  <1>11. ASSUME NEW b \in BOOLEAN, RouteRecord(b)
         PROVE  D!Next
    <2>1. /\ UNCHANGED <<row, epic>> /\ record'[t].state # "integrated"
          /\ record'[t].status = record[t].status
          /\ \A u \in Tasks : u # t => record'[u] = record[u]
      BY <1>1, <1>2, <1>11, Types DEF RouteRecord, Records
    <2>2. Only(t)
      BY <2>1 DEF Only
    <2> QED
      BY <2>1, <2>2, TakesBack
  <1>12. ASSUME NEW b \in BOOLEAN, RouteStatus(b)
         PROVE  D!Next
    <2>1. /\ UNCHANGED <<row, epic>> /\ record'[t].state = record[t].state
          /\ record'[t].sub = record[t].sub /\ record'[t].status \in {record[t].status, "open"}
          /\ \A u \in Tasks : u # t => record'[u] = record[u]
      BY <1>1, <1>2, <1>12, Types DEF RouteStatus, Records
    <2>2. Only(t)
      BY <2>1 DEF Only
    <2> QED
      BY <2>1, <2>2, TakesBack
  <1>13. ASSUME NEW b \in BOOLEAN, PersistItem(b)
         PROVE  D!Next \/ UNCHANGED D!vars
    <2>1. UNCHANGED <<row, epic>> /\ lane.pc = "checkpointed"
      BY <1>13 DEF PersistItem
    <2>2. row[t].state = "integrated" /\ row[t].sub = lane.out /\ row[t].sub.head \in Commits
      BY <1>1, <1>2, <2>1, TaskParts DEF Inv, LaneInv, RowInv
    <2>3. lane.out \in Nullable(Pairs)
      BY <1>0, <1>1, ItemParts
    <2>4. CASE exact /\ b
      <3>1. /\ record'[t].state = "integrated" /\ record'[t].sub = lane.out
            /\ record'[t].status = record[t].status
            /\ \A u \in Tasks : u # t => record'[u] = record[u]
        BY <1>1, <1>2, <1>13, <2>4, Types DEF PersistItem, Records
      <3>2. Only(t)
        BY <2>1, <3>1 DEF Only
      <3> QED
        BY <2>1, <2>2, <3>1, <3>2, Notes
    <2>5. CASE ~(exact /\ b)
      <3>1. UNCHANGED record
        BY <1>1, <1>13, <2>5, Types DEF PersistItem
      <3> QED
        BY <2>1, <3>1, Unseen
    <2> QED
      BY <2>4, <2>5
  <1> QED
    BY <1>3, <1>4, <1>5, <1>6, <1>7, <1>8, <1>9, <1>10, <1>11, <1>12, <1>13 DEF Execute

\* Every step of the lane is a step of Delivery, or is not seen.
LEMMA NextRefines == Inv /\ [Next]_vars => [D!Next]_(D!vars)
  <1> SUFFICES ASSUME Inv, [Next]_vars PROVE D!Next \/ UNCHANGED D!vars
    OBVIOUS
  <1>1. ASSUME NEW t \in Tasks, Tracker(t) \/ Pass(t)
        PROVE  D!Next \/ UNCHANGED D!vars
    BY <1>1, TrackerRefines, PassRefines
  <1>2. CASE Execute
    BY <1>2, ExecuteRefines
  <1>3. CASE RecoverExpired
    BY <1>3, TaskParts, RowValues, RestatesUnseen DEF RecoverExpired, Sweep
  <1>4. CASE RecoverAbandoned
    BY <1>4, TaskParts, RowValues, RestatesUnseen DEF RecoverAbandoned, Sweep
  <1>5. CASE Restart
    <2> DEFINE G(r) == IF r.owner = "lane" THEN [r EXCEPT !.owner = "gone"] ELSE r
    <2>1. row' = [t \in Tasks |-> G(row[t])] /\ UNCHANGED <<record, epic>>
      BY <1>5 DEF Restart
    <2>2. \A r \in Rows : Restated(r, G(r))
      BY DEF Rows, Restated
    <2> HIDE DEF G
    <2> QED
      BY <2>1, <2>2, TaskParts, RestatesUnseen
  <1>6. CASE UNCHANGED vars
    BY <1>6, Unseen DEF vars
  <1> QED
    BY <1>1, <1>2, <1>3, <1>4, <1>5, <1>6 DEF Next

\* An empty queue has delivered nothing.
LEMMA InitRefines == Init => D!Init
  <1> SUFFICES ASSUME Init PROVE D!Init
    OBVIOUS
  <1>1. \A t \in Tasks : /\ row[t].state = "absent" /\ record[t].state = "none"
                         /\ record[t].status = "open"
    BY DEF Init, NoRow, NoRecord
  <1>2. /\ delivered = [t \in Tasks |-> NULL] /\ noted = [t \in Tasks |-> NULL]
        /\ auditing = [t \in Tasks |-> FALSE]
    BY <1>1 DEF delivered, noted, auditing
  <1>3. epic \in [Tasks -> SUBSET Commits]
    BY DEF Init
  <1>4. \A t \in Tasks : {delivered[t], noted[t]} \subseteq epic[t] \cup {NULL}
    BY <1>2
  <1>5. delivered \in [Tasks -> Commits \cup {NULL}] /\ noted \in [Tasks -> Commits \cup {NULL}]
    BY <1>2
  <1> QED
    BY <1>2, <1>3, <1>4, <1>5 DEF D!Init

\* The lane keeps the promise of the queue, for every set of tasks: what a pass
\* mirrors, a lease loses, a crash cuts short or a replay repairs are steps of
\* Delivery.
THEOREM LaneImplementsDelivery == Spec => LaneDelivers
  <1>1. Init => D!Init
    BY InitRefines
  <1>2. Inv /\ [Next]_vars => [D!Next]_(D!vars)
    BY NextRefines
  <1> QED
    BY <1>1, <1>2, LaneInvariance, PTL DEF Spec, LaneDelivers, D!Spec

=============================================================================
