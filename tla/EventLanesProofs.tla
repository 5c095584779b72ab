-------------------------- MODULE EventLanesProofs --------------------------
(***************************************************************************)
(* Theorems about EventLanes, for any number of scans, callers, events and *)
(* decisions.  The inductive invariant IInv says how the three tables that *)
(* the code writes apart hang together: the generations handed out, the    *)
(* rows the cursors name, and the fence between the two lanes.             *)
(***************************************************************************)
EXTENDS EventLanes, TLAPS

Highest == Larger(meta["snapshot"], meta["event"])

\* Every generation in use was handed out by the two counters, once.
GenerationsDistinct ==
  /\ order # NULL => order.gen <= Highest
  /\ \A s \in Scans : scans[s] # NULL => scans[s] <= Highest
  /\ \A c \in Calls : Open(c) => calls[c].gen <= Highest
  /\ \A s, t \in Scans : scans[s] # NULL /\ scans[s] = scans[t] => s = t
  /\ \A c, d \in Calls : Open(c) /\ Open(d) /\ calls[c].gen = calls[d].gen => c = d
  /\ \A s \in Scans, c \in Calls : Open(c) => scans[s] # calls[c].gen

\* What a live row's flags say of its past.
RowOK(r) ==
  /\ ~r.claimed => r.state = "queued"
  /\ r.quarantined => r.detached
  /\ r.detached => r.claimed
  /\ r.state = "detached" => r.detached

RowsOK == \A i \in LiveRows : RowOK(jobs[i])

\* A cursor names a row, of its lane and its event.
CursorsNameRows ==
  \A lane \in Lanes : cursor[lane] # NULL =>
    /\ order # NULL
    /\ jobs[cursor[lane].seq] # NULL
    /\ jobs[cursor[lane].seq].lane = lane
    /\ jobs[cursor[lane].seq].event = cursor[lane].event

AttachedNamed ==
  \A i \in Attached : cursor[jobs[i].lane] = [event |-> jobs[i].event, seq |-> i]

\* Beside a live imperative row, a fact row lives on only behind a lost call.
LaneFence ==
  \A i, k \in LiveRows :
    jobs[i].lane = "imperative" /\ jobs[k].lane = "fact" => jobs[k].detached

\* An event that overtook a call has a row that was live during the call.
OvertakersRan ==
  \A c \in Calls :
    Open(c) /\ Stale(calls[c].gen) /\ order.rev \in Events =>
      /\ cursor["imperative"] # NULL
      /\ cursor["imperative"].event = order.rev
      /\ cursor["imperative"].seq \in since[c]

AnswersAreRows ==
  \A c \in Calls : calls[c] # NULL /\ calls[c].job # NULL => jobs[calls[c].job] # NULL

IInv ==
  /\ EventLanesTypeOK
  /\ GenerationsDistinct
  /\ NoConflictingSnapshot
  /\ RowsOK
  /\ CursorsNameRows
  /\ AttachedNamed
  /\ LaneFence
  /\ UnclaimedIsCurrent
  /\ OvertakersRan
  /\ AnsweredEventsRan
  /\ AnswersAreRows

-----------------------------------------------------------------------------
(***************************************************************************)
(* Generations.                                                            *)
(***************************************************************************)

\* A new generation is above every one in use.
LEMMA NextIsNew ==
  ASSUME IInv, NEW key \in {"snapshot", "event"}
  PROVE  /\ Highest \in Nat
         /\ NextGeneration(key) = Highest + 1
<1>1. meta["snapshot"] \in Nat /\ meta["event"] \in Nat
  BY LanesAssumption DEF IInv, EventLanesTypeOK
<1>2. order # NULL => order.gen \in Nat
  BY DEF IInv, EventLanesTypeOK, Nullable, Ordering, Gens
<1>3. order # NULL => order.gen <= Highest
  BY DEF IInv, GenerationsDistinct
<1>4. Highest \in Nat /\ Highest = Larger(meta["snapshot"], meta["event"])
  BY <1>1 DEF Highest, Larger
<1>5. Larger(Highest, IF order = NULL THEN 0 ELSE order.gen) = Highest
  BY <1>2, <1>3, <1>4 DEF Larger
<1> QED
  BY <1>4, <1>5 DEF NextGeneration

\* Handing one out makes it the highest, and keeps the counters' type.
LEMMA AllocateRaises ==
  ASSUME IInv, NEW key \in {"snapshot", "event"}, Allocate(key)
  PROVE  /\ NextGeneration(key) \in Gens
         /\ Highest' = NextGeneration(key)
         /\ meta' \in [{"snapshot", "event"} -> 0..MaxGen]
<1> DEFINE g == NextGeneration(key)
<1>1. Highest \in Nat /\ g = Highest + 1
  BY NextIsNew
<1>2. g \in Gens
  BY <1>1, LanesAssumption DEF Allocate, Gens
<1>3. meta \in [{"snapshot", "event"} -> 0..MaxGen]
  BY DEF IInv, EventLanesTypeOK
<1>4. meta' = [meta EXCEPT ![key] = g]
  BY DEF Allocate
<1> HIDE DEF g
<1>5. meta' \in [{"snapshot", "event"} -> 0..MaxGen]
  BY <1>2, <1>3, <1>4, LanesAssumption DEF Gens
<1>6. Highest' = g
  <2>1. meta["snapshot"] \in Nat /\ meta["event"] \in Nat
    BY <1>3, LanesAssumption
  <2>2. meta["snapshot"] <= Highest /\ meta["event"] <= Highest
    BY <2>1 DEF Highest, Larger
  <2>3. CASE key = "snapshot"
    <3>1. meta'["snapshot"] = g /\ meta'["event"] = meta["event"]
      BY <2>3, <1>3, <1>4
    <3> QED
      BY <3>1, <2>1, <2>2, <1>1 DEF Highest, Larger
  <2>4. CASE key = "event"
    <3>1. meta'["event"] = g /\ meta'["snapshot"] = meta["snapshot"]
      BY <2>4, <1>3, <1>4
    <3> QED
      BY <3>1, <2>1, <2>2, <1>1 DEF Highest, Larger
  <2> QED
    BY <2>3, <2>4
<1> QED
  BY <1>2, <1>5, <1>6 DEF g

\* A generation that ends, or that the ordering takes over, leaves the others
\* distinct.
LEMMA GenerationsEnd ==
  ASSUME IInv, meta' = meta,
         \A s \in Scans : scans'[s] = NULL \/ scans'[s] = scans[s],
         \A c \in Calls : Open(c)' => Open(c) /\ calls'[c].gen = calls[c].gen,
         order' # NULL => order'.gen <= Highest
  PROVE  GenerationsDistinct'
<1>1. Highest' = Highest
  BY DEF Highest
<1>2. GenerationsDistinct
  BY DEF IInv
<1>3. \A s, t \in Scans : scans'[s] # NULL /\ scans'[s] = scans'[t] => s = t
  BY <1>2 DEF GenerationsDistinct
<1>4. \A c, d \in Calls : Open(c)' /\ Open(d)' /\ calls'[c].gen = calls'[d].gen => c = d
  BY <1>2 DEF GenerationsDistinct
<1>5. \A s \in Scans, c \in Calls : Open(c)' => scans'[s] # calls'[c].gen
  <2> SUFFICES ASSUME NEW s \in Scans, NEW c \in Calls, Open(c)'
               PROVE  scans'[s] # calls'[c].gen
    OBVIOUS
  <2>1. Open(c) /\ calls'[c].gen = calls[c].gen /\ calls[c].gen # NULL
    BY DEF Open
  <2> QED
    BY <1>2, <2>1 DEF GenerationsDistinct
<1>6. \A s \in Scans : scans'[s] # NULL => scans'[s] <= Highest
  BY <1>2 DEF GenerationsDistinct
<1>7. \A c \in Calls : Open(c)' => calls'[c].gen <= Highest
  BY <1>2 DEF GenerationsDistinct
<1> HIDE DEF Highest
<1> QED
  BY <1>1, <1>3, <1>4, <1>5, <1>6, <1>7 DEF GenerationsDistinct

\* The ordering never meets an unused generation that it holds.
LEMMA OrderNotPending ==
  ASSUME order' # NULL => /\ \A s \in Scans : scans'[s] # order'.gen
                          /\ \A c \in Calls : Open(c)' => calls'[c].gen # order'.gen
  PROVE  NoConflictingSnapshot'
BY DEF NoConflictingSnapshot, Pending

LEMMA PendingNotOrdered ==
  ASSUME NoConflictingSnapshot, order # NULL
  PROVE  /\ \A s \in Scans : scans[s] # order.gen
         /\ \A c \in Calls : Open(c) => calls[c].gen # order.gen
BY DEF NoConflictingSnapshot, Pending

\* What depends on the tables only.
LEMMA TablesKept ==
  ASSUME IInv, UNCHANGED tables
  PROVE  RowsOK' /\ CursorsNameRows' /\ AttachedNamed' /\ LaneFence' /\ UnclaimedIsCurrent'
<1> USE DEF tables
<1>1. LiveRows' = LiveRows /\ Attached' = Attached
  BY DEF LiveRows, Live, Attached
<1> QED
  BY <1>1 DEF IInv, RowsOK, CursorsNameRows, AttachedNamed, LaneFence, UnclaimedIsCurrent

-----------------------------------------------------------------------------
(***************************************************************************)
(* Steps that touch one generation and no row.                             *)
(***************************************************************************)

LEMMA BeginScanKeeps ==
  ASSUME IInv, NEW s \in Scans, BeginScan(s)
  PROVE  IInv'
<1> DEFINE g == NextGeneration("snapshot")
<1>1. g \in Gens /\ Highest' = g /\ meta' \in [{"snapshot", "event"} -> 0..MaxGen]
  BY AllocateRaises DEF BeginScan
<1>2. Highest \in Nat /\ g = Highest + 1
  BY NextIsNew
<1>3. scans' = [scans EXCEPT ![s] = g] /\ UNCHANGED <<tables, calls, since>>
  BY DEF BeginScan
<1>4. scans \in [Scans -> Nullable(Gens)]
  BY DEF IInv, EventLanesTypeOK
<1>5. EventLanesTypeOK'
  BY <1>1, <1>3, <1>4 DEF IInv, EventLanesTypeOK, tables, Open, Nullable
<1>6. /\ \A t \in Scans : scans[t] # NULL => scans[t] \in Nat /\ scans[t] < g
      /\ \A c \in Calls : Open(c) => calls[c].gen \in Nat /\ calls[c].gen < g
      /\ order # NULL => order.gen \in Nat /\ order.gen < g
  BY <1>2 DEF IInv, GenerationsDistinct, EventLanesTypeOK, Nullable, Gens, CallRecord, Ordering, Open
<1>7. /\ \A c \in Calls : Open(c)' <=> Open(c)
      /\ calls' = calls /\ order' = order /\ since' = since
  BY <1>3 DEF Open, tables
<1>8. /\ g \in Nat /\ g # NULL /\ scans'[s] = g
      /\ \A t \in Scans : t # s => scans'[t] = scans[t]
  BY <1>1, <1>3, <1>4, LanesAssumption DEF Gens
<1> HIDE DEF g
<1>9. GenerationsDistinct'
  <2>1. \A t \in Scans : scans'[t] # NULL => scans'[t] <= g /\ (t # s => scans'[t] # g)
    BY <1>6, <1>8
  <2>2. \A t, u \in Scans : scans'[t] # NULL /\ scans'[t] = scans'[u] => t = u
    BY <2>1, <1>8 DEF IInv, GenerationsDistinct
  <2>3. \A t \in Scans, c \in Calls : Open(c) => scans'[t] # calls[c].gen
    BY <1>6, <1>8 DEF IInv, GenerationsDistinct
  <2>4. \A c \in Calls : Open(c) => calls[c].gen <= g
    BY <1>6, <1>8
  <2>5. order # NULL => order.gen <= g
    BY <1>6, <1>8
  <2> QED
    BY <1>1, <1>7, <2>1, <2>2, <2>3, <2>4, <2>5 DEF GenerationsDistinct, g, IInv
<1>10. NoConflictingSnapshot'
  <2>1. order # NULL => \A t \in Scans : scans'[t] # order.gen
    BY <1>6, <1>8, PendingNotOrdered DEF IInv
  <2>2. order # NULL => \A c \in Calls : Open(c) => calls[c].gen # order.gen
    BY PendingNotOrdered DEF IInv
  <2> QED
    BY <1>7, <2>1, <2>2, OrderNotPending
<1>11. OvertakersRan' /\ AnsweredEventsRan' /\ AnswersAreRows'
  BY <1>3, <1>7 DEF IInv, OvertakersRan, AnsweredEventsRan, AnswersAreRows, Stale, tables
<1> QED
  BY <1>3, <1>5, <1>9, <1>10, <1>11, TablesKept DEF IInv

LEMMA DropScanKeeps ==
  ASSUME IInv, NEW s \in Scans, DropScan(s)
  PROVE  IInv'
<1> USE DEF DropScan, EndScan
<1>1. \A t \in Scans : scans'[t] = NULL \/ scans'[t] = scans[t]
  BY DEF IInv, EventLanesTypeOK
<1>2. \A c \in Calls : Open(c)' <=> Open(c)
  BY DEF Open
<1>3. EventLanesTypeOK'
  BY DEF IInv, EventLanesTypeOK, tables, Open, Nullable
<1>4. order # NULL => order.gen <= Highest
  BY DEF IInv, GenerationsDistinct
<1>5. GenerationsDistinct'
  BY <1>1, <1>2, <1>4, GenerationsEnd DEF tables
<1>6. order # NULL => order.gen # NULL
  BY LanesAssumption DEF IInv, EventLanesTypeOK, Nullable, Ordering
<1>7. NoConflictingSnapshot'
  BY <1>1, <1>2, <1>6, PendingNotOrdered, OrderNotPending DEF IInv, tables
<1>8. OvertakersRan' /\ AnsweredEventsRan' /\ AnswersAreRows'
  BY <1>2 DEF IInv, OvertakersRan, AnsweredEventsRan, AnswersAreRows, Stale, tables
<1> QED
  BY <1>3, <1>5, <1>7, <1>8, TablesKept DEF IInv

LEMMA BeginCallKeeps ==
  ASSUME IInv, NEW c \in Calls, NEW e \in Events, BeginCall(c, e)
  PROVE  IInv'
<1> DEFINE g == NextGeneration("event")
           r == [event |-> e, gen |-> g, job |-> NULL]
<1>1. g \in Gens /\ Highest' = g /\ meta' \in [{"snapshot", "event"} -> 0..MaxGen]
  BY AllocateRaises DEF BeginCall
<1>2. Highest \in Nat /\ g = Highest + 1
  BY NextIsNew
<1>3. /\ calls' = [calls EXCEPT ![c] = r]
      /\ since' = [since EXCEPT ![c] = LiveRows]
      /\ UNCHANGED <<tables, scans>>
      /\ ~Open(c)
  BY DEF BeginCall
<1>4. calls \in [Calls -> Nullable(CallRecord)] /\ since \in [Calls -> SUBSET Seqs]
  BY DEF IInv, EventLanesTypeOK
<1>5. /\ g \in Nat /\ g # NULL
      /\ r \in CallRecord /\ r # NULL /\ r.gen = g /\ r.job = NULL
  BY <1>1, LanesAssumption DEF Gens, CallRecord, Nullable
<1>6. /\ \A t \in Scans : scans[t] # NULL => scans[t] \in Nat /\ scans[t] < g
      /\ \A d \in Calls : Open(d) => calls[d].gen \in Nat /\ calls[d].gen < g
      /\ order # NULL => order.gen \in Nat /\ order.gen < g
  BY <1>2 DEF IInv, GenerationsDistinct, EventLanesTypeOK, Nullable, Gens, CallRecord, Ordering, Open
<1> HIDE DEF g, r
<1>7. /\ calls'[c] = r
      /\ \A d \in Calls : d # c => calls'[d] = calls[d] /\ since'[d] = since[d]
      /\ Open(c)' /\ calls'[c].gen = g
      /\ \A d \in Calls : d # c => (Open(d)' <=> Open(d))
  BY <1>3, <1>4, <1>5 DEF Open
<1>8. UNCHANGED <<jobs, cursor, order, seq, scans>>
  BY <1>3 DEF tables
<1>9. EventLanesTypeOK'
  <2>1. calls' \in [Calls -> Nullable(CallRecord)]
    BY <1>3, <1>4, <1>5 DEF Nullable
  <2>2. since' \in [Calls -> SUBSET Seqs]
    BY <1>3, <1>4 DEF LiveRows
  <2>3. \A d \in Calls : calls'[d] # NULL => (Open(d)' <=> calls'[d].job = NULL)
    BY <1>5, <1>7 DEF IInv, EventLanesTypeOK
  <2> QED
    BY <1>1, <1>8, <2>1, <2>2, <2>3 DEF IInv, EventLanesTypeOK
<1>10. GenerationsDistinct'
  <2>1. \A d \in Calls : Open(d)' => calls'[d].gen <= g /\ (d # c => calls'[d].gen # g)
    BY <1>5, <1>6, <1>7
  <2>2. \A d, x \in Calls : Open(d)' /\ Open(x)' /\ calls'[d].gen = calls'[x].gen => d = x
    BY <1>7, <2>1 DEF IInv, GenerationsDistinct
  <2>3. \A t \in Scans : scans[t] # g
    <3> SUFFICES ASSUME NEW t \in Scans, scans[t] = g PROVE FALSE
      OBVIOUS
    <3> QED
      BY <1>5, <1>6
  <2>4. \A t \in Scans, d \in Calls : Open(d)' => scans[t] # calls'[d].gen
    BY <1>7, <2>3 DEF IInv, GenerationsDistinct
  <2>5. order # NULL => order.gen <= g
    BY <1>5, <1>6
  <2>6. \A t \in Scans : scans[t] # NULL => scans[t] <= g
    BY <1>5, <1>6
  <2> QED
    BY <1>1, <1>8, <2>1, <2>2, <2>4, <2>5, <2>6 DEF GenerationsDistinct, g, IInv
<1>11. NoConflictingSnapshot'
  BY <1>5, <1>6, <1>7, <1>8, PendingNotOrdered, OrderNotPending DEF IInv
<1>12. OvertakersRan'
  <2>1. order # NULL => ~(calls'[c].gen < order.gen)
    BY <1>5, <1>6, <1>7
  <2> QED
    BY <1>7, <1>8, <2>1 DEF IInv, OvertakersRan, Stale
<1>13. AnsweredEventsRan' /\ AnswersAreRows'
  BY <1>5, <1>7, <1>8 DEF IInv, AnsweredEventsRan, AnswersAreRows
<1> QED
  BY <1>3, <1>9, <1>10, <1>11, <1>12, <1>13, TablesKept DEF IInv

LEMMA DropCallKeeps ==
  ASSUME IInv, NEW c \in Calls, DropCall(c)
  PROVE  IInv'
<1>1. /\ \A d \in Calls : d # c => calls'[d] = calls[d] /\ since'[d] = since[d]
      /\ calls'[c] = NULL
      /\ UNCHANGED <<jobs, cursor, order, seq, scans, meta>>
  BY DEF DropCall, EndCall, tables, IInv, EventLanesTypeOK
<1>2. /\ ~Open(c)'
      /\ \A d \in Calls : d # c => (Open(d)' <=> Open(d))
  BY <1>1 DEF Open
<1>3. EventLanesTypeOK'
  <2>1. calls' \in [Calls -> Nullable(CallRecord)] /\ since' \in [Calls -> SUBSET Seqs]
    BY DEF DropCall, IInv, EventLanesTypeOK, Nullable
  <2>2. \A d \in Calls : calls'[d] # NULL => (Open(d)' <=> calls'[d].job = NULL)
    BY <1>1, <1>2 DEF IInv, EventLanesTypeOK
  <2> QED
    BY <1>1, <2>1, <2>2 DEF IInv, EventLanesTypeOK
<1>4. order # NULL => order.gen <= Highest
  BY DEF IInv, GenerationsDistinct
<1>5. GenerationsDistinct'
  BY <1>1, <1>2, <1>4, GenerationsEnd
<1>6. NoConflictingSnapshot'
  BY <1>1, <1>2, PendingNotOrdered, OrderNotPending DEF IInv
<1>7. OvertakersRan' /\ AnsweredEventsRan' /\ AnswersAreRows'
  BY <1>1, <1>2 DEF IInv, OvertakersRan, AnsweredEventsRan, AnswersAreRows, Stale
<1> QED
  BY <1>1, <1>3, <1>5, <1>6, <1>7, TablesKept DEF IInv, tables

\* The overtaking event's row was live during this call.
LEMMA OvertakenEventKeeps ==
  ASSUME IInv, NEW c \in Calls, OvertakenEvent(c)
  PROVE  IInv'
<1> DEFINE i == cursor["imperative"].seq
<1>1. /\ Open(c) /\ Stale(calls[c].gen) /\ order.rev = calls[c].event
      /\ cursor["imperative"] # NULL
      /\ cursor["imperative"].event = calls[c].event
      /\ calls' = [calls EXCEPT ![c].gen = NULL, ![c].job = i]
      /\ UNCHANGED <<jobs, cursor, order, seq, scans, meta, since>>
  BY DEF OvertakenEvent, EndCall, EqualOvertook, Answer, tables
<1>2. i \in Seqs /\ i # NULL
  BY <1>1, LanesAssumption DEF IInv, EventLanesTypeOK, Nullable, Cursor, Lanes
<1>3. calls \in [Calls -> Nullable(CallRecord)] /\ calls[c] \in CallRecord /\ calls[c] # NULL
  BY <1>1 DEF Open, IInv, EventLanesTypeOK, Nullable
<1>4. /\ i \in since[c] /\ jobs[i] # NULL
      /\ jobs[i].lane = "imperative" /\ jobs[i].event = calls[c].event
  <2>1. calls[c].event \in Events
    BY <1>3 DEF CallRecord
  <2> QED
    BY <1>1, <2>1 DEF IInv, OvertakersRan, CursorsNameRows, Lanes
<1> HIDE DEF i
<1>5. /\ \A d \in Calls : d # c => calls'[d] = calls[d]
      /\ calls'[c] = [event |-> calls[c].event, gen |-> NULL, job |-> i]
  BY <1>1, <1>3 DEF CallRecord
<1>6. /\ ~Open(c)'
      /\ \A d \in Calls : d # c => (Open(d)' <=> Open(d))
  BY <1>5 DEF Open
<1>7. EventLanesTypeOK'
  <2>1. calls'[c] \in CallRecord
    BY <1>2, <1>3, <1>5 DEF CallRecord, Nullable
  <2>2. calls' \in [Calls -> Nullable(CallRecord)]
    BY <1>1, <1>3, <1>5, <2>1 DEF Nullable
  <2>3. \A d \in Calls : calls'[d] # NULL => (Open(d)' <=> calls'[d].job = NULL)
    BY <1>2, <1>5, <1>6 DEF IInv, EventLanesTypeOK
  <2> QED
    BY <1>1, <2>2, <2>3 DEF IInv, EventLanesTypeOK
<1>8. order # NULL => order.gen <= Highest
  BY DEF IInv, GenerationsDistinct
<1>9. GenerationsDistinct'
  BY <1>1, <1>5, <1>6, <1>8, GenerationsEnd
<1>10. NoConflictingSnapshot'
  BY <1>1, <1>5, <1>6, PendingNotOrdered, OrderNotPending DEF IInv
<1>11. OvertakersRan'
  BY <1>1, <1>5, <1>6 DEF IInv, OvertakersRan, Stale
<1>12. AnsweredEventsRan' /\ AnswersAreRows'
  <2> SUFFICES ASSUME NEW d \in Calls, calls'[d] # NULL, calls'[d].job # NULL
               PROVE  /\ calls'[d].job \in since'[d]
                      /\ jobs'[calls'[d].job].lane = "imperative"
                      /\ jobs'[calls'[d].job].event = calls'[d].event
                      /\ jobs'[calls'[d].job] # NULL
    BY DEF AnsweredEventsRan, AnswersAreRows
  <2>1. CASE d = c
    BY <1>1, <1>4, <1>5, <2>1
  <2>2. CASE d # c
    BY <1>1, <1>5, <2>2 DEF IInv, AnsweredEventsRan, AnswersAreRows
  <2> QED
    BY <2>1, <2>2
<1> QED
  BY <1>1, <1>7, <1>9, <1>10, <1>11, <1>12, TablesKept DEF IInv, tables

-----------------------------------------------------------------------------
(***************************************************************************)
(* Workers: one live row changes, and forgets nothing while it is live.    *)
(***************************************************************************)

Remembers(r, old) ==
  /\ old.claimed => r.claimed
  /\ old.detached => r.detached

LEMMA PutKeeps ==
  ASSUME IInv, NEW i \in Seqs, Live(i), NEW r \in Row, Put(i, r),
         r.lane = jobs[i].lane, r.event = jobs[i].event,
         r.state = "over" \/ (RowOK(r) /\ Remembers(r, jobs[i]))
  PROVE  IInv'
<1>1. UNCHANGED <<cursor, order, meta, seq, scans, calls, since>> /\ jobs' = [jobs EXCEPT ![i] = r]
  BY DEF Put
<1>2. jobs \in [Seqs -> Nullable(Row)] /\ jobs[i] # NULL /\ r # NULL
  BY LanesAssumption DEF IInv, EventLanesTypeOK, Live
<1>3. jobs'[i] = r /\ \A k \in Seqs : k # i => jobs'[k] = jobs[k]
  BY <1>1, <1>2
<1>4. \A k \in Seqs : jobs[k] # NULL =>
        jobs'[k] # NULL /\ jobs'[k].lane = jobs[k].lane /\ jobs'[k].event = jobs[k].event
  BY <1>2, <1>3
<1>5. LiveRows' \subseteq LiveRows
  BY <1>3 DEF LiveRows, Live
<1>6. \A k \in LiveRows' : Remembers(jobs'[k], jobs[k]) /\ RowOK(jobs'[k])
  <2> SUFFICES ASSUME NEW k \in LiveRows' PROVE Remembers(jobs'[k], jobs[k]) /\ RowOK(jobs'[k])
    OBVIOUS
  <2>1. CASE k = i
    BY <1>3, <2>1 DEF LiveRows, Live, LiveStates
  <2>2. CASE k # i
    BY <1>3, <1>5, <2>2 DEF LiveRows, IInv, RowsOK, Remembers
  <2> QED
    BY <2>1, <2>2
<1>7. \A c \in Calls : Open(c)' <=> Open(c)
  BY <1>1 DEF Open
<1>8. EventLanesTypeOK'
  <2>1. jobs' \in [Seqs -> Nullable(Row)]
    BY <1>1, <1>2 DEF Nullable
  <2>2. \A k \in Seqs : k > seq => jobs'[k] = NULL
    BY <1>2, <1>3 DEF IInv, EventLanesTypeOK
  <2> QED
    BY <1>1, <1>7, <2>1, <2>2 DEF IInv, EventLanesTypeOK
<1>9. GenerationsDistinct' /\ NoConflictingSnapshot'
  <2>1. order # NULL => order.gen <= Highest
    BY DEF IInv, GenerationsDistinct
  <2>2. GenerationsDistinct'
    BY <1>1, <1>7, <2>1, GenerationsEnd
  <2> QED
    BY <1>1, <1>7, <2>2 DEF IInv, NoConflictingSnapshot, Pending
<1>10. RowsOK'
  BY <1>6 DEF RowsOK
<1>11. CursorsNameRows'
  <2>1. \A lane \in Lanes : cursor[lane] # NULL => cursor[lane].seq \in Seqs
    BY DEF IInv, EventLanesTypeOK, Nullable, Cursor
  <2> QED
    BY <1>1, <1>4, <2>1 DEF IInv, CursorsNameRows
<1>12. \A k \in LiveRows' : k \in LiveRows /\ k \in Seqs /\ jobs[k] # NULL
  BY <1>5 DEF LiveRows, Live
<1>13. AttachedNamed'
  <2>1. Attached' \subseteq Attached
    BY <1>5, <1>6 DEF Attached, Remembers
  <2>2. \A k \in Attached' : jobs'[k].lane = jobs[k].lane /\ jobs'[k].event = jobs[k].event
    BY <1>4, <1>12 DEF Attached
  <2> QED
    BY <1>1, <2>1, <2>2 DEF IInv, AttachedNamed
<1>14. LaneFence'
  BY <1>4, <1>6, <1>12 DEF IInv, LaneFence, Remembers
<1>15. UnclaimedIsCurrent'
  BY <1>1, <1>4, <1>6, <1>12 DEF IInv, UnclaimedIsCurrent, Remembers
<1>16. OvertakersRan'
  BY <1>1, <1>7 DEF IInv, OvertakersRan, Stale
<1>17. AnsweredEventsRan' /\ AnswersAreRows'
  <2> SUFFICES ASSUME NEW c \in Calls, calls[c] # NULL, calls[c].job # NULL
               PROVE  /\ calls[c].job \in since[c]
                      /\ jobs'[calls[c].job].lane = "imperative"
                      /\ jobs'[calls[c].job].event = calls[c].event
                      /\ jobs'[calls[c].job] # NULL
    BY <1>1 DEF AnsweredEventsRan, AnswersAreRows
  <2>1. /\ calls[c].job \in since[c]
        /\ jobs[calls[c].job].lane = "imperative"
        /\ jobs[calls[c].job].event = calls[c].event
        /\ jobs[calls[c].job] # NULL
    BY DEF IInv, AnsweredEventsRan, AnswersAreRows
  <2>2. calls[c].job \in Seqs
    BY DEF IInv, EventLanesTypeOK, Nullable, CallRecord
  <2> QED
    BY <1>2, <1>3, <2>1, <2>2
<1> QED
  BY <1>8, <1>9, <1>10, <1>11, <1>13, <1>14, <1>15, <1>16, <1>17 DEF IInv

LEMMA WorkerKeeps ==
  ASSUME IInv, NEW i \in Seqs, Worker(i)
  PROVE  IInv'
<1> SUFFICES ASSUME Live(i) PROVE IInv'
  BY DEF Worker, Claim, Detach, Abandon, End, Checkpoint, GiveBack, Settle, In
<1>1. jobs[i] \in Row /\ RowOK(jobs[i])
  BY DEF IInv, EventLanesTypeOK, Nullable, Live, RowsOK, LiveRows
<1>2. CASE Claim(i)
  <2> DEFINE r == [jobs[i] EXCEPT !.state = "running", !.claimed = TRUE]
  <2>1. /\ r \in Row /\ r.lane = jobs[i].lane /\ r.event = jobs[i].event
        /\ RowOK(r) /\ Remembers(r, jobs[i])
    BY <1>1 DEF Row, LiveStates, RowOK, Remembers
  <2> QED
    BY <1>2, <2>1, PutKeeps DEF Claim
<1>3. ASSUME NEW verified \in BOOLEAN, Checkpoint(i, verified) PROVE IInv'
  <2> DEFINE r == [jobs[i] EXCEPT !.quarantined = FALSE, !.verified = @ \/ verified]
  <2>1. r \in Row
    BY <1>1 DEF Row
  <2>2. /\ r.lane = jobs[i].lane /\ r.event = jobs[i].event
        /\ RowOK(r) /\ Remembers(r, jobs[i])
    BY <1>1 DEF Row, RowOK, Remembers
  <2> QED
    BY <1>3, <2>1, <2>2, PutKeeps DEF Checkpoint
<1>4. ASSUME NEW state \in {"queued", "retry_wait"}, GiveBack(i, state) PROVE IInv'
  <2> DEFINE r == [jobs[i] EXCEPT !.state = state]
  <2>1. jobs[i].state = "running"
    BY <1>4 DEF GiveBack, In
  <2>2. /\ r \in Row /\ r.lane = jobs[i].lane /\ r.event = jobs[i].event
        /\ RowOK(r) /\ Remembers(r, jobs[i])
    BY <1>1, <2>1 DEF Row, LiveStates, RowOK, Remembers
  <2> QED
    BY <1>4, <2>2, PutKeeps DEF GiveBack
<1>5. CASE Detach(i)
  <2> DEFINE r == [jobs[i] EXCEPT !.state = "detached", !.quarantined = TRUE,
                                  !.detached = TRUE]
  <2>1. jobs[i].state = "running"
    BY <1>5 DEF Detach, In
  <2>2. /\ r \in Row /\ r.lane = jobs[i].lane /\ r.event = jobs[i].event
        /\ RowOK(r) /\ Remembers(r, jobs[i])
    BY <1>1, <2>1 DEF Row, LiveStates, RowOK, Remembers
  <2> QED
    BY <1>5, <2>2, PutKeeps DEF Detach
<1>6. ASSUME NEW state \in {"queued", "retry_wait"}, Settle(i, state) PROVE IInv'
  <2> DEFINE r == [jobs[i] EXCEPT !.state = state, !.quarantined = FALSE]
  <2>1. jobs[i].state = "detached"
    BY <1>6 DEF Settle, In
  <2>2. /\ r \in Row /\ r.lane = jobs[i].lane /\ r.event = jobs[i].event
        /\ RowOK(r) /\ Remembers(r, jobs[i])
    BY <1>1, <2>1 DEF Row, LiveStates, RowOK, Remembers
  <2> QED
    BY <1>6, <2>2, PutKeeps DEF Settle
<1>7. CASE Abandon(i)
  <2> DEFINE r == [jobs[i] EXCEPT !.state = "queued"]
  <2>1. jobs[i].state = "detached"
    BY <1>7 DEF Abandon, In
  <2>2. /\ r \in Row /\ r.lane = jobs[i].lane /\ r.event = jobs[i].event
        /\ RowOK(r) /\ Remembers(r, jobs[i])
    BY <1>1, <2>1 DEF Row, LiveStates, RowOK, Remembers
  <2> QED
    BY <1>7, <2>2, PutKeeps DEF Abandon
<1>8. CASE End(i)
  <2>1. Over(jobs[i]) \in Row /\ Over(jobs[i]).lane = jobs[i].lane
        /\ Over(jobs[i]).event = jobs[i].event /\ Over(jobs[i]).state = "over"
    BY <1>1 DEF Over, NewRow, Row
  <2> QED
    BY <1>8, <2>1, PutKeeps DEF End
<1> QED
  BY <1>2, <1>3, <1>4, <1>5, <1>6, <1>7, <1>8 DEF Worker

-----------------------------------------------------------------------------
(***************************************************************************)
(* Writes.                                                                 *)
(***************************************************************************)

\* Where an event is answered: a new row, or the live row of the equal event
\* before it, for a generation the fences let through.
LEMMA TargetAnswers ==
  ASSUME IInv, NEW lane \in Lanes, NEW e \in Events, NEW g \in Gens, Write(lane, e, g),
         ~Stale(g), order # NULL => order.gen # g
  PROVE  LET i == Target(lane, e, g) IN
         /\ i \in Seqs /\ i <= seq + 1
         /\ Changed(lane, e, g) => i = seq + 1 /\ jobs[i] = NULL
         /\ ~Changed(lane, e, g) =>
              Live(i) /\ jobs[i].lane = lane /\ jobs[i].event = e
<1>1. seq \in Nat /\ seq < MaxSeq /\ MaxSeq \in Nat
  BY LanesAssumption DEF IInv, EventLanesTypeOK, Write
<1>2. CASE Changed(lane, e, g)
  BY <1>1, <1>2 DEF Target, Seqs, IInv, EventLanesTypeOK
<1>3. CASE ~Changed(lane, e, g)
  <2>1. /\ cursor[lane] # NULL /\ cursor[lane].event = e
        /\ Target(lane, e, g) = cursor[lane].seq
        /\ Advances(g) => Live(cursor[lane].seq)
    BY <1>3 DEF Changed, Target
  <2>2. /\ order # NULL /\ jobs[cursor[lane].seq] # NULL
        /\ jobs[cursor[lane].seq].lane = lane /\ jobs[cursor[lane].seq].event = e
    BY <2>1 DEF IInv, CursorsNameRows
  <2>3. Advances(g)
    <3>1. g \in Nat /\ order.gen \in Nat
      BY <2>2 DEF Gens, IInv, EventLanesTypeOK, Nullable, Ordering
    <3> QED
      BY <2>2, <3>1 DEF Advances, Stale
  <2>4. cursor[lane].seq \in Seqs
    BY <2>1 DEF IInv, EventLanesTypeOK, Nullable, Cursor
  <2>5. ~(cursor[lane].seq > seq)
    BY <2>2, <2>4 DEF IInv, EventLanesTypeOK
  <2> QED
    BY <1>1, <1>3, <2>1, <2>2, <2>3, <2>4, <2>5 DEF Seqs
<1> QED
  BY <1>2, <1>3

\* Rows never change lane or event, the answering row is live, and a live row
\* beside it is one the write does not displace.
LEMMA WriteShape ==
  ASSUME IInv, NEW lane \in Lanes, NEW e \in Events, NEW g \in Gens, Write(lane, e, g),
         ~Stale(g), order # NULL => order.gen # g
  PROVE  LET i == Target(lane, e, g) IN
         /\ i \in Seqs
         /\ seq' \in 0..MaxSeq /\ seq' = seq + 1 /\ i <= seq'
         /\ cursor' = [cursor EXCEPT ![lane] = [event |-> e, seq |-> i]]
         /\ jobs' \in [Seqs -> Nullable(Row)]
         /\ \A k \in Seqs : k > seq' => jobs'[k] = NULL
         /\ \A k \in Seqs : jobs[k] # NULL =>
              jobs'[k] # NULL /\ jobs'[k].lane = jobs[k].lane /\ jobs'[k].event = jobs[k].event
         /\ i \in LiveRows' /\ jobs'[i].lane = lane /\ jobs'[i].event = e
         /\ jobs'[i] = NewRow(lane, e) \/ (Live(i) /\ jobs'[i] = jobs[i])
         /\ \A k \in Seqs : Live(k)' /\ k # i =>
              Live(k) /\ jobs'[k] = jobs[k] /\ (Displaces(lane, k) => Kept(k))
<1> DEFINE i == Target(lane, e, g)
           new == NewRow(lane, e)
           Gone(k) == k # i /\ Live(k) /\ Displaces(lane, k) /\ ~Kept(k)
<1>1. /\ i \in Seqs /\ i <= seq + 1
      /\ Changed(lane, e, g) => i = seq + 1 /\ jobs[i] = NULL
      /\ ~Changed(lane, e, g) => Live(i) /\ jobs[i].lane = lane /\ jobs[i].event = e
  BY TargetAnswers
<1>2. /\ cursor' = [cursor EXCEPT ![lane] = [event |-> e, seq |-> i]]
      /\ \A k \in Seqs :
           jobs'[k] = IF Changed(lane, e, g) /\ k = seq + 1 THEN new
                      ELSE IF Gone(k) THEN Over(jobs[k]) ELSE jobs[k]
      /\ DOMAIN jobs' = Seqs /\ jobs' = [k \in Seqs |-> jobs'[k]]
  BY DEF Write
<1>3. seq' = seq + 1 /\ seq' \in 0..MaxSeq /\ seq \in Nat
  BY LanesAssumption DEF IInv, EventLanesTypeOK, Write
<1>4. \A k \in Seqs : jobs[k] \in Nullable(Row) /\ (k > seq => jobs[k] = NULL)
  BY DEF IInv, EventLanesTypeOK
<1>5. /\ new \in Row /\ new # NULL
      /\ new.lane = lane /\ new.event = e /\ new.state = "queued"
  <2>1. new \in Row
    BY DEF NewRow, Row, LiveStates
  <2> QED
    BY <2>1, LanesAssumption DEF NewRow
<1>6. \A k \in Seqs : Live(k) =>
        /\ Over(jobs[k]) \in Row /\ Over(jobs[k]) # NULL
        /\ Over(jobs[k]).lane = jobs[k].lane /\ Over(jobs[k]).event = jobs[k].event
        /\ Over(jobs[k]).state = "over"
  <2> SUFFICES ASSUME NEW k \in Seqs, Live(k)
               PROVE  /\ Over(jobs[k]) \in Row /\ Over(jobs[k]) # NULL
                      /\ Over(jobs[k]).lane = jobs[k].lane
                      /\ Over(jobs[k]).event = jobs[k].event
                      /\ Over(jobs[k]).state = "over"
    OBVIOUS
  <2>1. jobs[k] \in Row
    BY <1>4 DEF Live, Nullable
  <2>2. Over(jobs[k]) \in Row
    BY <2>1 DEF Over, NewRow, Row
  <2> QED
    BY <2>1, <2>2, LanesAssumption DEF Over, NewRow, Row
<1>7. i \in Seqs /\ (Changed(lane, e, g) => i = seq + 1) /\ ~Gone(i)
  BY <1>1
<1> HIDE DEF i, new
<1>8. jobs' \in [Seqs -> Nullable(Row)]
  <2>1. \A k \in Seqs : jobs'[k] \in Nullable(Row)
    BY <1>2, <1>4, <1>5, <1>6 DEF Nullable
  <2> QED
    BY <1>2, <2>1
<1>9. \A k \in Seqs : k > seq' => jobs'[k] = NULL
  <2> SUFFICES ASSUME NEW k \in Seqs, k > seq' PROVE jobs'[k] = NULL
    OBVIOUS
  <2>1. k # seq + 1 /\ jobs[k] = NULL
    BY <1>3, <1>4 DEF Seqs
  <2> QED
    BY <1>2, <2>1 DEF Live
<1>10. \A k \in Seqs : jobs[k] # NULL =>
         jobs'[k] # NULL /\ jobs'[k].lane = jobs[k].lane /\ jobs'[k].event = jobs[k].event
  <2> SUFFICES ASSUME NEW k \in Seqs, jobs[k] # NULL
               PROVE  /\ jobs'[k] # NULL /\ jobs'[k].lane = jobs[k].lane
                      /\ jobs'[k].event = jobs[k].event
    OBVIOUS
  <2>1. ~(Changed(lane, e, g) /\ k = seq + 1)
    BY <1>3, <1>4 DEF Seqs
  <2> QED
    BY <1>2, <1>6, <2>1
<1>11. i \in LiveRows' /\ jobs'[i].lane = lane /\ jobs'[i].event = e
       /\ (jobs'[i] = new \/ (Live(i) /\ jobs'[i] = jobs[i]))
  <2>1. CASE Changed(lane, e, g)
    <3>1. jobs'[i] = new
      BY <1>2, <1>7, <2>1
    <3>2. i \in LiveRows'
      BY <1>5, <1>7, <3>1 DEF LiveRows, Live, LiveStates
    <3> QED
      BY <1>5, <3>1, <3>2
  <2>2. CASE ~Changed(lane, e, g)
    <3>1. jobs'[i] = jobs[i]
      BY <1>2, <1>7, <2>2
    <3>2. Live(i) /\ jobs[i].lane = lane /\ jobs[i].event = e
      BY <1>1, <2>2 DEF i
    <3>3. i \in LiveRows'
      BY <1>7, <3>1, <3>2 DEF LiveRows, Live
    <3> QED
      BY <3>1, <3>2, <3>3
  <2> QED
    BY <2>1, <2>2
<1>12. \A k \in Seqs : Live(k)' /\ k # i =>
         Live(k) /\ jobs'[k] = jobs[k] /\ (Displaces(lane, k) => Kept(k))
  <2> SUFFICES ASSUME NEW k \in Seqs, Live(k)', k # i
               PROVE  Live(k) /\ jobs'[k] = jobs[k] /\ (Displaces(lane, k) => Kept(k))
    OBVIOUS
  <2>1. ~Gone(k)
    <3> SUFFICES ASSUME Gone(k) PROVE FALSE
      OBVIOUS
    <3>1. Live(k) /\ ~(Changed(lane, e, g) /\ k = seq + 1)
      BY <1>7
    <3>2. jobs'[k].state = "over"
      BY <1>2, <1>6, <3>1
    <3> QED
      BY <3>2 DEF Live, LiveStates
  <2>2. jobs'[k] = jobs[k]
    BY <1>2, <1>7, <2>1
  <2> QED
    BY <2>1, <2>2 DEF Live
<1> QED
  BY <1>1, <1>2, <1>3, <1>8, <1>9, <1>10, <1>11, <1>12 DEF i, new

\* What a write keeps of the tables, whichever lane it is for.
LEMMA WriteKeeps ==
  ASSUME IInv, NEW lane \in Lanes, NEW e \in Events, NEW g \in Gens, Write(lane, e, g),
         ~Stale(g), order # NULL => order.gen # g,
         lane = "fact" => ~Protected, order' # NULL
  PROVE  RowsOK' /\ CursorsNameRows' /\ AttachedNamed' /\ LaneFence'
<1> DEFINE i == Target(lane, e, g)
<1>1. /\ i \in Seqs
      /\ cursor' = [cursor EXCEPT ![lane] = [event |-> e, seq |-> i]]
      /\ \A k \in Seqs : jobs[k] # NULL =>
           jobs'[k] # NULL /\ jobs'[k].lane = jobs[k].lane /\ jobs'[k].event = jobs[k].event
      /\ i \in LiveRows' /\ jobs'[i].lane = lane /\ jobs'[i].event = e
      /\ jobs'[i] = NewRow(lane, e) \/ (Live(i) /\ jobs'[i] = jobs[i])
      /\ \A k \in Seqs : Live(k)' /\ k # i =>
           Live(k) /\ jobs'[k] = jobs[k] /\ (Displaces(lane, k) => Kept(k))
  BY WriteShape
<1> HIDE DEF i
<1>2. cursor \in [Lanes -> Nullable(Cursor)]
  BY DEF IInv, EventLanesTypeOK
<1>3. cursor'[lane] = [event |-> e, seq |-> i]
      /\ \A x \in Lanes : x # lane => cursor'[x] = cursor[x]
  BY <1>1, <1>2
<1>4. RowsOK'
  <2> SUFFICES ASSUME NEW k \in LiveRows' PROVE RowOK(jobs'[k])
    BY DEF RowsOK
  <2>1. k \in Seqs /\ Live(k)'
    BY DEF LiveRows
  <2>2. CASE jobs'[k] = jobs[k] /\ Live(k)
    BY <2>1, <2>2 DEF IInv, RowsOK, LiveRows
  <2>3. CASE jobs'[k] = NewRow(lane, e)
    BY <2>3 DEF NewRow, RowOK
  <2> QED
    BY <1>1, <2>1, <2>2, <2>3
\* A row that stays beside the answering one has lost a call.
<1>5. \A k \in Seqs : Live(k)' /\ k # i =>
        /\ jobs'[k] = jobs[k] /\ jobs[k].lane \in Lanes
        /\ jobs'[k].detached \/ (lane = "fact" /\ jobs'[k].lane = "imperative")
  <2> SUFFICES ASSUME NEW k \in Seqs, Live(k)', k # i
               PROVE  /\ jobs'[k] = jobs[k] /\ jobs[k].lane \in Lanes
                      /\ jobs'[k].detached \/ (lane = "fact" /\ jobs'[k].lane = "imperative")
    OBVIOUS
  <2>1. Live(k) /\ jobs'[k] = jobs[k] /\ (Displaces(lane, k) => Kept(k))
    BY <1>1
  <2>2. jobs[k].lane \in Lanes /\ RowOK(jobs[k])
    BY <2>1 DEF IInv, EventLanesTypeOK, Nullable, Live, LiveRows, RowsOK, Row
  <2>3. CASE Displaces(lane, k)
    BY <2>1, <2>2, <2>3 DEF Kept, RowOK
  <2>4. CASE ~Displaces(lane, k)
    BY <2>1, <2>2, <2>4 DEF Displaces, Lanes
  <2> QED
    BY <2>1, <2>2, <2>3, <2>4
<1>6. \A k \in Seqs : Live(k)' /\ k # i => jobs'[k].detached
  <2> SUFFICES ASSUME NEW k \in Seqs, Live(k)', k # i, lane = "fact", jobs'[k].lane = "imperative"
               PROVE  FALSE
    BY <1>5
  <2>1. k \in LiveRows /\ jobs[k].lane = "imperative"
    BY <1>1 DEF LiveRows
  <2> QED
    BY <2>1 DEF Protected
<1>7. CursorsNameRows'
  <2> SUFFICES ASSUME NEW x \in Lanes, cursor'[x] # NULL
               PROVE  /\ jobs'[cursor'[x].seq] # NULL
                      /\ jobs'[cursor'[x].seq].lane = x
                      /\ jobs'[cursor'[x].seq].event = cursor'[x].event
    BY DEF CursorsNameRows
  <2>1. CASE x = lane
    BY <1>1, <1>3, <2>1 DEF LiveRows, Live
  <2>2. CASE x # lane
    <3>1. cursor[x].seq \in Seqs /\ cursor'[x] = cursor[x]
      BY <1>2, <1>3, <2>2 DEF Nullable, Cursor
    <3>2. jobs[cursor[x].seq] # NULL
          /\ jobs[cursor[x].seq].lane = x /\ jobs[cursor[x].seq].event = cursor[x].event
      BY <3>1 DEF IInv, CursorsNameRows
    <3> QED
      BY <1>1, <3>1, <3>2
  <2> QED
    BY <2>1, <2>2
<1>8. AttachedNamed'
  <2> SUFFICES ASSUME NEW k \in Attached'
               PROVE  cursor'[jobs'[k].lane] = [event |-> jobs'[k].event, seq |-> k]
    BY DEF AttachedNamed
  <2>1. k = i
    BY <1>6 DEF Attached, LiveRows
  <2> QED
    BY <1>1, <1>3, <2>1
<1>9. LaneFence'
  <2> SUFFICES ASSUME NEW j \in LiveRows', NEW k \in LiveRows',
                      jobs'[j].lane = "imperative", jobs'[k].lane = "fact", ~jobs'[k].detached
               PROVE  FALSE
    BY DEF LaneFence
  <2>1. k = i /\ lane = "fact"
    BY <1>1, <1>6 DEF LiveRows
  <2>2. j # i
    BY <2>1
  <2>3. j \in LiveRows /\ jobs[j].lane = "imperative"
    BY <1>1, <2>2 DEF LiveRows
  <2> QED
    BY <2>1, <2>3 DEF Protected
<1> QED
  BY <1>4, <1>7, <1>8, <1>9

\* Answers given before stay good under a write that keeps rows.
LEMMA AnswersKept ==
  ASSUME IInv, calls' = calls,
         \A c \in Calls : since[c] \subseteq since'[c],
         \A k \in Seqs : jobs[k] # NULL =>
           jobs'[k] # NULL /\ jobs'[k].lane = jobs[k].lane /\ jobs'[k].event = jobs[k].event
  PROVE  AnsweredEventsRan' /\ AnswersAreRows'
<1> SUFFICES ASSUME NEW c \in Calls, calls[c] # NULL, calls[c].job # NULL
             PROVE  /\ calls[c].job \in since'[c]
                    /\ jobs'[calls[c].job].lane = "imperative"
                    /\ jobs'[calls[c].job].event = calls[c].event
                    /\ jobs'[calls[c].job] # NULL
  BY DEF AnsweredEventsRan, AnswersAreRows
<1>1. calls[c].job \in Seqs
  BY DEF IInv, EventLanesTypeOK, Nullable, CallRecord
<1> QED
  BY <1>1 DEF IInv, AnsweredEventsRan, AnswersAreRows

\* The ordering takes a scan's generation over.
LEMMA ScanOrders ==
  ASSUME IInv, NEW s \in Scans, NEW d \in Decisions, EndScan(s), Ordered(scans[s], d)
  PROVE  /\ GenerationsDistinct' /\ NoConflictingSnapshot'
         /\ scans[s] \in Gens /\ (order # NULL => order.gen # scans[s])
         /\ order' \in Ordering /\ order' # NULL /\ order'.rev = d
         /\ scans' \in [Scans -> Nullable(Gens)]
         /\ UNCHANGED <<meta, calls>>
<1> DEFINE g == scans[s]
<1>1. /\ g # NULL /\ UNCHANGED <<meta, calls>>
      /\ scans' = [scans EXCEPT ![s] = NULL]
      /\ order' = [gen |-> g, rev |-> d]
  BY DEF EndScan, Ordered
<1>2. scans \in [Scans -> Nullable(Gens)] /\ g \in Gens
  BY <1>1 DEF IInv, EventLanesTypeOK, Nullable
<1>3. order' \in Ordering /\ order' # NULL
  <2>1. order' \in Ordering
    BY <1>1, <1>2 DEF Ordering
  <2> QED
    BY <2>1, LanesAssumption
<1>4. scans'[s] = NULL /\ \A t \in Scans : t # s => scans'[t] = scans[t]
  BY <1>1, <1>2
<1>5. \A c \in Calls : Open(c)' <=> Open(c)
  BY <1>1 DEF Open
<1>6. order'.gen <= Highest
  BY <1>1 DEF IInv, GenerationsDistinct
<1>7. GenerationsDistinct'
  BY <1>1, <1>4, <1>5, <1>6, GenerationsEnd
<1>8. NoConflictingSnapshot'
  <2>1. \A t \in Scans : scans'[t] # g
    BY <1>1, <1>4 DEF IInv, GenerationsDistinct
  <2>2. \A c \in Calls : Open(c) => calls[c].gen # g
    BY DEF IInv, GenerationsDistinct
  <2> QED
    BY <1>1, <1>5, <2>1, <2>2, OrderNotPending
<1>9. order # NULL => order.gen # g
  BY PendingNotOrdered DEF IInv
<1> QED
  BY <1>1, <1>2, <1>3, <1>7, <1>8, <1>9 DEF Nullable

\* The calls under way go on seeing every live row.
LEMMA ObserveGrows ==
  ASSUME IInv, Observe, jobs' \in [Seqs -> Nullable(Row)]
  PROVE  /\ since' \in [Calls -> SUBSET Seqs]
         /\ \A c \in Calls : since[c] \subseteq since'[c]
         /\ \A c \in Calls : Open(c) => LiveRows' \subseteq since'[c]
<1>1. LiveRows' \subseteq Seqs
  BY DEF LiveRows
<1> QED
  BY <1>1 DEF Observe, IInv, EventLanesTypeOK

LEMMA ReconcileActionKeeps ==
  ASSUME IInv, NEW s \in Scans, NEW d \in Decisions, ReconcileAction(s, d)
  PROVE  IInv'
<1>1. /\ EndScan(s) /\ Ordered(scans[s], d) /\ Event[d] # NULL /\ ~Stale(scans[s])
  BY DEF ReconcileAction
<1>2. /\ GenerationsDistinct' /\ NoConflictingSnapshot'
      /\ scans[s] \in Gens /\ (order # NULL => order.gen # scans[s])
      /\ order' \in Ordering /\ order' # NULL /\ order'.rev = d
      /\ scans' \in [Scans -> Nullable(Gens)]
      /\ UNCHANGED <<meta, calls>>
  BY <1>1, ScanOrders
<1>3. \A c \in Calls : Open(c)' <=> Open(c)
  BY <1>2 DEF Open
<1>4. OvertakersRan'
  BY <1>2, LanesAssumption DEF OvertakersRan
<1>5. CASE Protected /\ UNCHANGED <<jobs, cursor, seq, since>>
  <2>1. EventLanesTypeOK'
    BY <1>2, <1>3, <1>5 DEF IInv, EventLanesTypeOK, Nullable
  <2>2. LiveRows' = LiveRows /\ Attached' = Attached
    BY <1>5 DEF LiveRows, Live, Attached
  <2>3. RowsOK' /\ CursorsNameRows' /\ AttachedNamed' /\ LaneFence'
    BY <1>2, <1>5, <2>2 DEF IInv, RowsOK, CursorsNameRows, AttachedNamed, LaneFence
  <2>4. UnclaimedIsCurrent'
    <3> SUFFICES ASSUME NEW i \in LiveRows, jobs[i].lane = "fact", ~jobs[i].claimed
                 PROVE  FALSE
      BY <1>5, <2>2 DEF UnclaimedIsCurrent
    <3>1. jobs[i].detached
      BY <1>5 DEF Protected, IInv, LaneFence
    <3> QED
      BY <3>1 DEF IInv, RowsOK, RowOK
  <2>5. AnsweredEventsRan' /\ AnswersAreRows'
    BY <1>2, <1>5, AnswersKept
  <2> QED
    BY <1>2, <1>4, <2>1, <2>3, <2>4, <2>5 DEF IInv
<1>6. CASE ~Protected /\ Write("fact", Event[d], scans[s]) /\ Observe
  <2> DEFINE i == Target("fact", Event[d], scans[s])
  <2>1. Event[d] \in Events /\ "fact" \in Lanes
    BY <1>1, LanesAssumption DEF Nullable, Lanes
  <2>2. /\ i \in Seqs
        /\ seq' \in 0..MaxSeq /\ i <= seq'
        /\ cursor' = [cursor EXCEPT !["fact"] = [event |-> Event[d], seq |-> i]]
        /\ jobs' \in [Seqs -> Nullable(Row)]
        /\ \A k \in Seqs : k > seq' => jobs'[k] = NULL
        /\ \A k \in Seqs : jobs[k] # NULL =>
             jobs'[k] # NULL /\ jobs'[k].lane = jobs[k].lane /\ jobs'[k].event = jobs[k].event
        /\ jobs'[i].event = Event[d]
        /\ \A k \in Seqs : Live(k)' /\ k # i =>
             Live(k) /\ jobs'[k] = jobs[k] /\ (Displaces("fact", k) => Kept(k))
    BY <1>1, <1>2, <1>6, <2>1, WriteShape
  <2>3. RowsOK' /\ CursorsNameRows' /\ AttachedNamed' /\ LaneFence'
    BY <1>1, <1>2, <1>6, <2>1, WriteKeeps
  <2> HIDE DEF i
  <2>4. since' \in [Calls -> SUBSET Seqs] /\ \A c \in Calls : since[c] \subseteq since'[c]
    BY <1>6, <2>2, ObserveGrows
  <2>5. cursor' \in [Lanes -> Nullable(Cursor)]
    <3>1. [event |-> Event[d], seq |-> i] \in Cursor
      BY <2>1, <2>2 DEF Cursor
    <3> QED
      BY <2>2, <3>1 DEF IInv, EventLanesTypeOK, Nullable
  <2>6. EventLanesTypeOK'
    BY <1>2, <1>3, <2>2, <2>4, <2>5 DEF IInv, EventLanesTypeOK, Nullable
  <2>7. UnclaimedIsCurrent'
    <3> SUFFICES ASSUME NEW k \in LiveRows', jobs'[k].lane = "fact", ~jobs'[k].claimed
                 PROVE  Event[d] = jobs'[k].event
      BY <1>2 DEF UnclaimedIsCurrent
    <3>1. CASE k = i
      BY <2>2, <3>1
    <3>2. CASE k # i
      <4>1. Live(k) /\ jobs'[k] = jobs[k] /\ Kept(k)
        BY <2>2, <3>2 DEF LiveRows, Displaces
      <4> QED
        BY <4>1 DEF IInv, RowsOK, RowOK, LiveRows, Kept
    <3> QED
      BY <3>1, <3>2
  <2>8. AnsweredEventsRan' /\ AnswersAreRows'
    BY <1>2, <2>2, <2>4, AnswersKept
  <2> QED
    BY <1>2, <1>4, <2>3, <2>6, <2>7, <2>8 DEF IInv
<1> QED
  BY <1>5, <1>6 DEF ReconcileAction

LEMMA ReconcileNoActionKeeps ==
  ASSUME IInv, NEW s \in Scans, NEW d \in Decisions, ReconcileNoAction(s, d)
  PROVE  IInv'
<1> DEFINE Ends(k) == Live(k) /\ jobs[k].lane = "fact" /\ Retired(k)
<1>1. /\ EndScan(s) /\ Ordered(scans[s], d) /\ UNCHANGED <<cursor, seq, since>>
      /\ jobs' = [k \in Seqs |-> IF Ends(k) THEN Over(jobs[k]) ELSE jobs[k]]
  BY DEF ReconcileNoAction
<1>2. /\ GenerationsDistinct' /\ NoConflictingSnapshot'
      /\ order' \in Ordering /\ order' # NULL /\ order'.rev = d
      /\ scans' \in [Scans -> Nullable(Gens)]
      /\ UNCHANGED <<meta, calls>>
  BY <1>1, ScanOrders
<1>3. \A c \in Calls : Open(c)' <=> Open(c)
  BY <1>2 DEF Open
<1>4. \A k \in Seqs : jobs[k] \in Nullable(Row) /\ (k > seq => jobs[k] = NULL)
  BY DEF IInv, EventLanesTypeOK
<1>5. \A k \in Seqs : Live(k) =>
        /\ Over(jobs[k]) \in Row /\ Over(jobs[k]) # NULL
        /\ Over(jobs[k]).lane = jobs[k].lane /\ Over(jobs[k]).event = jobs[k].event
        /\ Over(jobs[k]).state = "over"
  <2> SUFFICES ASSUME NEW k \in Seqs, Live(k)
               PROVE  /\ Over(jobs[k]) \in Row /\ Over(jobs[k]) # NULL
                      /\ Over(jobs[k]).lane = jobs[k].lane
                      /\ Over(jobs[k]).event = jobs[k].event
                      /\ Over(jobs[k]).state = "over"
    OBVIOUS
  <2>1. jobs[k] \in Row
    BY <1>4 DEF Live, Nullable
  <2>2. Over(jobs[k]) \in Row
    BY <2>1 DEF Over, NewRow, Row
  <2> QED
    BY <2>1, <2>2, LanesAssumption DEF Over, NewRow, Row
<1>6. \A k \in Seqs : jobs[k] # NULL =>
        jobs'[k] # NULL /\ jobs'[k].lane = jobs[k].lane /\ jobs'[k].event = jobs[k].event
  BY <1>1, <1>5
<1>7. \A k \in LiveRows' : k \in Seqs /\ k \in LiveRows /\ jobs'[k] = jobs[k] /\ ~Ends(k)
  <2> SUFFICES ASSUME NEW k \in Seqs, Live(k)'
               PROVE  Live(k) /\ jobs'[k] = jobs[k] /\ ~Ends(k)
    BY DEF LiveRows
  <2>1. ~Ends(k)
    BY <1>1, <1>5 DEF Live, LiveStates
  <2> QED
    BY <1>1, <2>1 DEF Live
<1>8. EventLanesTypeOK'
  <2>1. jobs' \in [Seqs -> Nullable(Row)]
    BY <1>1, <1>4, <1>5 DEF Nullable
  <2>2. \A k \in Seqs : k > seq => jobs'[k] = NULL
    BY <1>1, <1>4 DEF Live
  <2> QED
    BY <1>1, <1>2, <1>3, <2>1, <2>2 DEF IInv, EventLanesTypeOK, Nullable
<1>9. RowsOK'
  BY <1>7 DEF IInv, RowsOK
<1>10. CursorsNameRows'
  <2>1. \A lane \in Lanes : cursor[lane] # NULL => cursor[lane].seq \in Seqs
    BY DEF IInv, EventLanesTypeOK, Nullable, Cursor
  <2> QED
    BY <1>1, <1>2, <1>6, <2>1 DEF IInv, CursorsNameRows
<1>11. AttachedNamed'
  BY <1>1, <1>7 DEF IInv, AttachedNamed, Attached
<1>12. LaneFence'
  BY <1>7 DEF IInv, LaneFence
<1>13. UnclaimedIsCurrent'
  <2> SUFFICES ASSUME NEW k \in LiveRows', jobs'[k].lane = "fact", ~jobs'[k].claimed
               PROVE  FALSE
    BY DEF UnclaimedIsCurrent
  <2>1. k \in LiveRows /\ jobs'[k] = jobs[k] /\ ~Ends(k)
    BY <1>7
  <2>2. jobs[k].state = "queued"
    BY <2>1 DEF IInv, RowsOK, RowOK
  <2> QED
    BY <2>1, <2>2 DEF Retired, LiveRows
<1>14. OvertakersRan'
  BY <1>2, LanesAssumption DEF OvertakersRan
<1>15. AnsweredEventsRan' /\ AnswersAreRows'
  BY <1>1, <1>2, <1>6, AnswersKept
<1> QED
  BY <1>2, <1>8, <1>9, <1>10, <1>11, <1>12, <1>13, <1>14, <1>15 DEF IInv

LEMMA MaterializeEventKeeps ==
  ASSUME IInv, NEW c \in Calls, MaterializeEvent(c)
  PROVE  IInv'
<1> DEFINE e == calls[c].event
           g == calls[c].gen
           i == Target("imperative", e, g)
<1>1. /\ Open(c) /\ ~Stale(g) /\ Write("imperative", e, g) /\ Observe
      /\ order' = [gen |-> g, rev |-> e]
      /\ calls' = [calls EXCEPT ![c].gen = NULL, ![c].job = i]
      /\ UNCHANGED <<meta, scans>>
  BY DEF MaterializeEvent, EndCall, Ordered, Answer
<1>2. calls \in [Calls -> Nullable(CallRecord)] /\ calls[c] \in CallRecord /\ calls[c] # NULL
  BY <1>1 DEF Open, IInv, EventLanesTypeOK, Nullable
<1>3. e \in Events /\ g \in Gens /\ "imperative" \in Lanes
  BY <1>1, <1>2 DEF Open, CallRecord, Nullable, Lanes
<1>4. order # NULL => order.gen # g
  BY <1>1, PendingNotOrdered DEF IInv
<1>5. order' \in Ordering /\ order' # NULL /\ order'.gen = g /\ order'.rev = e
  <2>1. order' \in Ordering
    BY <1>1, <1>3 DEF Ordering
  <2> QED
    BY <1>1, <2>1, LanesAssumption
<1>6. /\ i \in Seqs
      /\ seq' \in 0..MaxSeq /\ i <= seq'
      /\ cursor' = [cursor EXCEPT !["imperative"] = [event |-> e, seq |-> i]]
      /\ jobs' \in [Seqs -> Nullable(Row)]
      /\ \A k \in Seqs : k > seq' => jobs'[k] = NULL
      /\ \A k \in Seqs : jobs[k] # NULL =>
           jobs'[k] # NULL /\ jobs'[k].lane = jobs[k].lane /\ jobs'[k].event = jobs[k].event
      /\ i \in LiveRows' /\ jobs'[i].lane = "imperative" /\ jobs'[i].event = e
      /\ \A k \in Seqs : Live(k)' /\ k # i =>
           Live(k) /\ jobs'[k] = jobs[k] /\ (Displaces("imperative", k) => Kept(k))
  BY <1>1, <1>3, <1>4, WriteShape
<1>7. RowsOK' /\ CursorsNameRows' /\ AttachedNamed' /\ LaneFence'
  BY <1>1, <1>3, <1>4, <1>5, WriteKeeps
<1> HIDE DEF i
<1>8. /\ \A d \in Calls : d # c => calls'[d] = calls[d]
      /\ calls'[c] = [event |-> e, gen |-> NULL, job |-> i]
      /\ i # NULL /\ i \in Seqs
  BY <1>1, <1>2, <1>6, LanesAssumption DEF CallRecord
<1>9. /\ ~Open(c)'
      /\ \A d \in Calls : d # c => (Open(d)' <=> Open(d))
  BY <1>8 DEF Open
<1>10. /\ since' \in [Calls -> SUBSET Seqs]
       /\ \A d \in Calls : since[d] \subseteq since'[d]
       /\ \A d \in Calls : Open(d) => i \in since'[d]
  BY <1>1, <1>6, ObserveGrows
<1>11. cursor' \in [Lanes -> Nullable(Cursor)]
       /\ cursor'["imperative"] = [event |-> e, seq |-> i] /\ cursor'["imperative"] # NULL
  <2>1. [event |-> e, seq |-> i] \in Cursor
    BY <1>3, <1>6 DEF Cursor
  <2>2. [event |-> e, seq |-> i] # NULL
    BY <2>1, LanesAssumption
  <2>3. cursor \in [Lanes -> Nullable(Cursor)]
    BY DEF IInv, EventLanesTypeOK
  <2> QED
    BY <1>3, <1>6, <2>1, <2>2, <2>3 DEF Nullable
<1>12. EventLanesTypeOK'
  <2>1. calls'[c] \in CallRecord
    BY <1>3, <1>8 DEF CallRecord, Nullable
  <2>2. calls' \in [Calls -> Nullable(CallRecord)]
    BY <1>1, <1>2, <1>8, <2>1 DEF Nullable
  <2>3. \A d \in Calls : calls'[d] # NULL => (Open(d)' <=> calls'[d].job = NULL)
    BY <1>8, <1>9 DEF IInv, EventLanesTypeOK
  <2> QED
    BY <1>1, <1>5, <1>6, <1>10, <1>11, <2>2, <2>3 DEF IInv, EventLanesTypeOK, Nullable
<1>13. GenerationsDistinct'
  <2>1. order'.gen <= Highest
    BY <1>1, <1>5 DEF IInv, GenerationsDistinct
  <2> QED
    BY <1>1, <1>8, <1>9, <2>1, GenerationsEnd
<1>14. NoConflictingSnapshot'
  <2>1. \A s \in Scans : scans[s] # g
    BY <1>1 DEF IInv, GenerationsDistinct
  <2>2. \A d \in Calls : Open(d) /\ d # c => calls[d].gen # g
    BY <1>1 DEF IInv, GenerationsDistinct
  <2> QED
    BY <1>1, <1>5, <1>8, <1>9, <2>1, <2>2, OrderNotPending
<1>15. UnclaimedIsCurrent'
  <2> SUFFICES ASSUME NEW k \in LiveRows', jobs'[k].lane = "fact", ~jobs'[k].claimed
               PROVE  FALSE
    BY DEF UnclaimedIsCurrent
  <2>1. Live(k) /\ jobs'[k] = jobs[k] /\ Kept(k)
    BY <1>6 DEF LiveRows, Displaces
  <2> QED
    BY <2>1 DEF IInv, RowsOK, RowOK, LiveRows, Kept
<1>16. OvertakersRan'
  BY <1>5, <1>8, <1>9, <1>10, <1>11 DEF OvertakersRan
<1>17. AnsweredEventsRan' /\ AnswersAreRows'
  <2> SUFFICES ASSUME NEW d \in Calls, calls'[d] # NULL, calls'[d].job # NULL
               PROVE  /\ calls'[d].job \in since'[d]
                      /\ jobs'[calls'[d].job].lane = "imperative"
                      /\ jobs'[calls'[d].job].event = calls'[d].event
                      /\ jobs'[calls'[d].job] # NULL
    BY DEF AnsweredEventsRan, AnswersAreRows
  <2>1. CASE d = c
    BY <1>1, <1>6, <1>8, <1>10, <2>1 DEF LiveRows, Live
  <2>2. CASE d # c
    <3>1. calls'[d] = calls[d] /\ calls[d].job \in Seqs
      BY <1>8, <2>2 DEF IInv, EventLanesTypeOK, Nullable, CallRecord
    <3>2. calls[d].job \in since[d] /\ jobs[calls[d].job] # NULL
          /\ jobs[calls[d].job].lane = "imperative"
          /\ jobs[calls[d].job].event = calls[d].event
      BY <3>1 DEF IInv, AnsweredEventsRan, AnswersAreRows
    <3> QED
      BY <1>6, <1>10, <3>1, <3>2
  <2> QED
    BY <2>1, <2>2
<1> QED
  BY <1>7, <1>12, <1>13, <1>14, <1>15, <1>16, <1>17 DEF IInv

-----------------------------------------------------------------------------
(***************************************************************************)
(* The theorems.                                                           *)
(***************************************************************************)

LEMMA InitIInv == Init => IInv
<1> SUFFICES ASSUME Init PROVE IInv
  OBVIOUS
<1>1. LiveRows = {} /\ \A c \in Calls : ~Open(c)
  BY DEF Init, LiveRows, Live, Open
<1>2. EventLanesTypeOK
  BY <1>1, LanesAssumption DEF Init, EventLanesTypeOK, Nullable
<1> QED
  BY <1>1, <1>2 DEF Init, IInv, GenerationsDistinct, NoConflictingSnapshot, RowsOK,
     CursorsNameRows, AttachedNamed, Attached, LaneFence, UnclaimedIsCurrent,
     OvertakersRan, AnsweredEventsRan, AnswersAreRows

LEMMA NextIInv == IInv /\ [Next]_vars => IInv'
<1> SUFFICES ASSUME IInv, [Next]_vars PROVE IInv'
  OBVIOUS
<1>1. ASSUME NEW s \in Scans, Scan(s) PROVE IInv'
  BY <1>1, BeginScanKeeps, DropScanKeeps, ReconcileActionKeeps, ReconcileNoActionKeeps DEF Scan
<1>2. ASSUME NEW c \in Calls, Call(c) PROVE IInv'
  BY <1>2, BeginCallKeeps, DropCallKeeps, MaterializeEventKeeps, OvertakenEventKeeps DEF Call
<1>3. ASSUME NEW i \in Seqs, Worker(i) PROVE IInv'
  BY <1>3, WorkerKeeps
<1>4. CASE UNCHANGED vars
  <2>1. RowsOK' /\ CursorsNameRows' /\ AttachedNamed' /\ LaneFence' /\ UnclaimedIsCurrent'
    BY <1>4, TablesKept DEF vars, tables
  <2>2. \A c \in Calls : Open(c)' <=> Open(c)
    BY <1>4 DEF vars, Open
  <2>3. EventLanesTypeOK'
    BY <1>4, <2>2 DEF vars, IInv, EventLanesTypeOK
  <2>4. GenerationsDistinct'
    BY <1>4, <2>2 DEF vars, IInv, GenerationsDistinct, Highest
  <2>5. NoConflictingSnapshot'
    BY <1>4, <2>2 DEF vars, IInv, NoConflictingSnapshot, Pending
  <2>6. OvertakersRan' /\ AnsweredEventsRan' /\ AnswersAreRows'
    BY <1>4, <2>2 DEF vars, IInv, OvertakersRan, AnsweredEventsRan, AnswersAreRows, Stale
  <2> QED
    BY <2>1, <2>3, <2>4, <2>5, <2>6 DEF IInv
<1> QED
  BY <1>1, <1>2, <1>3, <1>4 DEF Next

\* The invariant holds in every state of the specification.
THEOREM LanesInvariant == Spec => []IInv
BY InitIInv, NextIInv, PTL DEF Spec

\* The tables and the calls keep the values materialize_event and schedule_event
\* give them.
THEOREM LanesTypeCorrect == Spec => []EventLanesTypeOK
<1>1. IInv => EventLanesTypeOK
  BY DEF IInv
<1> QED
  BY <1>1, LanesInvariant, PTL

\* The error "one event snapshot produced conflicting decisions" is never raised.
THEOREM SnapshotsNeverConflict == Spec => []NoConflictingSnapshot
<1>1. IInv => NoConflictingSnapshot
  BY DEF IInv
<1> QED
  BY <1>1, LanesInvariant, PTL

\* Of the rows that lost no call at most one is live, the one of its cursor:
\* the cursor names it within a lane, the fence excludes it across lanes.
THEOREM DispositionsAlone == Spec => []OneLiveDisposition
<1>1. IInv => OneLiveDisposition
  <2> SUFFICES ASSUME IInv, NEW i \in Attached, NEW k \in Attached
               PROVE  /\ cursor[jobs[i].lane] = [event |-> jobs[i].event, seq |-> i]
                      /\ k = i
    BY DEF OneLiveDisposition
  <2>1. /\ cursor[jobs[i].lane] = [event |-> jobs[i].event, seq |-> i]
        /\ cursor[jobs[k].lane] = [event |-> jobs[k].event, seq |-> k]
    BY DEF IInv, AttachedNamed
  <2>2. jobs[i].lane \in Lanes /\ jobs[k].lane \in Lanes
    BY DEF IInv, EventLanesTypeOK, Nullable, Row, Attached, LiveRows, Live
  <2>3. CASE jobs[i].lane = jobs[k].lane
    BY <2>1, <2>3
  <2>4. CASE jobs[i].lane # jobs[k].lane
    BY <2>2, <2>4 DEF IInv, LaneFence, Attached, Lanes
  <2> QED
    BY <2>1, <2>3, <2>4
<1> QED
  BY <1>1, LanesInvariant, PTL

\* An unclaimed fact row answers the newest decision (reconcile_evaluated).
THEOREM NoStaleFactRow == Spec => []UnclaimedIsCurrent
<1>1. IInv => UnclaimedIsCurrent
  BY DEF IInv
<1> QED
  BY <1>1, LanesInvariant, PTL

\* Whoever schedule_event answers gets a row of the event that was live during
\* the call.
THEOREM AnswersAreLive == Spec => []AnsweredEventsRan
<1>1. IInv => AnsweredEventsRan
  BY DEF IInv
<1> QED
  BY <1>1, LanesInvariant, PTL

-----------------------------------------------------------------------------
(***************************************************************************)
(* How live rows end.                                                      *)
(***************************************************************************)

\* The first row comes with the first ordering.
FirstWrite == order = NULL => LiveRows = {}

\* Only the row that a worker changes may end.
LEMMA PutEnds ==
  ASSUME IInv, NEW i \in Seqs, Live(i), NEW r, Put(i, r)
  PROVE  /\ UNCHANGED order
         /\ \A k \in LiveRows \ LiveRows' : k = i /\ ~(r # NULL /\ r.state \in LiveStates)
         /\ LiveRows' \subseteq LiveRows
<1>1. jobs \in [Seqs -> Nullable(Row)]
  BY DEF IInv, EventLanesTypeOK
<1>2. jobs' = [jobs EXCEPT ![i] = r] /\ UNCHANGED order
  BY DEF Put
<1>3. jobs'[i] = r /\ \A k \in Seqs : k # i => jobs'[k] = jobs[k]
  BY <1>1, <1>2
<1> QED
  BY <1>2, <1>3 DEF LiveRows, Live

\* A worker ends its own row only, which it has claimed, and revives none.
LEMMA WorkerEnds ==
  ASSUME IInv, NEW i \in Seqs, Worker(i)
  PROVE  /\ UNCHANGED order
         /\ \A k \in LiveRows \ LiveRows' : jobs[k].claimed
         /\ LiveRows' \subseteq LiveRows
<1> SUFFICES ASSUME Live(i)
             PROVE  /\ UNCHANGED order
                    /\ \A k \in LiveRows \ LiveRows' : jobs[k].claimed
                    /\ LiveRows' \subseteq LiveRows
  BY DEF Worker, Claim, Detach, Abandon, End, Checkpoint, GiveBack, Settle, In
<1>1. jobs[i] \in Row /\ jobs[i].state \in LiveStates
  BY DEF IInv, EventLanesTypeOK, Nullable, Live
<1> DEFINE Goes(r) == Put(i, r) /\ r \in Row /\ r.state \in LiveStates
<1>2. CASE End(i)
  <2>1. jobs[i].claimed /\ Put(i, Over(jobs[i]))
    BY <1>2 DEF End
  <2> QED
    BY <2>1, PutEnds
<1>3. ASSUME NEW r, Goes(r)
      PROVE  UNCHANGED order /\ LiveRows \ LiveRows' = {} /\ LiveRows' \subseteq LiveRows
  <2>1. r # NULL
    BY <1>3, LanesAssumption
  <2> QED
    BY <1>3, <2>1, PutEnds
<1>4. CASE Claim(i)
  <2>1. Goes([jobs[i] EXCEPT !.state = "running", !.claimed = TRUE])
    BY <1>1, <1>4 DEF Claim, Row, LiveStates
  <2> QED
    BY <1>3, <2>1
<1>5. ASSUME NEW verified \in BOOLEAN, Checkpoint(i, verified)
      PROVE  UNCHANGED order /\ LiveRows \ LiveRows' = {} /\ LiveRows' \subseteq LiveRows
  <2>1. Goes([jobs[i] EXCEPT !.quarantined = FALSE, !.verified = @ \/ verified])
    BY <1>1, <1>5 DEF Checkpoint, Row
  <2> QED
    BY <1>3, <2>1
<1>6. ASSUME NEW state \in {"queued", "retry_wait"}, GiveBack(i, state)
      PROVE  UNCHANGED order /\ LiveRows \ LiveRows' = {} /\ LiveRows' \subseteq LiveRows
  <2>1. Goes([jobs[i] EXCEPT !.state = state])
    BY <1>1, <1>6 DEF GiveBack, Row, LiveStates
  <2> QED
    BY <1>3, <2>1
<1>7. ASSUME NEW state \in {"queued", "retry_wait"}, Settle(i, state)
      PROVE  UNCHANGED order /\ LiveRows \ LiveRows' = {} /\ LiveRows' \subseteq LiveRows
  <2>1. Goes([jobs[i] EXCEPT !.state = state, !.quarantined = FALSE])
    BY <1>1, <1>7 DEF Settle, Row, LiveStates
  <2> QED
    BY <1>3, <2>1
<1>8. CASE Detach(i)
  <2>1. Goes([jobs[i] EXCEPT !.state = "detached", !.quarantined = TRUE, !.detached = TRUE])
    BY <1>1, <1>8 DEF Detach, Row, LiveStates
  <2> QED
    BY <1>3, <2>1
<1>9. CASE Abandon(i)
  <2>1. Goes([jobs[i] EXCEPT !.state = "queued"])
    BY <1>1, <1>9 DEF Abandon, Row, LiveStates
  <2> QED
    BY <1>3, <2>1
<1> QED
  BY <1>2, <1>4, <1>5, <1>6, <1>7, <1>8, <1>9 DEF Worker

\* A generation that is not stale, and is its caller's alone, advances.
LEMMA FreshAdvances ==
  ASSUME IInv, NEW g \in Gens, ~Stale(g), order # NULL => order.gen # g
  PROVE  order # NULL => Advances(g)
<1>1. order # NULL => order.gen \in Nat /\ g \in Nat
  BY DEF IInv, EventLanesTypeOK, Nullable, Ordering, Gens
<1> QED
  BY <1>1 DEF Stale, Advances

\* A scan displaces fact rows only, by a newer ordering.
LEMMA ScanEnds ==
  ASSUME IInv, NEW s \in Scans, Scan(s)
  PROVE  /\ \A k \in LiveRows \ LiveRows' :
              jobs[k].lane = "fact" /\ (order # NULL => Advances(order'.gen))
         /\ order' = NULL => order = NULL /\ LiveRows' = LiveRows
<1>1. CASE BeginScan(s) \/ DropScan(s)
  BY <1>1 DEF BeginScan, DropScan, tables, LiveRows, Live
<1>2. ASSUME NEW d \in Decisions, ReconcileAction(s, d) \/ ReconcileNoAction(s, d)
      PROVE  /\ \A k \in LiveRows \ LiveRows' :
                  jobs[k].lane = "fact" /\ (order # NULL => Advances(order'.gen))
             /\ order' # NULL
  <2>1. /\ scans[s] \in Gens /\ (order # NULL => order.gen # scans[s])
        /\ order' # NULL /\ order'.gen = scans[s] /\ ~Stale(scans[s])
    BY <1>2, ScanOrders DEF ReconcileAction, ReconcileNoAction, Ordered
  <2>2. order # NULL => Advances(order'.gen)
    BY <2>1, FreshAdvances
  <2>3. CASE ReconcileNoAction(s, d)
    <3>1. ASSUME NEW k \in LiveRows \ LiveRows' PROVE jobs[k].lane = "fact"
      BY <2>3, <3>1 DEF ReconcileNoAction, LiveRows, Live
    <3> QED
      BY <2>1, <2>2, <3>1
  <2>4. CASE ReconcileAction(s, d) /\ UNCHANGED jobs
    BY <2>1, <2>4 DEF LiveRows, Live
  <2>5. CASE ReconcileAction(s, d) /\ ~Protected
    <3>1. ASSUME NEW k \in LiveRows PROVE jobs[k].lane = "fact"
      BY <2>5, <3>1 DEF Protected, IInv, EventLanesTypeOK, LiveRows, Live, Nullable, Row, Lanes
    <3> QED
      BY <2>1, <2>2, <3>1
  <2> QED
    BY <1>2, <2>3, <2>4, <2>5 DEF ReconcileAction
<1> QED
  BY <1>1, <1>2 DEF Scan

\* A call displaces rows by a newer event.
LEMMA CallEnds ==
  ASSUME IInv, NEW c \in Calls, Call(c)
  PROVE  /\ \A k \in LiveRows \ LiveRows' :
              order'.rev \in Events /\ (order # NULL => Advances(order'.gen))
         /\ order' = NULL => order = NULL /\ LiveRows' = LiveRows
<1>1. CASE UNCHANGED tables
  BY <1>1 DEF tables, LiveRows, Live
<1>2. CASE MaterializeEvent(c)
  <2> DEFINE r == calls[c]
  <2>1. Open(c) /\ r \in CallRecord /\ r.event \in Events /\ r.gen \in Gens
    BY <1>2 DEF MaterializeEvent, EndCall, Open, IInv, EventLanesTypeOK, Nullable, CallRecord
  <2>2. order' = [gen |-> r.gen, rev |-> r.event] /\ ~Stale(r.gen)
    BY <1>2 DEF MaterializeEvent, Ordered
  <2>3. order # NULL => order.gen # r.gen
    BY <2>1, PendingNotOrdered DEF IInv
  <2>4. order' \in Ordering
    BY <2>1, <2>2 DEF Ordering
  <2> QED
    BY <2>1, <2>2, <2>3, <2>4, FreshAdvances, LanesAssumption
<1> QED
  BY <1>1, <1>2 DEF Call, BeginCall, DropCall, OvertakenEvent

\* No row is live before the first ordering.
LEMMA FirstWriteKeeps == IInv /\ FirstWrite /\ [Next]_vars => FirstWrite'
<1> SUFFICES ASSUME IInv, FirstWrite, [Next]_vars PROVE FirstWrite'
  OBVIOUS
<1>1. ASSUME NEW s \in Scans, Scan(s) PROVE FirstWrite'
  BY <1>1, ScanEnds DEF FirstWrite
<1>2. ASSUME NEW c \in Calls, Call(c) PROVE FirstWrite'
  BY <1>2, CallEnds DEF FirstWrite
<1>3. ASSUME NEW i \in Seqs, Worker(i) PROVE FirstWrite'
  BY <1>3, WorkerEnds DEF FirstWrite
<1>4. CASE UNCHANGED vars
  BY <1>4 DEF vars, FirstWrite, LiveRows, Live
<1> QED
  BY <1>1, <1>2, <1>3, <1>4 DEF Next

\* What DisplacedByNewer says of one step.
LEMMA StepEnds ==
  ASSUME IInv, FirstWrite, [Next]_vars, NEW k \in LiveRows \ LiveRows'
  PROVE  \/ jobs[k].claimed /\ UNCHANGED order
         \/ /\ Advances(order'.gen)
            /\ jobs[k].lane = "imperative" => order'.rev \in Events
<1>0. order # NULL
  BY DEF FirstWrite
<1>1. ASSUME NEW s \in Scans, Scan(s)
      PROVE  Advances(order'.gen) /\ jobs[k].lane = "fact"
  BY <1>0, <1>1, ScanEnds
<1>2. ASSUME NEW c \in Calls, Call(c)
      PROVE  Advances(order'.gen) /\ order'.rev \in Events
  BY <1>0, <1>2, CallEnds
<1>3. ASSUME NEW i \in Seqs, Worker(i) PROVE jobs[k].claimed /\ UNCHANGED order
  BY <1>3, WorkerEnds
<1>4. ~UNCHANGED vars
  BY DEF vars, LiveRows, Live
<1> QED
  BY <1>1, <1>2, <1>3, <1>4 DEF Next

\* A live row ends by its worker or by a newer write; scans end no imperative
\* row.
THEOREM NewerDisplaces == Spec => DisplacedByNewer
<1>1. Init => FirstWrite
  BY DEF Init, FirstWrite, LiveRows, Live
<1>2. Spec => []FirstWrite
  BY <1>1, FirstWriteKeeps, LanesInvariant, PTL DEF Spec
<1>3. IInv /\ FirstWrite /\ [Next]_vars =>
        [\A i \in LiveRows \ LiveRows' :
           \/ jobs[i].claimed /\ UNCHANGED order
           \/ /\ Advances(order'.gen)
              /\ jobs[i].lane = "imperative" => order'.rev \in Events]_vars
  BY StepEnds
<1> QED
  BY <1>2, <1>3, LanesInvariant, PTL DEF Spec, DisplacedByNewer

=============================================================================
