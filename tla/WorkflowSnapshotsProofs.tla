---------------------- MODULE WorkflowSnapshotsProofs ----------------------
(***************************************************************************)
(* Proofs about the snapshot authority, for every number of tasks, passes, *)
(* generations and tokens.                                                 *)
(***************************************************************************)
EXTENDS WorkflowSnapshots, TLAPS

-----------------------------------------------------------------------------
(* Rows and cursors keep their shape.                                      *)

\* What the row helpers return is a row.
LEMMA RowShapes ==
    ASSUME NEW r \in Row
    PROVE  /\ NoRow \in Row /\ [NoRow EXCEPT !.state = "queued"] \in Row
           /\ Superseded(r) \in Row /\ Retired(r) \in Row
           /\ Requeued(r) \in Row
           /\ [r EXCEPT !.quarantined = TRUE] \in Row
           /\ \A x \in {"completed", "exhausted"} :
                  [r EXCEPT !.state = x, !.token = NULL] \in Row
<1>1. NoRow \in Row /\ [NoRow EXCEPT !.state = "queued"] \in Row
  <2>1. 0 \in 0 .. MaxAttempts
    BY SnapshotAssumption
  <2>2. NoRow \in Row
    BY <2>1 DEF NoRow, Row, JobStates
  <2>3. [NoRow EXCEPT !.state = "queued"] \in Row
    BY <2>2 DEF Row, JobStates
  <2> QED
    BY <2>2, <2>3
<1>2. Superseded(r) \in Row
  BY DEF Superseded, Row, JobStates
<1>3. Retired(r) \in Row
  BY <1>2 DEF Retired
<1>4. Requeued(r) \in Row
  BY DEF Requeued, Row, JobStates
<1>5. [r EXCEPT !.quarantined = TRUE] \in Row
  BY DEF Row, JobStates
<1>6. ASSUME NEW x \in {"completed", "exhausted"}
      PROVE  [r EXCEPT !.state = x, !.token = NULL] \in Row
  BY DEF Row, JobStates
<1> QED
  BY <1>1, <1>2, <1>3, <1>4, <1>5, <1>6

\* Only an active row that is not quarantined is retired.
LEMMA RetiredRow ==
    ASSUME NEW r \in Row
    PROVE  /\ ~Leased(Retired(r))
           /\ Quarantined(r) => Retired(r) = r
           /\ Retired(r).state = "completed" <=> r.state = "completed"
BY DEF Retired, Superseded, Leased, Active, Quarantined, Row, JobStates

\* Putting one row of one task in place keeps the table a table.
LEMMA SetJobShape ==
    ASSUME job \in [Tasks -> [JobGens -> Row]],
           NEW t \in Tasks, NEW j \in JobGens, NEW r \in Row, SetJob(t, j, r)
    PROVE  /\ job' \in [Tasks -> [JobGens -> Row]]
           /\ job'[t][j] = r
           /\ \A u \in Tasks : \A i \in JobGens :
                  <<u, i>> # <<t, j>> => job'[u][i] = job[u][i]
<1>1. job' = [job EXCEPT ![t] = [job[t] EXCEPT ![j] = r]]
  BY DEF SetJob
<1>2. job[t] \in [JobGens -> Row] /\ [job[t] EXCEPT ![j] = r] \in [JobGens -> Row]
  OBVIOUS
<1>3. job' \in [Tasks -> [JobGens -> Row]]
  BY <1>1, <1>2
<1>4. job'[t] = [job[t] EXCEPT ![j] = r]
  BY <1>1
<1>5. job'[t][j] = r
  BY <1>2, <1>4
<1>6. ASSUME NEW u \in Tasks, NEW i \in JobGens, <<u, i>> # <<t, j>>
      PROVE  job'[u][i] = job[u][i]
  <2>1. CASE u # t
    BY <1>1, <2>1
  <2>2. CASE u = t
    BY <1>2, <1>4, <1>6, <2>2
  <2> QED
    BY <2>1, <2>2
<1> QED
  BY <1>3, <1>5, <1>6

-----------------------------------------------------------------------------
(* The passes keep their shape.                                            *)

Scanning == scan \in [Scans -> Scan]

\* What the type invariant says of one pass.
LEMMA PassShape ==
    ASSUME SnapshotTypeOK, NEW s \in Scans
    PROVE  /\ Scanning /\ scan[s] \in Scan
           /\ scan[s].pc # "idle" => scan[s].gen \in 1 .. MaxGen
           /\ Holding(s) => scan[s].view \in View
<1>1. Scanning /\ scan[s] \in Scan
  BY DEF SnapshotTypeOK, Scanning
<1>2. scan[s].gen \in 0 .. MaxGen
  BY <1>1 DEF Scan
<1>3. scan[s].pc # "idle" => scan[s].gen # 0
  BY Zenon DEF SnapshotTypeOK
<1>4. Holding(s) => scan[s].view \in View
  BY Zenon DEF SnapshotTypeOK
<1> QED
  BY <1>1, <1>2, <1>3, <1>4, SnapshotAssumption

\* An idle pass is a pass; so is one that only has its generation.
LEMMA IdleShape ==
    /\ Idle \in Scan /\ Idle.pc = "idle"
<1>1. NoPlan \in [{} -> Decisions] /\ {} \in SUBSET Tasks
  BY DEF NoPlan
<1>2. NoPlan \in Plan
  BY <1>1 DEF Plan
<1>3. 0 \in 0 .. MaxGen
  BY SnapshotAssumption
<1> QED
  BY <1>2, <1>3 DEF Idle, Scan, Phases

LEMMA BareShape ==
    ASSUME NEW p \in Phases, NEW g \in 0 .. MaxGen
    PROVE  /\ [Idle EXCEPT !.pc = p, !.gen = g] \in Scan
           /\ [Idle EXCEPT !.pc = p, !.gen = g].pc = p
           /\ [Idle EXCEPT !.pc = p, !.gen = g].gen = g
<1>1. Idle \in Scan
  BY IdleShape
<1> QED
  BY <1>1 DEF Scan

\* Replacing one pass touches no other.
LEMMA ScanShape ==
    ASSUME Scanning, NEW s \in Scans, NEW x \in Scan,
           scan' = [scan EXCEPT ![s] = x]
    PROVE  /\ Scanning' /\ scan'[s] = x
           /\ \A r \in Scans : r # s => scan'[r] = scan[r]
BY DEF Scanning

LEMMA MoveShape ==
    ASSUME Scanning, NEW s \in Scans, NEW phase \in Phases, Move(s, phase)
    PROVE  /\ Scanning' /\ scan'[s] = [scan[s] EXCEPT !.pc = phase]
           /\ \A r \in Scans : r # s => scan'[r] = scan[r]
<1>1. [scan[s] EXCEPT !.pc = phase] \in Scan
  BY DEF Scanning, Scan
<1>2. scan' = [scan EXCEPT ![s] = [scan[s] EXCEPT !.pc = phase]]
  BY DEF Move
<1> QED
  BY <1>1, <1>2, ScanShape

LEMMA EndShape ==
    ASSUME Scanning, NEW s \in Scans, End(s)
    PROVE  /\ Scanning' /\ scan'[s] = Idle
           /\ \A r \in Scans : r # s => scan'[r] = scan[r]
BY ScanShape, IdleShape DEF End

LEMMA FailureShape ==
    ASSUME Scanning, NEW s \in Scans, AfterFailure(s)
    PROVE  /\ Scanning'
           /\ \/ scan'[s] = Idle
              \/ scan'[s].pc = "failed" /\ scan'[s].gen = scan[s].gen
           /\ \A r \in Scans : r # s => scan'[r] = scan[r]
<1>1. CASE End(s)
  BY <1>1, EndShape
<1>2. CASE ~End(s)
  <2> DEFINE x == [Idle EXCEPT !.pc = "failed", !.gen = scan[s].gen]
  <2>1. scan[s].gen \in 0 .. MaxGen /\ "failed" \in Phases
    BY DEF Scanning, Scan, Phases
  <2>2. x \in Scan /\ x.pc = "failed" /\ x.gen = scan[s].gen
    BY <2>1, BareShape
  <2>3. scan' = [scan EXCEPT ![s] = x]
    BY <1>2 DEF AfterFailure
  <2> QED
    BY <2>2, <2>3, ScanShape
<1> QED
  BY <1>1, <1>2

\* What a pass captures is a view.
LEMMA CaptureShape ==
    ASSUME SnapshotTypeOK, NEW s \in Scans, Capture(s)
    PROVE  /\ Scanning'
           /\ scan'[s].pc = "captured" /\ scan'[s].gen = scan[s].gen
           /\ scan'[s].plan = scan[s].plan /\ scan'[s].rearmed = {}
           /\ scan'[s].view = [member |-> member, cursor |-> cursor, job |-> job]
           /\ scan'[s].view \in View
           /\ \A r \in Scans : r # s => scan'[r] = scan[r]
<1> DEFINE v == [member |-> member, cursor |-> cursor, job |-> job]
           x == [scan[s] EXCEPT !.pc = "captured", !.view = v, !.rearmed = {}]
<1>1. v \in View
  BY DEF SnapshotTypeOK, View
<1>2. x \in Scan /\ Scanning
  BY <1>1 DEF SnapshotTypeOK, Scan, Phases, Scanning
<1>3. scan' = [scan EXCEPT ![s] = x]
  BY DEF Capture
<1>4. x.pc = "captured" /\ x.gen = scan[s].gen /\ x.plan = scan[s].plan
      /\ x.rearmed = {} /\ x.view = v
  BY <1>2 DEF Scanning, Scan
<1> QED
  BY <1>1, <1>2, <1>3, <1>4, ScanShape

\* Retirement leaves no lease behind on a task the tracker no longer has.
LEMMA MembershipShape ==
    ASSUME SnapshotTypeOK, NEW s \in Scans, ReconcileMembership(s)
    PROVE  /\ member' \in [Tasks -> 0 .. MaxGen]
           /\ cursor' \in [Tasks -> Cursor]
           /\ job' \in [Tasks -> [JobGens -> Row]]
           /\ Scanning'
           /\ scan'[s].pc = "staging" /\ scan'[s].gen = scan[s].gen
           /\ scan'[s].view = scan[s].view /\ scan'[s].rearmed = scan[s].rearmed
           /\ \A r \in Scans : r # s => scan'[r] = scan[r]
           /\ \A t \in Tasks :
                 \/ /\ cursor'[t] = cursor[t] /\ job'[t] = job[t]
                    /\ member'[t] \in {member[t], scan[s].gen}
                 \/ /\ cursor'[t] = NoCursor /\ member'[t] = 0
                    /\ \A j \in JobGens : job'[t][j] = Retired(job[t][j])
           /\ \A t \in DOMAIN scan'[s].plan : t \in Tasks /\ member'[t] = scan[s].gen
<1> DEFINE Effect(expected, evaluated, plan) ==
        /\ member' = [t \in Tasks |->
               IF t \notin expected THEN 0
               ELSE IF t \in evaluated \/ member[t] = 0 THEN scan[s].gen
               ELSE member[t]]
        /\ cursor' = [t \in Tasks |->
               IF t \in expected THEN cursor[t] ELSE NoCursor]
        /\ job' = [t \in Tasks |->
               IF t \in expected THEN job[t]
               ELSE [j \in JobGens |-> Retired(job[t][j])]]
        /\ scan' = [scan EXCEPT ![s].pc = "staging", ![s].plan = plan]
<1>1. PICK expected \in SUBSET Tasks, evaluated \in SUBSET Tasks, plan \in Plan :
          /\ Effect(expected, evaluated, plan)
          /\ evaluated \subseteq expected /\ DOMAIN plan = evaluated
  <2>1. \E expected \in SUBSET Tasks : \E evaluated \in SUBSET expected :
            \E plan \in [evaluated -> Decisions] :
                Effect(expected, evaluated, plan)
    BY DEF ReconcileMembership
  <2>2. ASSUME NEW expected \in SUBSET Tasks, NEW evaluated \in SUBSET expected,
               NEW plan \in [evaluated -> Decisions]
        PROVE  evaluated \in SUBSET Tasks /\ plan \in Plan /\ DOMAIN plan = evaluated
    BY DEF Plan
  <2> HIDE DEF Effect
  <2> QED
    BY <2>1, <2>2, Zenon
<1>2. scan[s] \in Scan /\ Scanning
  BY DEF SnapshotTypeOK, Scanning
<1>3. member' \in [Tasks -> 0 .. MaxGen]
  <2>1. scan[s].gen \in 0 .. MaxGen /\ 0 \in 0 .. MaxGen
    BY <1>2, SnapshotAssumption DEF Scan
  <2> QED
    BY <1>1, <2>1 DEF SnapshotTypeOK
<1>4. cursor' \in [Tasks -> Cursor]
  <2>1. NoCursor \in Cursor
    BY SnapshotAssumption DEF NoCursor, Cursor
  <2> QED
    BY <1>1, <2>1 DEF SnapshotTypeOK
<1>5. \A t \in Tasks : \A j \in JobGens : Retired(job[t][j]) \in Row
  BY RowShapes DEF SnapshotTypeOK
<1>6. job' \in [Tasks -> [JobGens -> Row]]
  BY <1>1, <1>5 DEF SnapshotTypeOK
<1>8. /\ Scanning'
      /\ scan'[s].pc = "staging" /\ scan'[s].gen = scan[s].gen
      /\ scan'[s].view = scan[s].view /\ scan'[s].rearmed = scan[s].rearmed
      /\ scan'[s].plan = plan
      /\ \A r \in Scans : r # s => scan'[r] = scan[r]
  <2> DEFINE x == [scan[s] EXCEPT !.pc = "staging", !.plan = plan]
  <2>1. x \in Scan /\ x.pc = "staging" /\ x.gen = scan[s].gen
        /\ x.view = scan[s].view /\ x.rearmed = scan[s].rearmed /\ x.plan = plan
    BY <1>2 DEF Scan, Phases
  <2>2. scan' = [scan EXCEPT ![s] = x]
    BY <1>1
  <2> QED
    BY <1>2, <2>1, <2>2, ScanShape
<1>7. ASSUME NEW t \in Tasks
      PROVE  \/ /\ cursor'[t] = cursor[t] /\ job'[t] = job[t]
                /\ member'[t] \in {member[t], scan[s].gen}
             \/ /\ cursor'[t] = NoCursor /\ member'[t] = 0
                /\ \A j \in JobGens : job'[t][j] = Retired(job[t][j])
  BY <1>1
<1>9. ASSUME NEW t \in DOMAIN scan'[s].plan
      PROVE  t \in Tasks /\ member'[t] = scan[s].gen
  BY <1>1, <1>8
<1> QED
  BY <1>3, <1>4, <1>6, <1>7, <1>8, <1>9

\* A scheduled task keeps only the lease of the job it materialises, and an
\* activated one keeps its cursor or loses its materialisation.
LEMMA ScheduleShape ==
    ASSUME SnapshotTypeOK, NEW s \in Scans, NEW t \in Tasks, Schedule(s, t)
    PROVE  /\ cursor' \in [Tasks -> Cursor]
           /\ job' \in [Tasks -> [JobGens -> Row]]
           /\ Scanning'
           /\ scan'[s].pc = scan[s].pc /\ scan'[s].gen = scan[s].gen
           /\ scan'[s].view = scan[s].view /\ scan'[s].rearmed = scan[s].rearmed
           /\ DOMAIN scan'[s].plan \subseteq DOMAIN scan[s].plan
           /\ \A r \in Scans : r # s => scan'[r] = scan[r]
           /\ \A u \in Tasks : u # t => cursor'[u] = cursor[u]
                                        /\ job'[u] = job[u]
           /\ cursor'[t].generation \in JobGens
           /\ \A i \in JobGens :
                \/ /\ job'[t][i] = job[t][i]
                   /\ \/ cursor'[t].generation = i
                      \/ cursor'[t].materialized =>
                            /\ cursor'[t].generation = cursor[t].generation
                            /\ cursor[t].materialized
                \/ job'[t][i] = Retired(job[t][i])
                \/ /\ job[t][i].state = "absent"
                   /\ job'[t][i] = [NoRow EXCEPT !.state = "queued"]
<1> DEFINE g == scan[s].gen
           d == scan[s].plan[t]
<1>1. PICK due \in BOOLEAN, selected \in BOOLEAN :
        /\ cursor' = [cursor EXCEPT ![t] =
             [snapshot |-> g, generation |-> Activated(t, d, g, due),
              materialized |-> selected \/
                  (cursor[t].generation = Activated(t, d, g, due)
                   /\ cursor[t].materialized)]]
        /\ job' = IF selected
                  THEN [job EXCEPT ![t] =
                           Scheduled(t, d, Activated(t, d, g, due))]
                  ELSE job
  BY DEF Schedule
<1>2. scan[s] \in Scan /\ Scanning /\ g \in 1 .. MaxGen
  <2>1. scan[s].pc = "staging"
    BY DEF Schedule
  <2>2. scan[s].pc # "idle"
    BY <2>1
  <2> QED
    BY <2>2, PassShape
<1>3. d \in Decisions
  <2>1. t \in DOMAIN scan[s].plan /\ scan[s].plan \in Plan
    BY <1>2 DEF Schedule, Scan
  <2>2. PICK window \in SUBSET Tasks : scan[s].plan \in [window -> Decisions]
    BY <2>1 DEF Plan
  <2> QED
    BY <2>1, <2>2
<1> DEFINE j == Activated(t, d, g, due)
<1>4. cursor[t] \in Cursor /\ cursor \in [Tasks -> Cursor]
  BY DEF SnapshotTypeOK
<1>5. j \in JobGens
  <2>1. <<d, g>> \in JobGens
    BY <1>2, <1>3 DEF JobGens
  <2>2. CASE Rotates(t, d, due)
    BY <2>1, <2>2 DEF Activated
  <2>3. CASE ~Rotates(t, d, due)
    BY <1>4, <2>3 DEF Activated, Rotates, Cursor
  <2> QED
    BY <2>2, <2>3
<1> HIDE DEF j
<1>6. /\ cursor'[t].generation = j
      /\ cursor'[t].materialized = (selected \/
             (cursor[t].generation = j /\ cursor[t].materialized))
      /\ cursor' \in [Tasks -> Cursor]
      /\ \A u \in Tasks : u # t => cursor'[u] = cursor[u]
  <2> DEFINE c == [snapshot |-> g, generation |-> j,
                   materialized |-> selected \/
                       (cursor[t].generation = j /\ cursor[t].materialized)]
  <2>1. cursor[t].materialized \in BOOLEAN
    BY <1>4 DEF Cursor
  <2>2. c \in Cursor
    BY <1>2, <1>5, <2>1 DEF Cursor
  <2>3. cursor' = [cursor EXCEPT ![t] = c]
    BY <1>1 DEF j
  <2> QED
    BY <1>4, <2>2, <2>3
<1>7. ASSUME NEW i \in JobGens
      PROVE  /\ job[t][i] \in Row /\ Scheduled(t, d, j)[i] \in Row
             /\ \/ Scheduled(t, d, j)[i] = job[t][i] /\ i = j
                \/ Scheduled(t, d, j)[i] = Retired(job[t][i])
                \/ /\ job[t][i].state = "absent"
                   /\ Scheduled(t, d, j)[i] = [NoRow EXCEPT !.state = "queued"]
  BY RowShapes DEF Scheduled, SnapshotTypeOK
<1>8. Scheduled(t, d, j) \in [JobGens -> Row]
  <2>1. Scheduled(t, d, j) = [i \in JobGens |-> Scheduled(t, d, j)[i]]
    BY DEF Scheduled
  <2> QED
    BY <1>7, <2>1
<1>9. /\ job' \in [Tasks -> [JobGens -> Row]]
      /\ \A u \in Tasks : u # t => job'[u] = job[u]
      /\ job'[t] = IF selected THEN Scheduled(t, d, j) ELSE job[t]
  BY <1>1, <1>8 DEF SnapshotTypeOK, j
<1>10. /\ Scanning'
       /\ scan'[s].pc = scan[s].pc /\ scan'[s].gen = scan[s].gen
       /\ scan'[s].view = scan[s].view /\ scan'[s].rearmed = scan[s].rearmed
       /\ DOMAIN scan'[s].plan \subseteq DOMAIN scan[s].plan
       /\ \A r \in Scans : r # s => scan'[r] = scan[r]
  <2> DEFINE rest == [u \in DOMAIN scan[s].plan \ {t} |-> scan[s].plan[u]]
             x == [scan[s] EXCEPT !.plan = rest]
  <2>1. PICK window \in SUBSET Tasks : scan[s].plan \in [window -> Decisions]
    BY <1>2 DEF Scan, Plan
  <2>2. rest \in [window \ {t} -> Decisions]
    BY <2>1
  <2>3. rest \in Plan
    BY <2>1, <2>2 DEF Plan
  <2>4. x \in Scan /\ x.pc = scan[s].pc /\ x.gen = scan[s].gen
        /\ x.view = scan[s].view /\ x.rearmed = scan[s].rearmed
        /\ DOMAIN x.plan \subseteq DOMAIN scan[s].plan
    BY <1>2, <2>3 DEF Scan
  <2>5. scan' = [scan EXCEPT ![s] = x]
    BY DEF Schedule
  <2> QED
    BY <1>2, <2>4, <2>5, ScanShape
<1>11. ASSUME NEW i \in JobGens
       PROVE  \/ /\ job'[t][i] = job[t][i]
                 /\ \/ cursor'[t].generation = i
                    \/ cursor'[t].materialized =>
                          /\ cursor'[t].generation = cursor[t].generation
                          /\ cursor[t].materialized
              \/ job'[t][i] = Retired(job[t][i])
              \/ /\ job[t][i].state = "absent"
                 /\ job'[t][i] = [NoRow EXCEPT !.state = "queued"]
  <2>1. CASE selected
    BY <1>6, <1>7, <1>9, <2>1
  <2>2. CASE ~selected
    BY <1>6, <1>9, <2>2
  <2> QED
    BY <2>1, <2>2
<1> QED
  BY <1>5, <1>6, <1>9, <1>10, <1>11

\* A rollback puts the captured authority back, row by row.
LEMMA RollbackShape ==
    ASSUME SnapshotTypeOK, NEW s \in Scans, Rollback(s)
    PROVE  /\ member' \in [Tasks -> 0 .. MaxGen]
           /\ cursor' = scan[s].view.cursor /\ cursor' \in [Tasks -> Cursor]
           /\ job' \in [Tasks -> [JobGens -> Row]]
           /\ \A t \in Tasks : \A j \in JobGens :
                  job'[t][j] = Restored(s, t, j)
<1>1. scan[s].view \in View
  BY DEF SnapshotTypeOK, Rollback, Holding
<1>2. /\ member' \in [Tasks -> 0 .. MaxGen]
      /\ cursor' = scan[s].view.cursor /\ cursor' \in [Tasks -> Cursor]
  BY <1>1 DEF View, Rollback
<1>3. ASSUME NEW t \in Tasks, NEW j \in JobGens
      PROVE  Restored(s, t, j) \in Row
  <2>1. job[t][j] \in Row /\ scan[s].view.job[t][j] \in Row
    BY <1>1 DEF SnapshotTypeOK, View
  <2> QED
    BY <2>1, RowShapes DEF Restored
<1>4. job' = [t \in Tasks |-> [j \in JobGens |-> Restored(s, t, j)]]
  BY DEF Rollback
<1> QED
  BY <1>2, <1>3, <1>4

-----------------------------------------------------------------------------
(* Type correctness.                                                       *)

TablesTyped ==
    /\ allocated \in 0 .. MaxGen /\ accepted \in 0 .. MaxGen
    /\ published \in 0 .. MaxGen
    /\ member \in [Tasks -> 0 .. MaxGen]
    /\ cursor \in [Tasks -> Cursor]
    /\ job \in [Tasks -> [JobGens -> Row]]
    /\ calls \subseteq Tasks \X JobGens \X Tokens

PassTyped(s) ==
    /\ scan[s].pc # "idle" => scan[s].gen # 0
    /\ Holding(s) => scan[s].view \in View

PassesTyped == Scanning /\ \A s \in Scans : PassTyped(s)

\* The type invariant splits into the tables and the passes.
LEMMA TypeParts == SnapshotTypeOK <=> TablesTyped /\ PassesTyped
BY DEF SnapshotTypeOK, TablesTyped, PassesTyped, PassTyped, Scanning

\* The same after a step.
LEMMA TypePartsNext == TablesTyped' /\ PassesTyped' => SnapshotTypeOK'
BY DEF SnapshotTypeOK, TablesTyped, PassesTyped, PassTyped, Scanning

\* Passes that do not move stay typed.
LEMMA TypeUnchanged ==
    ASSUME PassesTyped, UNCHANGED scan, TablesTyped'
    PROVE  SnapshotTypeOK'
<1>1. Scanning'
  BY DEF PassesTyped, Scanning
<1>2. ASSUME NEW s \in Scans
      PROVE  PassTyped(s)'
  BY DEF PassesTyped, PassTyped, Holding
<1> QED
  BY <1>1, <1>2, TypePartsNext DEF PassesTyped

\* A pass that moves alone leaves the others typed.
LEMMA OthersTyped ==
    ASSUME PassesTyped, NEW s \in Scans, Scanning', PassTyped(s)',
           \A r \in Scans : r # s => scan'[r] = scan[r]
    PROVE  PassesTyped'
<1>1. ASSUME NEW r \in Scans, r # s
      PROVE  PassTyped(r)'
  BY <1>1 DEF PassesTyped, PassTyped, Holding
<1> QED
  BY <1>1 DEF PassesTyped

\* A step of a pass keeps every pass typed.
LEMMA PassTypes ==
    ASSUME SnapshotTypeOK, NEW s \in Scans, Pass(s)
    PROVE  PassesTyped'
<1> USE TypeParts, PassShape
<1>0. PassesTyped /\ PassTyped(s) /\ Scanning /\ scan[s] \in Scan
  BY DEF PassesTyped
<1>1. CASE Allocate(s)
  <2> DEFINE x == [Idle EXCEPT !.pc = "scanning", !.gen = allocated + 1]
  <2>1. allocated + 1 \in 0 .. MaxGen /\ allocated + 1 # 0
    BY <1>1, SnapshotAssumption DEF Allocate, TablesTyped
  <2>2. "scanning" \in Phases
    BY DEF Phases
  <2>3. x \in Scan /\ x.pc = "scanning" /\ x.gen = allocated + 1
    BY <2>1, <2>2, BareShape
  <2>4. scan' = [scan EXCEPT ![s] = x]
    BY <1>1 DEF Allocate
  <2>5. scan'[s] = x
    BY <1>0, <2>3, <2>4, ScanShape
  <2>6. PassTyped(s)'
    BY <2>1, <2>3, <2>5 DEF PassTyped, Holding
  <2> QED
    BY <1>0, <2>3, <2>4, <2>6, ScanShape, OthersTyped
<1>2. CASE Capture(s)
  <2>1. PassTyped(s)'
    BY <1>0, <1>2, CaptureShape DEF PassTyped, Capture
  <2> QED
    BY <1>0, <1>2, <2>1, CaptureShape, OthersTyped
<1>3. ASSUME NEW phase \in Phases, Move(s, phase), scan[s].pc # "idle",
             phase \in {"accepted", "staging"} => Holding(s),
             phase # "captured"
      PROVE  PassesTyped'
  <2>1. scan'[s] = [scan[s] EXCEPT !.pc = phase]
    BY <1>0, <1>3, MoveShape
  <2>2. scan'[s].pc = phase /\ scan'[s].gen = scan[s].gen
        /\ scan'[s].view = scan[s].view
    BY <1>0, <2>1 DEF Scan
  <2>3. PassTyped(s)'
    BY <1>0, <1>3, <2>2 DEF PassTyped, Holding
  <2> QED
    BY <1>0, <1>3, <2>3, MoveShape, OthersTyped
<1>4. ASSUME End(s)
      PROVE  PassesTyped'
  <2>0. scan'[s] = Idle
    BY <1>0, <1>4, EndShape
  <2>1. scan'[s].pc = "idle"
    BY <2>0, IdleShape
  <2>2. PassTyped(s)'
    BY <2>1 DEF PassTyped, Holding
  <2> QED
    BY <1>0, <1>4, <2>2, EndShape, OthersTyped
<1>5. ASSUME AfterFailure(s), scan[s].pc # "idle"
      PROVE  PassesTyped'
  <2>1. scan'[s].pc = "idle" \/ (scan'[s].pc = "failed" /\ scan'[s].gen = scan[s].gen)
    BY <1>0, <1>5, FailureShape, IdleShape
  <2>2. PassTyped(s)'
    BY <1>0, <1>5, <2>1 DEF PassTyped, Holding
  <2> QED
    BY <1>0, <1>5, <2>2, FailureShape, OthersTyped
<1>6. CASE Accept(s)
  BY <1>3, <1>6 DEF Accept, Phases, Holding
<1>7. CASE ReconcileMembership(s)
  <2>1. PassTyped(s)'
    BY <1>0, <1>7, MembershipShape DEF PassTyped, Holding, ReconcileMembership
  <2> QED
    BY <1>0, <1>7, <2>1, MembershipShape, OthersTyped
<1>8. ASSUME NEW t \in Tasks, Schedule(s, t)
      PROVE  PassesTyped'
  <2>1. PassTyped(s)'
    BY <1>0, <1>8, ScheduleShape DEF PassTyped, Holding
  <2> QED
    BY <1>0, <1>8, <2>1, ScheduleShape, OthersTyped
<1>9. CASE Publish(s) \/ Abandon(s) \/ PublishFailure(s)
  BY <1>4, <1>9 DEF Publish, Abandon, PublishFailure
<1>10. CASE Rollback(s) \/ FailedRollback(s)
  BY <1>5, <1>10 DEF Rollback, FailedRollback
<1>11. CASE AcceptFailure(s)
  BY <1>3, <1>11 DEF AcceptFailure, Phases
<1> QED
  BY <1>1, <1>2, <1>6, <1>7, <1>8, <1>9, <1>10, <1>11 DEF Pass

\* A step of a pass keeps the tables typed.
LEMMA PassTables ==
    ASSUME SnapshotTypeOK, NEW s \in Scans, Pass(s)
    PROVE  TablesTyped'
<1>0. TablesTyped /\ scan[s].gen \in 0 .. MaxGen
  BY TypeParts, PassShape DEF Scan
<1>1. CASE Allocate(s)
  BY <1>0, <1>1, SnapshotAssumption
     DEF Allocate, TablesTyped, authority
<1>2. CASE Capture(s) \/ Abandon(s)
  BY <1>0, <1>2 DEF Capture, Abandon, TablesTyped, authority, markers
<1>3. CASE Accept(s) \/ AcceptFailure(s)
  BY <1>0, <1>3 DEF Accept, AcceptFailure, TablesTyped, authority
<1>4. CASE Publish(s) \/ PublishFailure(s)
  BY <1>0, <1>4 DEF Publish, PublishFailure, TablesTyped, authority
<1>5. CASE FailedRollback(s)
  BY <1>0, <1>5 DEF FailedRollback, TablesTyped, authority
<1>6. CASE ReconcileMembership(s)
  <2>1. UNCHANGED <<markers, calls>>
    BY <1>6 DEF ReconcileMembership
  <2> QED
    BY <1>0, <1>6, <2>1, MembershipShape DEF TablesTyped, markers
<1>7. ASSUME NEW t \in Tasks, Schedule(s, t)
      PROVE  TablesTyped'
  <2>1. UNCHANGED <<markers, member, calls>>
    BY <1>7 DEF Schedule
  <2> QED
    BY <1>0, <1>7, <2>1, ScheduleShape DEF TablesTyped, markers
<1>8. CASE Rollback(s)
  <2>1. accepted' = published /\ UNCHANGED <<allocated, published, calls>>
    BY <1>8 DEF Rollback
  <2> QED
    BY <1>0, <1>8, <2>1, RollbackShape DEF TablesTyped
<1> QED
  BY <1>1, <1>2, <1>3, <1>4, <1>5, <1>6, <1>7, <1>8 DEF Pass

\* A rearm is noted by every pass that holds a view.
LEMMA RearmShape ==
    ASSUME Scanning, NEW t \in Tasks, NEW j \in JobGens, Rearm(t, j)
    PROVE  /\ Scanning'
           /\ \A s \in Scans :
                /\ scan'[s].pc = scan[s].pc /\ scan'[s].gen = scan[s].gen
                /\ scan'[s].view = scan[s].view /\ scan'[s].plan = scan[s].plan
                /\ scan'[s].rearmed = IF Holding(s)
                                      THEN scan[s].rearmed \cup {<<t, j>>}
                                      ELSE scan[s].rearmed
<1> DEFINE x(s) == IF Holding(s)
                   THEN [scan[s] EXCEPT !.rearmed = @ \cup {<<t, j>>}]
                   ELSE scan[s]
<1>1. ASSUME NEW s \in Scans
      PROVE  /\ x(s) \in Scan
             /\ x(s).pc = scan[s].pc /\ x(s).gen = scan[s].gen
             /\ x(s).view = scan[s].view /\ x(s).plan = scan[s].plan
             /\ x(s).rearmed = IF Holding(s)
                               THEN scan[s].rearmed \cup {<<t, j>>}
                               ELSE scan[s].rearmed
  <2>1. scan[s] \in Scan
    BY DEF Scanning
  <2>2. scan[s].rearmed \cup {<<t, j>>} \in SUBSET (Tasks \X JobGens)
    BY <2>1 DEF Scan
  <2> QED
    BY <2>1, <2>2 DEF Scan
<1>2. scan' = [s \in Scans |-> x(s)]
  BY DEF Rearm
<1> HIDE DEF x
<1> QED
  BY <1>1, <1>2 DEF Scanning

\* What a step on one job does: one row changes, to a row.
LEMMA JobStep ==
    ASSUME SnapshotTypeOK, NEW t \in Tasks, NEW j \in JobGens,
           \/ \E k \in Tokens : Worker(t, j, k)
           \/ Maintenance(t, j)
    PROVE  /\ job' \in [Tasks -> [JobGens -> Row]]
           /\ UNCHANGED <<markers, authority>>
           /\ calls' \subseteq Tasks \X JobGens \X Tokens
           /\ \A u \in Tasks : \A i \in JobGens :
                  <<u, i>> # <<t, j>> => job'[u][i] = job[u][i]
           /\ UNCHANGED scan \/ Rearm(t, j)
<1> DEFINE r == job[t][j]
           same == \A u \in Tasks : \A i \in JobGens :
                       <<u, i>> # <<t, j>> => job'[u][i] = job[u][i]
           done == job' \in [Tasks -> [JobGens -> Row]] /\ same
<1>0. /\ job \in [Tasks -> [JobGens -> Row]] /\ r \in Row
      /\ calls \subseteq Tasks \X JobGens \X Tokens
  BY DEF SnapshotTypeOK
<1>1. ASSUME NEW x \in Row, SetJob(t, j, x)
      PROVE  done
  BY <1>0, <1>1, SetJobShape
<1>2. /\ Requeued(r) \in Row /\ Superseded(r) \in Row
      /\ [NoRow EXCEPT !.state = "queued"] \in Row
      /\ [r EXCEPT !.quarantined = TRUE] \in Row
      /\ [r EXCEPT !.state = "completed", !.token = NULL] \in Row
      /\ [r EXCEPT !.state = "exhausted", !.token = NULL] \in Row
  BY <1>0, RowShapes
<1>3. ASSUME NEW k \in Tokens, Claim(t, j, k)
      PROVE  done /\ calls' \subseteq Tasks \X JobGens \X Tokens
  <2> DEFINE x == [state |-> "running", quarantined |-> FALSE,
                   attempts |-> r.attempts + 1, token |-> k]
  <2>1. r.attempts + 1 \in 0 .. MaxAttempts
    BY <1>0, <1>3, SnapshotAssumption DEF Claim, Claimable, Row
  <2>2. x \in Row
    BY <2>1 DEF Row, JobStates
  <2>3. SetJob(t, j, x) /\ calls' = calls \cup {<<t, j, k>>}
    BY <1>3 DEF Claim
  <2> QED
    BY <1>0, <1>1, <2>2, <2>3
<1>4. ASSUME NEW k \in Tokens, Complete(t, j, k) \/ Fail(t, j, k)
      PROVE  done /\ calls' \subseteq Tasks \X JobGens \X Tokens
  BY <1>0, <1>1, <1>2, <1>4 DEF Complete, Fail
<1>5. ASSUME NEW k \in Tokens, LoseLease(t, j, k)
      PROVE  done /\ calls' \subseteq Tasks \X JobGens \X Tokens
  BY <1>0, <1>5 DEF LoseLease
<1>6. ASSUME NEW k \in Tokens, Quarantine(t, j, k)
      PROVE  done /\ calls' \subseteq Tasks \X JobGens \X Tokens
  BY <1>0, <1>1, <1>2, <1>6 DEF Quarantine
<1>7. ASSUME NEW k \in Tokens, Settle(t, j, k)
      PROVE  done /\ calls' \subseteq Tasks \X JobGens \X Tokens
  <2> DEFINE x == [r EXCEPT !.state = "queued", !.quarantined = FALSE,
                     !.token = NULL,
                     !.attempts = IF r.attempts = 0 THEN 0 ELSE r.attempts - 1]
             y == [r EXCEPT !.state = "exhausted", !.quarantined = FALSE,
                            !.token = NULL]
  <2>0. (IF r.attempts = 0 THEN 0 ELSE r.attempts - 1) \in 0 .. MaxAttempts
    <3>1. r.attempts \in 0 .. MaxAttempts
      BY <1>0 DEF Row
    <3> QED
      BY <3>1, SnapshotAssumption
  <2>1. x \in Row
    BY <1>0, <2>0 DEF Row, JobStates
  <2>2. y \in Row
    BY <1>0 DEF Row, JobStates
  <2>3. /\ SetJob(t, j, x) \/ SetJob(t, j, Requeued(r)) \/ SetJob(t, j, y)
        /\ calls' = calls \ {<<t, j, k>>}
    BY <1>7 DEF Settle
  <2> HIDE DEF x, y
  <2> QED
    BY <1>0, <1>1, <1>2, <2>1, <2>2, <2>3
<1>8. ASSUME Maintenance(t, j)
      PROVE  done /\ calls' = calls
  BY <1>1, <1>2, <1>8
     DEF Maintenance, RecoverExpired, Supersede, Rearm
<1>9. UNCHANGED <<markers, authority>> /\ (UNCHANGED scan \/ Rearm(t, j))
  BY DEF Worker, Maintenance, Claim, Complete, Fail, LoseLease, Quarantine,
         Settle, RecoverExpired, Supersede, Rearm
<1> QED
  BY <1>0, <1>3, <1>4, <1>5, <1>6, <1>7, <1>8, <1>9 DEF Worker

\* Init and Next keep every value in its type.
LEMMA TypeInit == Init => SnapshotTypeOK
<1> SUFFICES ASSUME Init PROVE SnapshotTypeOK
  OBVIOUS
<1>1. 0 \in 0 .. MaxGen
  BY SnapshotAssumption
<1>2. NoCursor \in Cursor
  BY <1>1 DEF NoCursor, Cursor
<1>3. NoRow \in Row
  BY SnapshotAssumption DEF NoRow, Row, JobStates
<1>4. Idle \in Scan /\ Idle.pc = "idle"
  BY IdleShape
<1>5. TablesTyped
  BY <1>1, <1>2, <1>3 DEF Init, TablesTyped
<1>6. ASSUME NEW s \in Scans
      PROVE  scan[s] = Idle
  BY DEF Init
<1>7. Scanning
  BY <1>4 DEF Init, Scanning
<1>8. ASSUME NEW s \in Scans
      PROVE  PassTyped(s)
  <2>1. scan[s].pc = "idle"
    BY <1>4, <1>6
  <2> QED
    BY <2>1 DEF PassTyped, Holding
<1> QED
  BY <1>5, <1>7, <1>8, TypeParts DEF PassesTyped

LEMMA TypeStep == SnapshotTypeOK /\ [Next]_vars => SnapshotTypeOK'
<1> SUFFICES ASSUME SnapshotTypeOK, [Next]_vars PROVE SnapshotTypeOK'
  OBVIOUS
<1>1. ASSUME NEW s \in Scans, Pass(s)
      PROVE  SnapshotTypeOK'
  BY <1>1, PassTypes, PassTables, TypePartsNext
<1>2. ASSUME NEW t \in Tasks, NEW j \in JobGens,
             (\E k \in Tokens : Worker(t, j, k)) \/ Maintenance(t, j)
      PROVE  SnapshotTypeOK'
  <2>1. TablesTyped'
    BY <1>2, JobStep, TypeParts DEF TablesTyped, markers, authority
  <2>2. PassesTyped
    BY TypeParts
  <2>3. CASE UNCHANGED scan
    BY <2>1, <2>2, <2>3, TypeUnchanged
  <2>4. CASE Rearm(t, j)
    <3>1. Scanning'
      BY <2>2, <2>4, RearmShape DEF PassesTyped
    <3>2. ASSUME NEW s \in Scans
          PROVE  PassTyped(s)'
      BY <2>2, <2>4, RearmShape DEF PassesTyped, PassTyped, Holding
    <3>3. PassesTyped'
      BY <3>1, <3>2 DEF PassesTyped
    <3> QED
      BY <2>1, <3>3, TypePartsNext
  <2>5. UNCHANGED scan \/ Rearm(t, j)
    BY <1>2, JobStep
  <2> QED
    BY <2>3, <2>4, <2>5
<1>3. CASE UNCHANGED vars
  BY <1>3 DEF vars, SnapshotTypeOK, Holding
<1> QED
  BY <1>1, <1>2, <1>3 DEF Next

\* Rows, cursors, markers and passes stay in their types, whatever passes and
\* workers do.
THEOREM SnapshotTypeCorrect == Spec => []SnapshotTypeOK
BY TypeInit, TypeStep, PTL DEF Spec

-----------------------------------------------------------------------------
(* What a step does to the rows.                                           *)

\* One job: only a claim leases, only a holder finishes, only a rearm revives
\* what is completed, and only a settling call leaves quarantine.
LEMMA RowMoves ==
    ASSUME SnapshotTypeOK, NEW t \in Tasks, NEW j \in JobGens,
           \/ \E k \in Tokens : Worker(t, j, k)
           \/ Maintenance(t, j)
    PROVE  LET r == job[t][j]
               x == job'[t][j]
           IN  /\ Leased(x) => \/ Leased(r)
                               \/ cursor[t].generation = j /\ accepted = published
               /\ r.state # "completed" /\ x.state = "completed"
                      => <<t, j, r.token>> \in calls \ calls'
               /\ r.state = "completed" /\ x.state # "completed" => Rearm(t, j)
               /\ Quarantined(r) /\ x # r => <<t, j, r.token>> \in calls \ calls'
               /\ Rearm(t, j) => ~Leased(x)
               /\ calls' \ calls # {} =>
                      /\ accepted = published
                      /\ \A u \in Tasks : \A i \in JobGens : \A k \in Tokens :
                             <<u, i, k>> \in calls' \ calls => u = t /\ i = j
<1> DEFINE r == job[t][j]
           x == job'[t][j]
           good == /\ Leased(x) => \/ Leased(r)
                                   \/ cursor[t].generation = j
                                      /\ accepted = published
                   /\ r.state # "completed" /\ x.state = "completed"
                          => <<t, j, r.token>> \in calls \ calls'
                   /\ r.state = "completed" /\ x.state # "completed"
                          => Rearm(t, j)
                   /\ Quarantined(r) /\ x # r
                          => <<t, j, r.token>> \in calls \ calls'
                   /\ Rearm(t, j) => ~Leased(x)
           grown == calls' \ calls # {} =>
                      /\ accepted = published
                      /\ \A u \in Tasks : \A i \in JobGens : \A k \in Tokens :
                             <<u, i, k>> \in calls' \ calls => u = t /\ i = j
<1>0. /\ job \in [Tasks -> [JobGens -> Row]] /\ r \in Row
      /\ [NoRow EXCEPT !.state = "queued"] \in Row /\ NoRow \in Row
  BY RowShapes DEF SnapshotTypeOK
<1>1. ASSUME NEW y, SetJob(t, j, y)
      PROVE  x = y
  BY <1>0, <1>1 DEF SetJob
<1>2. ASSUME NEW k \in Tokens, Claim(t, j, k)
      PROVE  good /\ grown
  <2> DEFINE y == [state |-> "running", quarantined |-> FALSE,
                   attempts |-> r.attempts + 1, token |-> k]
  <2>1. x = y
    BY <1>1, <1>2 DEF Claim
  <2>2. r.state = "queued" /\ cursor[t].generation = j /\ accepted = published
        /\ calls' = calls \cup {<<t, j, k>>}
    BY <1>2 DEF Claim, Claimable
  <2>3. ~Rearm(t, j)
    BY <2>2 DEF Rearm
  <2> QED
    BY <2>1, <2>2, <2>3 DEF Quarantined, Leased
<1>3. ASSUME NEW k \in Tokens, Complete(t, j, k)
      PROVE  good /\ grown
  <2>1. x = [r EXCEPT !.state = "completed", !.token = NULL]
    BY <1>1, <1>3 DEF Complete
  <2>2. Leased(r) /\ r.token = k /\ <<t, j, k>> \in calls
        /\ calls' = calls \ {<<t, j, k>>}
    BY <1>3 DEF Complete, Owns, Holds
  <2>3. x.state = "completed"
    BY <1>0, <2>1 DEF Row
  <2>4. ~Rearm(t, j)
    BY <2>2 DEF Rearm, Leased
  <2> QED
    BY <2>2, <2>3, <2>4 DEF Quarantined, Leased
<1>4. Requeued(r).state \in {"queued", "exhausted"}
  BY <1>0 DEF Requeued, Row
<1>5. ASSUME NEW k \in Tokens, Fail(t, j, k)
      PROVE  good /\ grown
  <2>1. \/ x = Requeued(r)
        \/ x = [r EXCEPT !.state = "exhausted", !.token = NULL]
    BY <1>1, <1>5 DEF Fail
  <2>2. Leased(r) /\ calls' \subseteq calls
    BY <1>5 DEF Fail, Owns
  <2>3. x.state \in {"queued", "exhausted"}
    BY <1>0, <1>4, <2>1 DEF Row
  <2>4. ~Rearm(t, j)
    BY <2>2 DEF Rearm, Leased
  <2> QED
    BY <2>2, <2>3, <2>4 DEF Quarantined, Leased
<1>6. ASSUME NEW k \in Tokens, LoseLease(t, j, k)
      PROVE  good /\ grown
  <2>1. x = r /\ calls' \subseteq calls
    BY <1>6 DEF LoseLease
  <2>2. Rearm(t, j) => ~Leased(x)
    BY <2>1 DEF Rearm, Leased
  <2> QED
    BY <2>1, <2>2
<1>7. ASSUME NEW k \in Tokens, Quarantine(t, j, k)
      PROVE  good /\ grown
  <2>1. x = [r EXCEPT !.quarantined = TRUE]
    BY <1>1, <1>7 DEF Quarantine
  <2>2. Leased(r) /\ calls' = calls
    BY <1>7 DEF Quarantine, Owns
  <2>3. x.state = "running"
    BY <1>0, <2>1, <2>2 DEF Row, Leased
  <2>4. ~Rearm(t, j)
    BY <2>2 DEF Rearm, Leased
  <2> QED
    BY <2>2, <2>3, <2>4 DEF Quarantined, Leased
<1>8. ASSUME NEW k \in Tokens, Settle(t, j, k)
      PROVE  good /\ grown
  <2>1. \/ x = [r EXCEPT !.state = "queued", !.quarantined = FALSE,
                   !.token = NULL,
                   !.attempts = IF r.attempts = 0 THEN 0 ELSE r.attempts - 1]
        \/ x = Requeued(r)
        \/ x = [r EXCEPT !.state = "exhausted", !.quarantined = FALSE,
                         !.token = NULL]
    BY <1>1, <1>8 DEF Settle
  <2>2. Quarantined(r) /\ r.token = k /\ <<t, j, k>> \in calls
        /\ calls' = calls \ {<<t, j, k>>}
    BY <1>8 DEF Settle, Holds
  <2>3. x.state \in {"queued", "exhausted"}
    BY <1>0, <1>4, <2>1 DEF Row
  <2>4. ~Rearm(t, j)
    BY <2>2 DEF Rearm, Quarantined
  <2> QED
    BY <2>2, <2>3, <2>4 DEF Quarantined, Leased
<1>9. ASSUME RecoverExpired(t, j)
      PROVE  good /\ grown
  <2>1. x = Requeued(r) /\ calls' = calls /\ Leased(r)
    BY <1>1, <1>9 DEF RecoverExpired
  <2>2. ~Rearm(t, j)
    BY <2>1 DEF Rearm, Leased
  <2> QED
    BY <1>4, <2>1, <2>2 DEF Quarantined, Leased
<1>10. ASSUME Supersede(t, j)
       PROVE  good /\ grown
  <2>1. x = Superseded(r) /\ calls' = calls /\ Active(r) /\ ~Quarantined(r)
    BY <1>1, <1>10 DEF Supersede
  <2>2. x.state = "superseded"
    BY <1>0, <2>1 DEF Superseded, Row
  <2>3. ~Rearm(t, j)
    BY <2>1 DEF Rearm, Active
  <2> QED
    BY <2>1, <2>2, <2>3 DEF Active, Leased
<1>11. ASSUME Rearm(t, j)
       PROVE  good /\ grown
  <2>1. x = [NoRow EXCEPT !.state = "queued"] /\ calls' = calls
        /\ r.state \in {"completed", "exhausted"}
    BY <1>1, <1>11 DEF Rearm
  <2>2. x.state = "queued"
    BY <1>0, <2>1 DEF Row
  <2> QED
    BY <1>11, <2>1, <2>2 DEF Leased, Quarantined
<1>12. good /\ grown
  BY <1>2, <1>3, <1>5, <1>6, <1>7, <1>8, <1>9, <1>10, <1>11
     DEF Worker, Maintenance
<1> QED
  BY <1>12

\* A pass other than a rollback finishes nothing, leases nothing and leaves
\* the rows of detached calls alone.
LEMMA StagedRows ==
    ASSUME SnapshotTypeOK, NEW s \in Scans, Pass(s), ~Rollback(s),
           NEW t \in Tasks, NEW j \in JobGens
    PROVE  /\ Leased(job'[t][j]) => job'[t][j] = job[t][j]
           /\ job'[t][j].state = "completed" <=> job[t][j].state = "completed"
           /\ Quarantined(job[t][j]) => job'[t][j] = job[t][j]
<1> DEFINE r == job[t][j]
           x == job'[t][j]
           good == /\ Leased(x) => x = r
                   /\ x.state = "completed" <=> r.state = "completed"
                   /\ Quarantined(r) => x = r
<1>0. /\ r \in Row /\ NoRow \in Row
      /\ [NoRow EXCEPT !.state = "queued"] \in Row
  BY RowShapes DEF SnapshotTypeOK
<1>1. ASSUME x = r
      PROVE  good
  BY <1>1
<1>2. ASSUME x = Retired(r)
      PROVE  good
  BY <1>0, <1>2, RetiredRow
<1>3. ASSUME r.state = "absent", x = [NoRow EXCEPT !.state = "queued"]
      PROVE  good
  <2>1. x.state = "queued"
    BY <1>0, <1>3 DEF Row
  <2> QED
    BY <1>3, <2>1 DEF Leased, Quarantined
<1>4. CASE ReconcileMembership(s)
  BY <1>1, <1>2, <1>4, MembershipShape
<1>5. ASSUME NEW u \in Tasks, Schedule(s, u)
      PROVE  good
  <2>1. CASE u = t
    BY <1>1, <1>2, <1>3, <1>5, <2>1, ScheduleShape
  <2>2. CASE u # t
    BY <1>1, <1>5, <2>2, ScheduleShape
  <2> QED
    BY <2>1, <2>2
<1>6. CASE \/ Allocate(s) \/ Capture(s) \/ Accept(s) \/ Publish(s)
           \/ FailedRollback(s) \/ Abandon(s) \/ AcceptFailure(s)
           \/ PublishFailure(s)
  <2>1. job' = job
    BY <1>6 DEF Allocate, Capture, Accept, Publish, FailedRollback, Abandon,
                AcceptFailure, PublishFailure
  <2> QED
    BY <1>1, <2>1
<1>7. good
  BY <1>4, <1>5, <1>6 DEF Pass
<1> QED
  BY <1>7

-----------------------------------------------------------------------------
(* The markers and the passes.                                             *)

\* What a pass does to the markers, and that it stages only while its
\* generation is the newest.
LEMMA PassMoves ==
    ASSUME SnapshotTypeOK, NEW s \in Scans, Pass(s)
    PROVE  /\ \A r \in Scans : r # s => scan'[r] = scan[r]
           /\ \/ scan'[s].pc = "idle" /\ allocated' = allocated
              \/ /\ scan[s].pc # "idle" /\ scan'[s].gen = scan[s].gen
                 /\ allocated' = allocated /\ published' = published
              \/ /\ scan'[s].gen = allocated + 1 /\ scan'[s].pc = "scanning"
                 /\ allocated' = allocated + 1 /\ published' = published
           /\ published' # published =>
                 /\ scan[s].pc # "idle" /\ scan'[s].pc = "idle"
                 /\ published' = scan[s].gen
           /\ UNCHANGED <<accepted, member, cursor, job>> \/
                 (scan[s].pc # "idle" /\ scan[s].gen = allocated)
           /\ UNCHANGED calls
<1>0. Scanning /\ scan[s] \in Scan
  BY PassShape
<1>1. CASE Allocate(s)
  <2> DEFINE x == [Idle EXCEPT !.pc = "scanning", !.gen = allocated + 1]
  <2>1. allocated + 1 \in 0 .. MaxGen /\ "scanning" \in Phases
    BY <1>1, SnapshotAssumption DEF Allocate, SnapshotTypeOK, Phases
  <2>2. x \in Scan /\ x.pc = "scanning" /\ x.gen = allocated + 1
    BY <2>1, BareShape
  <2>3. scan' = [scan EXCEPT ![s] = x]
    BY <1>1 DEF Allocate
  <2>4. scan'[s] = x /\ \A r \in Scans : r # s => scan'[r] = scan[r]
    BY <1>0, <2>2, <2>3, ScanShape
  <2> QED
    BY <1>1, <2>2, <2>4 DEF Allocate, authority
<1>2. CASE Capture(s)
  BY <1>2, CaptureShape DEF Capture, markers, authority
<1>3. ASSUME NEW phase \in Phases, Move(s, phase)
      PROVE  /\ scan'[s].pc = phase /\ scan'[s].gen = scan[s].gen
             /\ \A r \in Scans : r # s => scan'[r] = scan[r]
  <2>1. scan'[s] = [scan[s] EXCEPT !.pc = phase]
        /\ \A r \in Scans : r # s => scan'[r] = scan[r]
    BY <1>0, <1>3, MoveShape
  <2> QED
    BY <1>0, <2>1 DEF Scan
<1>4. CASE Accept(s)
  <2>1. "accepted" \in Phases
    BY DEF Phases
  <2> QED
    BY <1>3, <1>4, <2>1 DEF Accept, Acceptable, authority
<1>5. CASE AcceptFailure(s)
  <2>1. "failing" \in Phases
    BY DEF Phases
  <2> QED
    BY <1>3, <1>5, <2>1 DEF AcceptFailure, Acceptable, Current, authority
<1>6. CASE ReconcileMembership(s)
  <2>1. scan[s].pc = "accepted" /\ Current(scan[s].gen)
        /\ UNCHANGED <<markers, calls>>
    BY <1>6 DEF ReconcileMembership
  <2> QED
    BY <1>6, <2>1, MembershipShape DEF Current, markers
<1>7. ASSUME NEW t \in Tasks, Schedule(s, t)
      PROVE  /\ \A r \in Scans : r # s => scan'[r] = scan[r]
             /\ scan[s].pc # "idle" /\ scan'[s].gen = scan[s].gen
             /\ scan[s].gen = allocated
             /\ UNCHANGED <<allocated, accepted, published, calls>>
  <2>1. scan[s].pc = "staging" /\ Current(scan[s].gen)
        /\ UNCHANGED <<markers, calls>>
    BY <1>7 DEF Schedule
  <2> QED
    BY <1>7, <2>1, ScheduleShape DEF Current, markers
<1>8. ASSUME End(s)
      PROVE  scan'[s].pc = "idle" /\ \A r \in Scans : r # s => scan'[r] = scan[r]
  BY <1>0, <1>8, EndShape, IdleShape
<1>9. CASE Publish(s)
  BY <1>8, <1>9 DEF Publish, Current, authority
<1>10. CASE PublishFailure(s)
  BY <1>8, <1>10 DEF PublishFailure, Current, authority
<1>11. CASE Abandon(s)
  BY <1>8, <1>11 DEF Abandon, markers, authority
<1>12. ASSUME AfterFailure(s)
       PROVE  /\ scan'[s].pc = "idle" \/ scan'[s].gen = scan[s].gen
              /\ \A r \in Scans : r # s => scan'[r] = scan[r]
  BY <1>0, <1>12, FailureShape, IdleShape
<1>13. CASE Rollback(s)
  BY <1>12, <1>13 DEF Rollback, Current
<1>14. CASE FailedRollback(s)
  BY <1>12, <1>14 DEF FailedRollback, Current
<1> QED
  BY <1>1, <1>2, <1>4, <1>5, <1>6, <1>7, <1>9, <1>10, <1>11, <1>13, <1>14 DEF Pass

Running(s) == scan[s].pc # "idle"

\* The generations of passes under way are allocated, unpublished, and each
\* its own.
PassInv ==
    /\ published <= allocated
    /\ \A s \in Scans : Running(s) => /\ scan[s].gen <= allocated
                                      /\ scan[s].gen # published
    /\ \A r, s \in Scans :
          Running(r) /\ Running(s) /\ scan[r].gen = scan[s].gen => r = s

LEMMA PassInvInit == Init => PassInv
<1>1. Init => \A s \in Scans : ~Running(s)
  BY IdleShape DEF Init, Running
<1> QED
  BY <1>1 DEF Init, PassInv

\* What a step on one job leaves of the passes.
LEMMA JobPasses ==
    ASSUME SnapshotTypeOK, NEW t \in Tasks, NEW j \in JobGens,
           \/ \E k \in Tokens : Worker(t, j, k)
           \/ Maintenance(t, j)
    PROVE  /\ \A s \in Scans : /\ scan'[s].pc = scan[s].pc
                               /\ scan'[s].gen = scan[s].gen
                               /\ scan'[s].view = scan[s].view
                               /\ scan'[s].plan = scan[s].plan
                               /\ scan[s].rearmed \subseteq scan'[s].rearmed
                               /\ scan'[s].rearmed \subseteq
                                      scan[s].rearmed \cup {<<t, j>>}
                               /\ scan'[s].rearmed # scan[s].rearmed =>
                                      Rearm(t, j)
                               /\ Rearm(t, j) /\ Holding(s) =>
                                      <<t, j>> \in scan'[s].rearmed
           /\ UNCHANGED <<markers, authority>>
<1>1. UNCHANGED scan \/ Rearm(t, j)
  BY JobStep
<1>2. UNCHANGED <<markers, authority>>
  BY JobStep
<1>3. CASE Rearm(t, j)
  <2>1. Scanning
    BY DEF SnapshotTypeOK, Scanning
  <2> QED
    BY <1>2, <1>3, <2>1, RearmShape
<1>4. CASE ~Rearm(t, j)
  BY <1>1, <1>2, <1>4
<1> QED
  BY <1>3, <1>4

LEMMA PassInvStep ==
    SnapshotTypeOK /\ PassInv /\ [Next]_vars => PassInv'
<1> SUFFICES ASSUME SnapshotTypeOK, PassInv, [Next]_vars PROVE PassInv'
  OBVIOUS
<1>0. /\ allocated \in 0 .. MaxGen /\ published \in 0 .. MaxGen
      /\ \A s \in Scans : scan[s].gen \in 0 .. MaxGen
  BY PassShape DEF SnapshotTypeOK, Scan
<1>1. ASSUME NEW s \in Scans, Pass(s)
      PROVE  PassInv'
  <2> DEFINE stay == /\ scan[s].pc # "idle" /\ scan'[s].gen = scan[s].gen
                     /\ allocated' = allocated /\ published' = published
             fresh == /\ scan'[s].gen = allocated + 1
                      /\ allocated' = allocated + 1 /\ published' = published
             ended == scan'[s].pc = "idle" /\ allocated' = allocated
  <2>1. /\ \A r \in Scans : r # s => scan'[r] = scan[r]
        /\ ended \/ stay \/ fresh
        /\ published' # published =>
              scan[s].pc # "idle" /\ published' = scan[s].gen
              /\ scan'[s].pc = "idle"
    BY <1>1, PassMoves
  <2>2. CASE ended
    <3>1. published' <= allocated'
      BY <1>0, <2>1, <2>2 DEF PassInv, Running
    <3>2. ASSUME NEW r \in Scans, Running(r)'
          PROVE  /\ r # s /\ scan'[r] = scan[r] /\ Running(r)
                 /\ scan'[r].gen <= allocated' /\ scan'[r].gen # published'
      <4>1. r # s
        BY <2>2, <3>2 DEF Running
      <4>2. scan'[r] = scan[r] /\ Running(r)
        BY <2>1, <3>2, <4>1 DEF Running
      <4> QED
        BY <2>1, <2>2, <4>1, <4>2 DEF PassInv, Running
    <3> QED
      BY <3>1, <3>2 DEF PassInv
  <2>3. CASE stay
    <3>1. ASSUME NEW r \in Scans, Running(r)'
          PROVE  scan'[r].gen = scan[r].gen /\ Running(r)
      BY <2>1, <2>3, <3>1 DEF Running
    <3> QED
      BY <2>3, <3>1 DEF PassInv
  <2>4. CASE fresh
    <3>1. ASSUME NEW r \in Scans, Running(r)', r # s
          PROVE  scan'[r].gen = scan[r].gen /\ Running(r)
                 /\ scan[r].gen <= allocated
      BY <2>1, <3>1 DEF Running, PassInv
    <3>2. allocated + 1 # published /\ published <= allocated + 1
      BY <1>0 DEF PassInv
    <3>3. ASSUME NEW r \in Scans, Running(r)'
          PROVE  scan'[r].gen <= allocated' /\ scan'[r].gen # published'
      BY <1>0, <2>4, <3>1, <3>2, <3>3 DEF PassInv
    <3>4. ASSUME NEW q \in Scans, NEW r \in Scans, Running(q)', Running(r)',
                 scan'[q].gen = scan'[r].gen
          PROVE  q = r
      <4>1. \A p \in Scans : Running(p)' /\ p # s => scan'[p].gen # allocated + 1
        BY <1>0, <3>1
      <4> QED
        BY <2>4, <3>1, <3>4, <4>1 DEF PassInv
    <3> QED
      BY <2>4, <3>2, <3>3, <3>4 DEF PassInv
  <2> QED
    BY <2>1, <2>2, <2>3, <2>4
<1>2. ASSUME NEW t \in Tasks, NEW j \in JobGens,
             (\E k \in Tokens : Worker(t, j, k)) \/ Maintenance(t, j)
      PROVE  PassInv'
  <2>1. /\ \A s \in Scans : scan'[s].pc = scan[s].pc /\ scan'[s].gen = scan[s].gen
        /\ UNCHANGED markers
    BY <1>2, JobPasses
  <2> QED
    BY <2>1 DEF PassInv, Running, markers
<1>3. CASE UNCHANGED vars
  BY <1>3 DEF vars, PassInv, Running
<1> QED
  BY <1>1, <1>2, <1>3 DEF Next

-----------------------------------------------------------------------------
(* What a captured view is worth.                                          *)

\* The leases of a view were authorised when it was captured.
CapturedInv(s) ==
    \A t \in Tasks : \A j \in JobGens :
        Leased(scan[s].view.job[t][j]) => Permits(scan[s].view.cursor[t], j)

\* While the pass is the newest nobody else moves the authority it captured,
\* and only workers and rearms have touched the rows.
NewestInv(s) ==
    /\ scan[s].pc # "staging" => cursor = scan[s].view.cursor
    /\ scan[s].pc # "captured" => accepted = allocated
    /\ \A t \in Tasks : \A j \in JobGens :
          /\ <<t, j>> \in scan[s].rearmed /\ Leased(job[t][j])
                => Permits(scan[s].view.cursor[t], j)
          /\ scan[s].view.job[t][j].state = "completed"
                => job[t][j].state = "completed" \/ <<t, j>> \in scan[s].rearmed

ViewInv(s) ==
    Holding(s) => /\ CapturedInv(s)
                  /\ scan[s].gen = allocated => NewestInv(s)

IInv == /\ SnapshotTypeOK /\ PassInv /\ RunningIsAuthorised
        /\ \A s \in Scans : ViewInv(s)

LEMMA JobGenNotNull == \A j \in JobGens : j # NULL
BY SnapshotAssumption DEF JobGens

\* Only the newest pass stages, and only one pass is the newest.
LEMMA OtherPass ==
    ASSUME IInv, NEW s \in Scans, Pass(s), NEW q \in Scans, q # s
    PROVE  ViewInv(q)'
<1> SUFFICES ASSUME Holding(q)'
             PROVE  CapturedInv(q)' /\ (scan'[q].gen = allocated' => NewestInv(q)')
  BY DEF ViewInv
<1>1. /\ scan'[q] = scan[q]
      /\ allocated' = allocated \/ allocated' = allocated + 1
      /\ UNCHANGED <<accepted, cursor, job>> \/
            (scan[s].pc # "idle" /\ scan[s].gen = allocated)
  BY PassMoves DEF IInv
<1>2. Holding(q) /\ Running(q) /\ CapturedInv(q)
  BY <1>1 DEF Holding, Running, IInv, ViewInv
<1>3. CapturedInv(q)'
  BY <1>1, <1>2 DEF CapturedInv
<1>4. ASSUME scan'[q].gen = allocated'
      PROVE  NewestInv(q)'
  <2>1. scan[q].gen <= allocated /\ scan[q].gen \in 0 .. MaxGen
        /\ allocated \in 0 .. MaxGen
    BY <1>2, PassShape DEF IInv, PassInv, SnapshotTypeOK, Scan
  <2>2. allocated' = allocated /\ scan[q].gen = allocated
    BY <1>1, <1>4, <2>1
  <2>3. UNCHANGED <<accepted, cursor, job>>
    BY <1>1, <1>2, <2>2 DEF IInv, PassInv, Running
  <2>4. NewestInv(q)
    BY <1>2, <2>2 DEF IInv, ViewInv
  <2> QED
    BY <1>1, <2>2, <2>3, <2>4 DEF NewestInv
<1> QED
  BY <1>3, <1>4

\* A pass keeps what it knows of its own view.
LEMMA OwnPass ==
    ASSUME IInv, NEW s \in Scans, Pass(s)
    PROVE  ViewInv(s)'
<1>0. /\ Scanning /\ scan[s] \in Scan /\ SnapshotTypeOK /\ ViewInv(s)
      /\ RunningIsAuthorised
  BY PassShape DEF IInv
<1>1. CASE Capture(s)
  <2> DEFINE v == [member |-> member, cursor |-> cursor, job |-> job]
  <2>1. /\ scan'[s].pc = "captured" /\ scan'[s].view = v
        /\ scan'[s].rearmed = {}
    BY <1>0, <1>1, CaptureShape
  <2>2. cursor' = cursor /\ job' = job
    BY <1>1 DEF Capture, authority
  <2>3. scan'[s].view.cursor = cursor /\ scan'[s].view.job = job
    BY <2>1
  <2>4. CapturedInv(s)'
    BY <1>0, <2>3 DEF CapturedInv, RunningIsAuthorised
  <2>5. NewestInv(s)'
    BY <2>1, <2>2, <2>3 DEF NewestInv
  <2> QED
    BY <2>4, <2>5 DEF ViewInv
<1>2. CASE Accept(s)
  <2>1. "accepted" \in Phases
    BY DEF Phases
  <2>2. scan'[s] = [scan[s] EXCEPT !.pc = "accepted"]
    BY <1>0, <1>2, <2>1, MoveShape DEF Accept
  <2>3. /\ scan'[s].pc = "accepted" /\ scan'[s].gen = scan[s].gen
        /\ scan'[s].view = scan[s].view /\ scan'[s].rearmed = scan[s].rearmed
    BY <1>0, <2>2 DEF Scan
  <2>4. /\ scan[s].pc = "captured" /\ scan[s].gen = allocated
        /\ accepted' = allocated /\ allocated' = allocated
        /\ cursor' = cursor /\ job' = job
    BY <1>2 DEF Accept, Acceptable, authority
  <2>5. CapturedInv(s) /\ NewestInv(s)
    BY <1>0, <2>4 DEF ViewInv, Holding
  <2>6. CapturedInv(s)'
    BY <2>3, <2>5 DEF CapturedInv
  <2>7. NewestInv(s)'
    BY <2>3, <2>4, <2>5 DEF NewestInv
  <2> QED
    BY <2>6, <2>7 DEF ViewInv
<1>3. ASSUME scan'[s].pc = "staging", scan[s].pc \in {"accepted", "staging"},
             Current(scan[s].gen), UNCHANGED markers,
             scan'[s].gen = scan[s].gen, scan'[s].view = scan[s].view,
             scan'[s].rearmed = scan[s].rearmed, ~Rollback(s)
      PROVE  ViewInv(s)'
  <2>1. CapturedInv(s) /\ NewestInv(s)
    BY <1>0, <1>3 DEF ViewInv, Holding, Current
  <2>2. CapturedInv(s)'
    BY <1>3, <2>1 DEF CapturedInv
  <2>3. \A t \in Tasks : \A j \in JobGens :
            /\ Leased(job'[t][j]) => Leased(job[t][j])
            /\ job'[t][j].state = "completed" <=> job[t][j].state = "completed"
    BY <1>0, <1>3, StagedRows
  <2>4. accepted' = allocated'
    BY <1>3 DEF Current, markers
  <2>5. NewestInv(s)'
    BY <1>3, <2>1, <2>3, <2>4 DEF NewestInv
  <2> QED
    BY <2>2, <2>5 DEF ViewInv
<1>4. CASE Rollback(s)
  <2>1. scan'[s].pc \in {"idle", "failed"}
    BY <1>0, <1>4, FailureShape, IdleShape DEF Rollback
  <2> QED
    BY <2>1 DEF ViewInv, Holding
<1>5. CASE ReconcileMembership(s) /\ ~Rollback(s)
  <2>1. scan[s].pc = "accepted" /\ Current(scan[s].gen) /\ UNCHANGED markers
    BY <1>5 DEF ReconcileMembership
  <2> QED
    BY <1>0, <1>3, <1>5, <2>1, MembershipShape
<1>6. ASSUME NEW t \in Tasks, Schedule(s, t), ~Rollback(s)
      PROVE  ViewInv(s)'
  <2>1. scan[s].pc = "staging" /\ Current(scan[s].gen) /\ UNCHANGED markers
    BY <1>6 DEF Schedule
  <2> QED
    BY <1>0, <1>3, <1>6, <2>1, ScheduleShape
<1>7. CASE Publish(s) \/ Abandon(s) \/ PublishFailure(s)
  <2>1. scan'[s].pc = "idle"
    BY <1>0, <1>7, EndShape, IdleShape DEF Publish, Abandon, PublishFailure
  <2> QED
    BY <2>1 DEF ViewInv, Holding
<1>8. CASE FailedRollback(s)
  <2>1. scan'[s].pc \in {"idle", "failed"}
    BY <1>0, <1>8, FailureShape, IdleShape DEF FailedRollback
  <2> QED
    BY <2>1 DEF ViewInv, Holding
<1>9. CASE AcceptFailure(s)
  <2>1. "failing" \in Phases
    BY DEF Phases
  <2>2. scan'[s] = [scan[s] EXCEPT !.pc = "failing"]
    BY <1>0, <1>9, <2>1, MoveShape DEF AcceptFailure
  <2>3. scan'[s].pc = "failing"
    BY <1>0, <2>2 DEF Scan
  <2> QED
    BY <2>3 DEF ViewInv, Holding
<1>10. CASE Allocate(s)
  <2>1. scan[s].pc = "idle"
    BY <1>10 DEF Allocate
  <2>2. allocated' = allocated + 1
    BY <1>10 DEF Allocate
  <2>3. \/ scan'[s].pc = "idle" /\ allocated' = allocated
        \/ scan'[s].pc = "scanning"
    BY <1>0, <2>1, PassMoves
  <2>4. scan'[s].pc \in {"idle", "scanning"}
    BY <2>3
  <2> QED
    BY <2>4 DEF ViewInv, Holding
<1> QED
  BY <1>1, <1>2, <1>4, <1>5, <1>6, <1>7, <1>8, <1>9, <1>10 DEF Pass

\* A step on one job keeps what every pass knows of its view.
LEMMA JobViews ==
    ASSUME IInv, NEW t \in Tasks, NEW j \in JobGens,
           (\E k \in Tokens : Worker(t, j, k)) \/ Maintenance(t, j),
           NEW s \in Scans
    PROVE  ViewInv(s)'
<1> SUFFICES ASSUME Holding(s)'
             PROVE  CapturedInv(s)' /\ (scan'[s].gen = allocated' => NewestInv(s)')
  BY DEF ViewInv
<1>0. SnapshotTypeOK /\ PassInv /\ ViewInv(s)
  BY DEF IInv
<1>1. /\ scan'[s].pc = scan[s].pc /\ scan'[s].gen = scan[s].gen
      /\ scan'[s].view = scan[s].view
      /\ scan[s].rearmed \subseteq scan'[s].rearmed
      /\ scan'[s].rearmed \subseteq scan[s].rearmed \cup {<<t, j>>}
      /\ scan'[s].rearmed # scan[s].rearmed => Rearm(t, j)
      /\ Rearm(t, j) /\ Holding(s) => <<t, j>> \in scan'[s].rearmed
      /\ UNCHANGED <<allocated, accepted, published, cursor>>
  BY <1>0, JobPasses DEF markers, authority
<1>2. Holding(s) /\ CapturedInv(s) /\ CapturedInv(s)'
  BY <1>0, <1>1 DEF ViewInv, Holding, CapturedInv
<1>3. ASSUME scan'[s].gen = allocated'
      PROVE  NewestInv(s)'
  <2>1. NewestInv(s) /\ scan[s].gen = allocated
    BY <1>0, <1>1, <1>2, <1>3 DEF ViewInv
  <2>2. /\ scan'[s].pc # "staging" => cursor' = scan'[s].view.cursor
        /\ scan'[s].pc # "captured" => accepted' = allocated'
    BY <1>1, <2>1 DEF NewestInv
  <2>3. accepted = published => cursor = scan[s].view.cursor
    <3>1. scan[s].gen # published
      BY <1>0, <1>2 DEF PassInv, Running, Holding
    <3>2. accepted = published => scan[s].pc = "captured"
      BY <2>1, <3>1 DEF NewestInv
    <3> QED
      BY <2>1, <3>2 DEF NewestInv
  <2>4. ASSUME NEW u \in Tasks, NEW i \in JobGens
        PROVE  /\ <<u, i>> \in scan'[s].rearmed /\ Leased(job'[u][i])
                      => Permits(scan'[s].view.cursor[u], i)
               /\ scan'[s].view.job[u][i].state = "completed"
                      => \/ job'[u][i].state = "completed"
                         \/ <<u, i>> \in scan'[s].rearmed
    <3>1. CASE <<u, i>> # <<t, j>>
      <4>1. job'[u][i] = job[u][i]
        BY <1>0, <3>1, JobStep
      <4>2. <<u, i>> \in scan'[s].rearmed <=> <<u, i>> \in scan[s].rearmed
        BY <1>1, <3>1
      <4> QED
        BY <1>1, <2>1, <4>1, <4>2 DEF NewestInv
    <3>2. CASE <<u, i>> = <<t, j>>
      <4>0. u = t /\ i = j
        BY <3>2
      <4>1. /\ Leased(job'[t][j]) => \/ Leased(job[t][j])
                                     \/ cursor[t].generation = j
                                        /\ accepted = published
            /\ job[t][j].state = "completed" /\ job'[t][j].state # "completed"
                  => Rearm(t, j)
            /\ Rearm(t, j) => ~Leased(job'[t][j])
        BY <1>0, RowMoves
      <4>2. ASSUME <<t, j>> \in scan'[s].rearmed, Leased(job'[t][j])
            PROVE  Permits(scan'[s].view.cursor[t], j)
        <5>1. <<t, j>> \in scan[s].rearmed
          BY <1>1, <4>1, <4>2
        <5>2. CASE Leased(job[t][j])
          BY <1>1, <2>1, <5>1, <5>2 DEF NewestInv
        <5>3. CASE cursor[t].generation = j /\ accepted = published
          BY <1>1, <2>3, <5>3, JobGenNotNull DEF Permits
        <5> QED
          BY <4>1, <4>2, <5>2, <5>3
      <4>3. ASSUME scan'[s].view.job[t][j].state = "completed"
            PROVE  job'[t][j].state = "completed" \/ <<t, j>> \in scan'[s].rearmed
        <5>1. job[t][j].state = "completed" \/ <<t, j>> \in scan[s].rearmed
          BY <1>1, <2>1, <4>3 DEF NewestInv
        <5> QED
          BY <1>1, <1>2, <4>1, <5>1
      <4> QED
        BY <4>0, <4>2, <4>3
    <3> QED
      BY <3>1, <3>2
  <2> QED
    BY <2>2, <2>4 DEF NewestInv
<1> QED
  BY <1>2, <1>3

-----------------------------------------------------------------------------
(* No lease without authority.                                             *)

LEMMA AuthorityPass ==
    ASSUME IInv, NEW s \in Scans, Pass(s)
    PROVE  RunningIsAuthorised'
<1>0. SnapshotTypeOK /\ RunningIsAuthorised /\ ViewInv(s)
  BY DEF IInv
<1> SUFFICES ASSUME NEW t \in Tasks, NEW j \in JobGens, Leased(job'[t][j])
             PROVE  Permits(cursor'[t], j)
  BY DEF RunningIsAuthorised
<1>1. CASE Rollback(s)
  <2>1. /\ Holding(s) /\ scan[s].gen = allocated
        /\ cursor' = scan[s].view.cursor /\ job'[t][j] = Restored(s, t, j)
    BY <1>0, <1>1, RollbackShape DEF Rollback, Current, Holding
  <2>2. CapturedInv(s) /\ NewestInv(s)
    BY <1>0, <2>1 DEF ViewInv
  <2>3. CASE <<t, j>> \in scan[s].rearmed
    <3>1. job'[t][j] = job[t][j]
      BY <2>1, <2>3 DEF Restored
    <3> QED
      BY <2>1, <2>2, <2>3, <3>1 DEF NewestInv
  <2>4. CASE Quarantined(job[t][j])
    BY <2>1, <2>4 DEF Restored, Quarantined, Leased
  <2>5. CASE /\ <<t, j>> \notin scan[s].rearmed /\ ~Quarantined(job[t][j])
             /\ scan[s].view.job[t][j].state # "absent"
    <3>1. job'[t][j] = scan[s].view.job[t][j]
      BY <2>1, <2>5 DEF Restored
    <3> QED
      BY <2>1, <2>2, <3>1 DEF CapturedInv
  <2>6. CASE /\ <<t, j>> \notin scan[s].rearmed /\ ~Quarantined(job[t][j])
             /\ scan[s].view.job[t][j].state = "absent"
    <3>1. job[t][j] \in Row
      BY <1>0 DEF SnapshotTypeOK
    <3>2. ~Leased(job'[t][j])
      BY <2>1, <2>6, <3>1
         DEF Restored, Active, Superseded, Leased, Row, JobStates
    <3> QED
      BY <3>2
  <2> QED
    BY <2>3, <2>4, <2>5, <2>6
<1>2. CASE ~Rollback(s)
  <2>1. job'[t][j] = job[t][j] /\ Leased(job[t][j])
    BY <1>0, <1>2, StagedRows
  <2>2. Permits(cursor[t], j)
    BY <1>0, <2>1 DEF RunningIsAuthorised
  <2>3. CASE ReconcileMembership(s)
    <3>1. \/ cursor'[t] = cursor[t]
          \/ job'[t][j] = Retired(job[t][j])
      BY <1>0, <2>3, MembershipShape
    <3>2. job[t][j] \in Row
      BY <1>0 DEF SnapshotTypeOK
    <3>3. cursor'[t] = cursor[t]
      BY <3>1, <3>2, RetiredRow
    <3> QED
      BY <2>2, <3>3
  <2>4. ASSUME NEW u \in Tasks, Schedule(s, u)
        PROVE  Permits(cursor'[t], j)
    <3>1. CASE u # t
      <4>1. cursor'[t] = cursor[t]
        BY <1>0, <2>4, <3>1, ScheduleShape
      <4> QED
        BY <2>2, <4>1
    <3>2. CASE u = t
      <4>1. /\ cursor'[t].generation \in JobGens
            /\ \/ /\ job'[t][j] = job[t][j]
                  /\ \/ cursor'[t].generation = j
                     \/ cursor'[t].materialized =>
                           /\ cursor'[t].generation = cursor[t].generation
                           /\ cursor[t].materialized
               \/ job'[t][j] = Retired(job[t][j])
               \/ /\ job[t][j].state = "absent"
                  /\ job'[t][j] = [NoRow EXCEPT !.state = "queued"]
        BY <1>0, <2>4, <3>2, ScheduleShape
      <4>2. job[t][j] \in Row
        BY <1>0 DEF SnapshotTypeOK
      <4>3. job'[t][j] # Retired(job[t][j]) /\ job[t][j].state # "absent"
        BY <2>1, <4>2, RetiredRow DEF Leased
      <4> QED
        BY <2>2, <4>1, <4>3, JobGenNotNull DEF Permits
    <3> QED
      BY <3>1, <3>2
  <2>5. CASE \/ Allocate(s) \/ Capture(s) \/ Accept(s) \/ Publish(s)
             \/ FailedRollback(s) \/ Abandon(s) \/ AcceptFailure(s)
             \/ PublishFailure(s)
    <3>1. cursor' = cursor
      BY <2>5 DEF Allocate, Capture, Accept, Publish, FailedRollback, Abandon,
                  AcceptFailure, PublishFailure, authority
    <3> QED
      BY <2>2, <3>1
  <2> QED
    BY <1>2, <2>3, <2>4, <2>5 DEF Pass
<1> QED
  BY <1>1, <1>2

LEMMA AuthorityJob ==
    ASSUME IInv, NEW t \in Tasks, NEW j \in JobGens,
           (\E k \in Tokens : Worker(t, j, k)) \/ Maintenance(t, j)
    PROVE  RunningIsAuthorised'
<1>0. SnapshotTypeOK /\ RunningIsAuthorised
  BY DEF IInv
<1> SUFFICES ASSUME NEW u \in Tasks, NEW i \in JobGens, Leased(job'[u][i])
             PROVE  Permits(cursor'[u], i)
  BY DEF RunningIsAuthorised
<1>1. cursor' = cursor
  BY <1>0, JobStep DEF authority
<1>2. CASE Leased(job[u][i])
  BY <1>0, <1>1, <1>2 DEF RunningIsAuthorised
<1>3. CASE ~Leased(job[u][i])
  <2>1. u = t /\ i = j
    BY <1>0, <1>3, JobStep
  <2>2. cursor[t].generation = j
    BY <1>0, <1>3, <2>1, RowMoves
  <2> QED
    BY <1>1, <2>1, <2>2, JobGenNotNull DEF Permits
<1> QED
  BY <1>2, <1>3

\* The strengthening is inductive.
LEMMA SnapshotInductive ==
    /\ Init => IInv
    /\ IInv /\ [Next]_vars => IInv'
<1>1. ASSUME Init
      PROVE  IInv
  <2>1. \A t \in Tasks : \A j \in JobGens : ~Leased(job[t][j])
    BY <1>1 DEF Init, NoRow, Leased
  <2>2. \A s \in Scans : ~Holding(s)
    BY <1>1, IdleShape DEF Init, Holding
  <2> QED
    BY <1>1, <2>1, <2>2, TypeInit, PassInvInit
       DEF IInv, RunningIsAuthorised, ViewInv
<1>2. ASSUME IInv, [Next]_vars
      PROVE  IInv'
  <2>1. SnapshotTypeOK' /\ PassInv'
    BY <1>2, TypeStep, PassInvStep DEF IInv
  <2>2. ASSUME NEW s \in Scans, Pass(s)
        PROVE  RunningIsAuthorised' /\ \A q \in Scans : ViewInv(q)'
    BY <1>2, <2>2, AuthorityPass, OwnPass, OtherPass
  <2>3. ASSUME NEW t \in Tasks, NEW j \in JobGens,
               (\E k \in Tokens : Worker(t, j, k)) \/ Maintenance(t, j)
        PROVE  RunningIsAuthorised' /\ \A q \in Scans : ViewInv(q)'
    BY <1>2, <2>3, AuthorityJob, JobViews
  <2>4. ASSUME UNCHANGED vars
        PROVE  RunningIsAuthorised' /\ \A q \in Scans : ViewInv(q)'
    <3>1. RunningIsAuthorised'
      BY <1>2, <2>4 DEF vars, IInv, RunningIsAuthorised
    <3>2. ASSUME NEW q \in Scans
          PROVE  ViewInv(q)'
      <4>1. ViewInv(q)
        BY <1>2 DEF IInv
      <4>2. UNCHANGED <<allocated, accepted, cursor, job, scan>>
        BY <2>4 DEF vars
      <4> QED
        BY <4>1, <4>2 DEF ViewInv, CapturedInv, NewestInv, Holding
    <3> QED
      BY <3>1, <3>2
  <2>5. RunningIsAuthorised' /\ \A q \in Scans : ViewInv(q)'
    BY <1>2, <2>2, <2>3, <2>4 DEF Next
  <2> QED
    BY <2>1, <2>5 DEF IInv
<1> QED
  BY <1>1, <1>2

\* A live lease always belongs to the job generation its task's cursor
\* permits, whatever passes stage, abandon or put back.
THEOREM AuthorityCorrect == Spec => []RunningIsAuthorised
<1>1. IInv => RunningIsAuthorised
  BY DEF IInv
<1> QED
  BY <1>1, SnapshotInductive, PTL DEF Spec

\* The row of a detached call leaves quarantine only when that call settles.
THEOREM QuarantineCorrect == Spec => QuarantineHeld
<1> DEFINE Kept == \A t \in Tasks : \A j \in JobGens :
                      Quarantined(job[t][j]) /\ job'[t][j] # job[t][j]
                          => <<t, j, job[t][j].token>> \in calls \ calls'
<1>1. SnapshotTypeOK /\ [Next]_vars => [Kept]_vars
  <2> SUFFICES ASSUME SnapshotTypeOK, Next, NEW t \in Tasks, NEW j \in JobGens,
                      Quarantined(job[t][j]), job'[t][j] # job[t][j]
               PROVE  <<t, j, job[t][j].token>> \in calls \ calls'
    OBVIOUS
  <2>1. ASSUME NEW s \in Scans, Pass(s)
        PROVE  FALSE
    <3>1. CASE Rollback(s)
      BY <3>1, RollbackShape DEF Restored
    <3>2. CASE ~Rollback(s)
      BY <2>1, <3>2, StagedRows
    <3> QED
      BY <3>1, <3>2
  <2>2. ASSUME NEW u \in Tasks, NEW i \in JobGens,
               (\E k \in Tokens : Worker(u, i, k)) \/ Maintenance(u, i)
        PROVE  <<t, j, job[t][j].token>> \in calls \ calls'
    <3>1. u = t /\ i = j
      BY <2>2, JobStep
    <3> QED
      BY <2>2, <3>1, RowMoves
  <2> QED
    BY <2>1, <2>2 DEF Next
<1> QED
  BY <1>1, SnapshotTypeCorrect, PTL DEF Spec, QuarantineHeld

\* Only the invocation that held the lease completes a job: no rollback puts
\* a completed row over one that was rearmed or never ran.
THEOREM CompletionCorrect == Spec => OnlyWorkersFinish
<1> DEFINE Earned == \A t \in Tasks : \A j \in JobGens :
                        job[t][j].state # "completed"
                        /\ job'[t][j].state = "completed"
                            => <<t, j, job[t][j].token>> \in calls \ calls'
<1>1. IInv /\ [Next]_vars => [Earned]_vars
  <2> SUFFICES ASSUME IInv, Next, NEW t \in Tasks, NEW j \in JobGens,
                      job[t][j].state # "completed",
                      job'[t][j].state = "completed"
               PROVE  <<t, j, job[t][j].token>> \in calls \ calls'
    OBVIOUS
  <2>0. SnapshotTypeOK
    BY DEF IInv
  <2>1. ASSUME NEW s \in Scans, Pass(s)
        PROVE  FALSE
    <3>1. CASE Rollback(s)
      <4>1. Holding(s) /\ scan[s].gen = allocated
            /\ job'[t][j] = Restored(s, t, j)
        BY <2>0, <3>1, RollbackShape DEF Rollback, Current, Holding
      <4>2. NewestInv(s)
        BY <4>1 DEF IInv, ViewInv
      <4>3. job[t][j] \in Row
        BY <2>0 DEF SnapshotTypeOK
      <4>4. Superseded(job[t][j]).state = "superseded"
        BY <4>3 DEF Superseded, Row
      <4>5. /\ scan[s].view.job[t][j].state = "completed"
            /\ <<t, j>> \notin scan[s].rearmed
        BY <4>1, <4>4 DEF Restored
      <4> QED
        BY <4>2, <4>5 DEF NewestInv
    <3>2. CASE ~Rollback(s)
      BY <2>0, <2>1, <3>2, StagedRows
    <3> QED
      BY <3>1, <3>2
  <2>2. ASSUME NEW u \in Tasks, NEW i \in JobGens,
               (\E k \in Tokens : Worker(u, i, k)) \/ Maintenance(u, i)
        PROVE  <<t, j, job[t][j].token>> \in calls \ calls'
    <3>1. u = t /\ i = j
      BY <2>0, <2>2, JobStep
    <3> QED
      BY <2>0, <2>2, <3>1, RowMoves
  <2> QED
    BY <2>1, <2>2 DEF Next
<1> QED
  BY <1>1, SnapshotInductive, PTL DEF Spec, OnlyWorkersFinish

-----------------------------------------------------------------------------
(* What a cursor names.                                                    *)

\* A captured view names what exists, and no row of it has vanished since.
BackedView(s) ==
    LET v == scan[s].view
    IN  \A t \in Tasks :
          /\ v.member[t] <= allocated
          /\ Names(v.cursor[t], v.member[t], v.job[t])
          /\ \A j \in JobGens :
                v.job[t][j].state # "absent" => job[t][j].state # "absent"

\* What the newest pass has still to schedule belongs to its own membership.
PlannedInv(s) ==
    scan[s].pc = "staging" /\ scan[s].gen = allocated =>
        \A t \in DOMAIN scan[s].plan : member[t] = scan[s].gen

BackInv == /\ CursorBacked
           /\ \A t \in Tasks : member[t] <= allocated
           /\ \A s \in Scans : PlannedInv(s) /\ (Holding(s) => BackedView(s))

\* Nothing deletes a row: what a cursor named it still names.
LEMMA NamesKept ==
    ASSUME NEW c \in Cursor, NEW m, NEW rows, NEW later, Names(c, m, rows),
           \A j \in JobGens : rows[j].state # "absent" => later[j].state # "absent"
    PROVE  Names(c, m, later)
BY DEF Names, Cursor

\* Retirement empties no row.
LEMMA RetiredStays ==
    ASSUME NEW r \in Row, r.state # "absent"
    PROVE  Retired(r).state # "absent"
BY DEF Retired, Superseded, Row

\* A worker's step and maintenance empty no row.
LEMMA JobRowStays ==
    ASSUME SnapshotTypeOK, NEW t \in Tasks, NEW j \in JobGens,
           (\E k \in Tokens : Worker(t, j, k)) \/ Maintenance(t, j),
           NEW u \in Tasks, NEW i \in JobGens, job[u][i].state # "absent"
    PROVE  job'[u][i].state # "absent"
<1> DEFINE r == job[t][j]
<1>1. job[t] \in [JobGens -> Row] /\ r \in Row /\ job \in [Tasks -> [JobGens -> Row]]
  BY DEF SnapshotTypeOK
<1>2. CASE <<u, i>> # <<t, j>>
  BY <1>2, JobStep
<1>3. CASE u = t /\ i = j
  <2>1. ASSUME NEW y, SetJob(t, j, y), y.state # "absent"
        PROVE  job'[t][j].state # "absent"
    BY <1>1, <2>1 DEF SetJob
  <2>2. [NoRow EXCEPT !.state = "queued"].state = "queued"
    BY DEF NoRow
  <2>3. /\ Requeued(r).state # "absent" /\ Superseded(r).state # "absent"
        /\ [r EXCEPT !.quarantined = TRUE].state = r.state
        /\ \A x \in {"completed", "exhausted"} :
              /\ [r EXCEPT !.state = x, !.token = NULL].state = x
              /\ [r EXCEPT !.state = x, !.quarantined = FALSE, !.token = NULL].state = x
    BY <1>1 DEF Requeued, Superseded, Row
  <2>4. ASSUME NEW k \in Tokens, Claim(t, j, k) PROVE job'[t][j].state # "absent"
    BY <2>1, <2>4 DEF Claim
  <2>5. ASSUME NEW k \in Tokens, Complete(t, j, k) \/ Fail(t, j, k)
        PROVE  job'[t][j].state # "absent"
    BY <2>1, <2>3, <2>5 DEF Complete, Fail
  <2>6. ASSUME NEW k \in Tokens, LoseLease(t, j, k) \/ Quarantine(t, j, k)
        PROVE  job'[t][j].state # "absent"
    BY <1>3, <2>1, <2>3, <2>6 DEF LoseLease, Quarantine
  <2>7. ASSUME NEW k \in Tokens, Settle(t, j, k) PROVE job'[t][j].state # "absent"
    <3> DEFINE x == [r EXCEPT !.state = "queued", !.quarantined = FALSE, !.token = NULL,
                       !.attempts = IF r.attempts = 0 THEN 0 ELSE r.attempts - 1]
               y == [r EXCEPT !.state = "exhausted", !.quarantined = FALSE, !.token = NULL]
    <3>1. x.state = "queued" /\ y.state = "exhausted"
      BY <1>1 DEF Row
    <3>2. SetJob(t, j, x) \/ SetJob(t, j, Requeued(r)) \/ SetJob(t, j, y)
      BY <2>7 DEF Settle
    <3> HIDE DEF x, y
    <3> QED
      BY <2>1, <2>3, <3>1, <3>2
  <2>8. CASE Maintenance(t, j)
    <3> DEFINE x == [NoRow EXCEPT !.state = "queued"]
    <3>1. x.state = "queued"
      BY <2>2
    <3>2. SetJob(t, j, x) \/ SetJob(t, j, Requeued(r)) \/ SetJob(t, j, Superseded(r))
      BY <2>8 DEF Maintenance, RecoverExpired, Supersede, Rearm
    <3> HIDE DEF x
    <3> QED
      BY <1>3, <2>1, <2>3, <3>1, <3>2
  <2> QED
    BY <1>3, <2>4, <2>5, <2>6, <2>7, <2>8 DEF Worker
<1> QED
  BY <1>2, <1>3

\* Neither does a pass, whatever it puts back.
LEMMA PassRowStays ==
    ASSUME SnapshotTypeOK, NEW s \in Scans, Pass(s), Holding(s) => BackedView(s),
           NEW t \in Tasks, NEW j \in JobGens, job[t][j].state # "absent"
    PROVE  job'[t][j].state # "absent"
<1>1. job[t][j] \in Row
  BY DEF SnapshotTypeOK
<1>2. CASE ReconcileMembership(s)
  BY <1>1, <1>2, MembershipShape, RetiredStays
<1>3. ASSUME NEW u \in Tasks, Schedule(s, u)
      PROVE  job'[t][j].state # "absent"
  <2>1. CASE u # t
    BY <1>3, <2>1, ScheduleShape
  <2>2. CASE u = t
    BY <1>1, <1>3, <2>2, ScheduleShape, RetiredStays
  <2> QED
    BY <2>1, <2>2
<1>4. CASE Rollback(s)
  <2>1. job'[t][j] = Restored(s, t, j)
    BY <1>4, RollbackShape
  <2>2. Superseded(job[t][j]).state = "superseded"
    BY <1>1 DEF Superseded, Row
  <2> QED
    BY <2>1, <2>2 DEF Restored
<1>5. CASE \/ Allocate(s) \/ Capture(s) \/ Accept(s) \/ Publish(s)
           \/ FailedRollback(s) \/ Abandon(s) \/ AcceptFailure(s)
           \/ PublishFailure(s)
  BY <1>5 DEF Allocate, Capture, Accept, Publish, FailedRollback, Abandon,
              AcceptFailure, PublishFailure
<1> QED
  BY <1>2, <1>3, <1>4, <1>5 DEF Pass

\* Scheduling names the row it materialises, or one named before.
LEMMA ScheduleNames ==
    ASSUME SnapshotTypeOK, NEW s \in Scans, NEW t \in Tasks, Schedule(s, t),
           Names(cursor[t], member[t], job[t]), member[t] = scan[s].gen
    PROVE  Names(cursor'[t], member[t], job'[t])
<1> DEFINE g == scan[s].gen
           d == scan[s].plan[t]
<1>1. PICK due \in BOOLEAN, selected \in BOOLEAN :
        /\ cursor' = [cursor EXCEPT ![t] =
             [snapshot |-> g, generation |-> Activated(t, d, g, due),
              materialized |-> selected \/
                  (cursor[t].generation = Activated(t, d, g, due)
                   /\ cursor[t].materialized)]]
        /\ job' = IF selected
                  THEN [job EXCEPT ![t] =
                           Scheduled(t, d, Activated(t, d, g, due))]
                  ELSE job
  BY DEF Schedule
<1> DEFINE j == Activated(t, d, g, due)
<1>2. cursor[t] \in Cursor /\ cursor \in [Tasks -> Cursor]
      /\ job \in [Tasks -> [JobGens -> Row]] /\ g \in 0 .. MaxGen
  BY PassShape DEF SnapshotTypeOK, Scan
<1>3. j \in JobGens
  <2>1. cursor'[t].generation \in JobGens
    BY ScheduleShape
  <2> QED
    BY <1>1, <1>2, <2>1
<1>4. \/ j = <<d, g>>
      \/ j = cursor[t].generation /\ j # NULL /\ j[1] = d
  BY DEF Activated, Rotates
<1>5. j[1] = d /\ j[2] <= g
  <2>1. CASE j = <<d, g>>
    BY <1>2, <2>1
  <2>2. CASE j = cursor[t].generation /\ j # NULL /\ j[1] = d
    <3>1. j[2] <= cursor[t].snapshot /\ cursor[t].snapshot <= g
      BY <2>2 DEF Names
    <3>2. j[2] \in Nat /\ cursor[t].snapshot \in Nat
      BY <1>2, <1>3 DEF JobGens, Cursor
    <3> QED
      BY <1>2, <2>2, <3>1, <3>2
  <2> QED
    BY <1>4, <2>1, <2>2
<1> HIDE DEF j
<1>6. /\ cursor'[t].snapshot = g /\ cursor'[t].generation = j
      /\ cursor'[t].materialized = (selected \/
             (cursor[t].generation = j /\ cursor[t].materialized))
  BY <1>1, <1>2 DEF j
<1>7. ASSUME cursor'[t].materialized, d \in Acting
      PROVE  job'[t][j].state # "absent"
  <2>1. CASE selected
    <3>1. job'[t][j] = Scheduled(t, d, j)[j]
      BY <1>1, <1>2, <2>1 DEF j
    <3>2. [NoRow EXCEPT !.state = "queued"].state = "queued"
      BY DEF NoRow
    <3> QED
      BY <1>3, <1>7, <3>1, <3>2 DEF Scheduled
  <2>2. CASE ~selected
    <3>1. job' = job /\ cursor[t].generation = j /\ cursor[t].materialized
      BY <1>1, <1>6, <1>7, <2>2
    <3>2. j # NULL
      BY <1>3, JobGenNotNull
    <3> QED
      BY <1>5, <1>7, <3>1, <3>2 DEF Names
  <2> QED
    BY <2>1, <2>2
<1> QED
  BY <1>2, <1>5, <1>6, <1>7 DEF Names

\* A view goes on naming what exists.
LEMMA ViewKept ==
    ASSUME SnapshotTypeOK, NEW s \in Scans, Holding(s), BackedView(s),
           scan'[s].view = scan[s].view,
           allocated' \in Nat, allocated <= allocated',
           \A t \in Tasks : \A j \in JobGens :
               job[t][j].state # "absent" => job'[t][j].state # "absent"
    PROVE  BackedView(s)'
<1>1. scan[s].view.member \in [Tasks -> 0 .. MaxGen] /\ allocated \in Nat
  BY PassShape, SnapshotAssumption DEF SnapshotTypeOK, View
<1>2. ASSUME NEW t \in Tasks
      PROVE  scan[s].view.member[t] <= allocated'
  BY <1>1 DEF BackedView
<1> QED
  BY <1>2 DEF BackedView

\* The tables after a step of a pass: what cursors name.
LEMMA PassBacks ==
    ASSUME SnapshotTypeOK, PassInv, BackInv, NEW s \in Scans, Pass(s),
           NEW t \in Tasks
    PROVE  Names(cursor'[t], member'[t], job'[t]) /\ member'[t] <= allocated'
<1> DEFINE good == Names(cursor'[t], member'[t], job'[t]) /\ member'[t] <= allocated'
<1>0. /\ Names(cursor[t], member[t], job[t]) /\ member[t] <= allocated
      /\ cursor[t] \in Cursor /\ member[t] \in 0 .. MaxGen
      /\ allocated \in 0 .. MaxGen /\ scan[s].gen \in 0 .. MaxGen
      /\ Holding(s) => BackedView(s)
  BY PassShape DEF BackInv, CursorBacked, SnapshotTypeOK, Scan
<1>1. ASSUME NEW j \in JobGens, job[t][j].state # "absent"
      PROVE  job'[t][j].state # "absent"
  BY <1>0, <1>1, PassRowStays
<1>2. Names(cursor[t], member[t], job'[t])
  BY <1>0, <1>1, NamesKept
<1>3. CASE ReconcileMembership(s)
  <2>1. scan[s].gen = allocated /\ allocated' = allocated
    BY <1>3 DEF ReconcileMembership, Current, markers
  <2>2. CASE cursor'[t] = cursor[t] /\ member'[t] \in {member[t], scan[s].gen}
    <3>1. cursor[t].snapshot \in Nat
      BY <1>0 DEF Cursor
    <3>2. cursor[t].snapshot <= member'[t]
      BY <1>0, <2>1, <2>2, <3>1 DEF Names
    <3> QED
      BY <1>0, <1>2, <2>1, <2>2, <3>2 DEF Names
  <2>3. CASE cursor'[t] = NoCursor /\ member'[t] = 0
    BY <1>0, <2>1, <2>3 DEF Names, NoCursor
  <2> QED
    BY <1>3, <2>2, <2>3, MembershipShape
<1>4. ASSUME NEW u \in Tasks, Schedule(s, u)
      PROVE  good
  <2>1. /\ scan[s].pc = "staging" /\ scan[s].gen = allocated
        /\ u \in DOMAIN scan[s].plan /\ member' = member /\ allocated' = allocated
    BY <1>4 DEF Schedule, Current, markers
  <2>2. CASE u = t
    <3>1. member[t] = scan[s].gen
      BY <2>1, <2>2 DEF BackInv, PlannedInv
    <3> QED
      BY <1>0, <1>4, <2>1, <2>2, <3>1, ScheduleNames
  <2>3. CASE u # t
    <3>1. cursor'[t] = cursor[t]
      BY <1>4, <2>3, ScheduleShape
    <3> QED
      BY <1>0, <1>2, <2>1, <3>1
  <2> QED
    BY <2>2, <2>3
<1>5. CASE Rollback(s)
  <2> DEFINE v == scan[s].view
  <2>1. /\ Holding(s) /\ BackedView(s) /\ v \in View
        /\ cursor' = v.cursor /\ member' = v.member /\ allocated' = allocated
    BY <1>0, <1>5, PassShape DEF Rollback, Holding
  <2>2. ASSUME NEW j \in JobGens, v.job[t][j].state # "absent"
        PROVE  job'[t][j].state # "absent"
    BY <1>1, <2>1, <2>2 DEF BackedView
  <2>3. Names(v.cursor[t], v.member[t], v.job[t]) /\ v.cursor[t] \in Cursor
        /\ v.member[t] <= allocated
    BY <2>1 DEF BackedView, View
  <2> HIDE DEF v
  <2> QED
    BY <2>1, <2>2, <2>3, NamesKept
<1>6. CASE \/ Allocate(s) \/ Capture(s) \/ Accept(s) \/ Publish(s)
           \/ FailedRollback(s) \/ Abandon(s) \/ AcceptFailure(s)
           \/ PublishFailure(s)
  <2>1. UNCHANGED authority /\ allocated' \in {allocated, allocated + 1}
    BY <1>6 DEF Allocate, Capture, Accept, Publish, FailedRollback, Abandon,
                AcceptFailure, PublishFailure, markers
  <2> QED
    BY <1>0, <1>2, <2>1 DEF authority
<1> QED
  BY <1>3, <1>4, <1>5, <1>6 DEF Pass

\* The passes after a step of one: their views and plans.
LEMMA PassKeepsViews ==
    ASSUME SnapshotTypeOK, PassInv, BackInv, NEW s \in Scans, Pass(s),
           NEW q \in Scans
    PROVE  PlannedInv(q)' /\ (Holding(q)' => BackedView(q)')
<1>0. /\ allocated \in Nat /\ allocated' \in Nat /\ allocated <= allocated'
      /\ Holding(s) => BackedView(s)
      /\ Holding(q) => BackedView(q)
  <2>1. allocated \in Nat
    BY SnapshotAssumption DEF SnapshotTypeOK
  <2>2. allocated' = allocated \/ allocated' = allocated + 1
    BY PassMoves
  <2> QED
    BY <2>1, <2>2 DEF BackInv
<1>1. \A t \in Tasks : \A j \in JobGens :
          job[t][j].state # "absent" => job'[t][j].state # "absent"
  BY <1>0, PassRowStays
<1>2. ASSUME Holding(q), scan'[q].view = scan[q].view
      PROVE  BackedView(q)'
  BY <1>0, <1>1, <1>2, ViewKept
<1>3. CASE q # s
  <2>1. scan'[q] = scan[q]
    BY <1>3, PassMoves
  <2>2. ASSUME scan[q].pc = "staging", scan[q].gen = allocated'
        PROVE  allocated' = allocated /\ member' = member
    <3>1. Running(q) /\ scan[q].gen <= allocated
      BY <2>2 DEF PassInv, Running
    <3>2. allocated' = allocated
      BY <1>0, <2>2, <3>1
    <3>3. ~(scan[s].pc # "idle" /\ scan[s].gen = allocated)
      BY <1>3, <2>2, <3>1, <3>2 DEF PassInv, Running
    <3> QED
      BY <3>2, <3>3, PassMoves
  <2>3. PlannedInv(q)'
    BY <2>1, <2>2 DEF BackInv, PlannedInv
  <2> QED
    BY <1>2, <2>1, <2>3 DEF Holding
<1>4. CASE q = s
  <2>0. Scanning
    BY PassShape
  <2>1. CASE Capture(s)
    <3>1. /\ scan'[s].view = [member |-> member, cursor |-> cursor, job |-> job]
          /\ scan'[s].pc = "captured" /\ UNCHANGED <<job, allocated>>
      BY <2>1, CaptureShape DEF Capture, markers
    <3>2. BackedView(s)'
      BY <3>1 DEF BackedView, BackInv, CursorBacked
    <3> QED
      BY <1>4, <3>1, <3>2 DEF PlannedInv
  <2>2. CASE Accept(s)
    <3>1. scan'[s].view = scan[s].view /\ scan'[s].pc = "accepted" /\ Holding(s)
      <4>1. "accepted" \in Phases /\ scan[s] \in Scan
        BY PassShape DEF Phases
      <4>2. scan'[s] = [scan[s] EXCEPT !.pc = "accepted"]
        BY <2>0, <2>2, <4>1, MoveShape DEF Accept
      <4> QED
        BY <2>2, <4>1, <4>2 DEF Scan, Accept, Holding
    <3> QED
      BY <1>2, <1>4, <3>1 DEF PlannedInv
  <2>3. CASE ReconcileMembership(s)
    <3>1. /\ scan'[s].view = scan[s].view /\ Holding(s)
          /\ scan'[s].gen = scan[s].gen
          /\ \A t \in DOMAIN scan'[s].plan : member'[t] = scan[s].gen
      BY <2>3, MembershipShape DEF ReconcileMembership, Holding
    <3> QED
      BY <1>2, <1>4, <3>1 DEF PlannedInv
  <2>4. ASSUME NEW u \in Tasks, Schedule(s, u)
        PROVE  PlannedInv(s)' /\ BackedView(s)'
    <3>1. /\ scan'[s].view = scan[s].view /\ Holding(s)
          /\ scan'[s].gen = scan[s].gen /\ scan'[s].pc = scan[s].pc
          /\ DOMAIN scan'[s].plan \subseteq DOMAIN scan[s].plan
          /\ member' = member /\ allocated' = allocated
      BY <2>4, ScheduleShape DEF Schedule, Holding, markers
    <3> QED
      BY <1>2, <1>4, <3>1 DEF PlannedInv, BackInv
  <2>5. CASE ~Holding(s)'
    BY <1>4, <2>5 DEF PlannedInv, Holding
  <2>6. CASE End(s) \/ AfterFailure(s)
    BY <2>0, <2>5, <2>6, EndShape, FailureShape, IdleShape DEF Holding
  <2>7. CASE AcceptFailure(s)
    <3>1. "failing" \in Phases /\ scan[s] \in Scan
      BY PassShape DEF Phases
    <3>2. scan'[s] = [scan[s] EXCEPT !.pc = "failing"]
      BY <2>0, <2>7, <3>1, MoveShape DEF AcceptFailure
    <3> QED
      BY <2>5, <3>1, <3>2 DEF Holding, Scan
  <2>8. CASE Allocate(s)
    <3>1. scan'[s].pc = "scanning" \/ ~Holding(s)'
      BY <2>0, <2>8 DEF Allocate, Scanning, Idle
    <3> QED
      BY <2>5, <3>1 DEF Holding
  <2> QED
    BY <1>4, <2>1, <2>2, <2>3, <2>4, <2>6, <2>7, <2>8
       DEF Pass, Publish, Rollback, FailedRollback, Abandon, PublishFailure
<1> QED
  BY <1>3, <1>4

\* What cursors, views and plans name is inductive.
LEMMA BackStep ==
    SnapshotTypeOK /\ PassInv /\ BackInv /\ [Next]_vars => BackInv'
<1> SUFFICES ASSUME SnapshotTypeOK, PassInv, BackInv, [Next]_vars PROVE BackInv'
  OBVIOUS
<1>1. ASSUME NEW s \in Scans, Pass(s)
      PROVE  BackInv'
  BY <1>1, PassBacks, PassKeepsViews DEF BackInv, CursorBacked
<1>2. ASSUME NEW t \in Tasks, NEW j \in JobGens,
             (\E k \in Tokens : Worker(t, j, k)) \/ Maintenance(t, j)
      PROVE  BackInv'
  <2>1. /\ UNCHANGED <<allocated, member, cursor>>
        /\ \A s \in Scans : /\ scan'[s].pc = scan[s].pc
                            /\ scan'[s].gen = scan[s].gen
                            /\ scan'[s].view = scan[s].view
                            /\ scan'[s].plan = scan[s].plan
    BY <1>2, JobPasses DEF markers, authority
  <2>2. \A u \in Tasks : \A i \in JobGens :
            job[u][i].state # "absent" => job'[u][i].state # "absent"
    BY <1>2, JobRowStays
  <2>3. \A u \in Tasks : Names(cursor[u], member[u], job'[u])
    BY <2>2, NamesKept DEF BackInv, CursorBacked, SnapshotTypeOK
  <2>4. allocated \in Nat
    BY SnapshotAssumption DEF SnapshotTypeOK
  <2>5. ASSUME NEW s \in Scans, Holding(s)'
        PROVE  BackedView(s)'
    BY <2>1, <2>2, <2>4, <2>5, ViewKept DEF BackInv, Holding
  <2>6. \A s \in Scans : PlannedInv(s)'
    BY <2>1 DEF BackInv, PlannedInv
  <2> QED
    BY <2>1, <2>3, <2>5, <2>6 DEF BackInv, CursorBacked
<1>3. CASE UNCHANGED vars
  BY <1>3 DEF vars, BackInv, CursorBacked, PlannedInv, BackedView, Holding
<1> QED
  BY <1>1, <1>2, <1>3 DEF Next

\* No cursor is ahead of its membership or names a job that is not there, for
\* any number of passes that stage, die and roll back.
THEOREM CursorsBacked == Spec => []CursorBacked
<1>1. Init => BackInv
  <2> SUFFICES ASSUME Init PROVE BackInv
    OBVIOUS
  <2>1. \A s \in Scans : scan[s].pc = "idle"
    BY IdleShape DEF Init
  <2>2. \A t \in Tasks : cursor[t] = NoCursor /\ member[t] = 0 /\ allocated = 0
    BY DEF Init
  <2> QED
    BY <2>1, <2>2 DEF BackInv, CursorBacked, Names, NoCursor, PlannedInv, Holding
<1>2. IInv => SnapshotTypeOK /\ PassInv
  BY DEF IInv
<1>3. BackInv => CursorBacked
  BY DEF BackInv
<1> QED
  BY <1>1, <1>2, <1>3, SnapshotInductive, BackStep, PTL DEF Spec

=============================================================================
