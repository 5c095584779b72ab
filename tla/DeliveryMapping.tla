---------------------------- MODULE DeliveryMapping --------------------------
(***************************************************************************)
(* How a step of an owner of the queue looks to Delivery.  The mapping     *)
(* (delivered, noted, auditing) reads the row and the record of a task, so *)
(* a step is judged by the one row and the one record that it writes.      *)
(***************************************************************************)
EXTENDS IntegrationQueue, TLAPS

\* The step writes the row and the record of task t and of no other.
Only(t) == \A u \in Tasks : u # t => row'[u] = row[u] /\ record'[u] = record[u]

\* The abstract state changes at t alone.
LEMMA AbstractFrame ==
  ASSUME NEW t \in Tasks, Only(t)
  PROVE  /\ delivered' = [delivered EXCEPT ![t] = delivered'[t]]
         /\ noted' = [noted EXCEPT ![t] = noted'[t]]
         /\ auditing' = [auditing EXCEPT ![t] = auditing'[t]]
  <1>1. delivered' = [delivered EXCEPT ![t] = delivered'[t]]
    BY DEF delivered, Only
  <1>2. noted' = [noted EXCEPT ![t] = noted'[t]]
    BY DEF noted, Only
  <1>3. auditing' = [auditing EXCEPT ![t] = auditing'[t]]
    BY DEF auditing, Only
  <1> QED
    BY <1>1, <1>2, <1>3

\* What the abstract state says of a task.
LEMMA AbstractValue ==
  ASSUME NEW t \in Tasks
  PROVE  /\ delivered[t] = IF row[t].state = "integrated" THEN row[t].sub.head ELSE NULL
         /\ noted[t] = IF record[t].state = "integrated" THEN record[t].sub.head ELSE NULL
         /\ auditing[t] = (record[t].status = "validating")
         /\ delivered'[t] = IF row'[t].state = "integrated" THEN row'[t].sub.head ELSE NULL
         /\ noted'[t] = IF record'[t].state = "integrated" THEN record'[t].sub.head ELSE NULL
         /\ auditing'[t] = (record'[t].status = "validating")
  <1>1. delivered[t] = IF row[t].state = "integrated" THEN row[t].sub.head ELSE NULL
    BY DEF delivered
  <1>2. noted[t] = IF record[t].state = "integrated" THEN record[t].sub.head ELSE NULL
    BY DEF noted
  <1>3. auditing[t] = (record[t].status = "validating")
    BY DEF auditing
  <1>4. delivered'[t] = IF row'[t].state = "integrated" THEN row'[t].sub.head ELSE NULL
    BY DEF delivered
  <1>5. noted'[t] = IF record'[t].state = "integrated" THEN record'[t].sub.head ELSE NULL
    BY DEF noted
  <1>6. auditing'[t] = (record'[t].status = "validating")
    BY DEF auditing
  <1> QED
    BY <1>1, <1>2, <1>3, <1>4, <1>5, <1>6

\* A function changed to the value it has is unchanged.
LEMMA Unchanged ==
  /\ \A t \in Tasks : delivered = [delivered EXCEPT ![t] = delivered[t]]
  /\ \A t \in Tasks : noted = [noted EXCEPT ![t] = noted[t]]
  <1>1. \A t \in Tasks : delivered = [delivered EXCEPT ![t] = delivered[t]]
    BY DEF delivered
  <1>2. \A t \in Tasks : noted = [noted EXCEPT ![t] = noted[t]]
    BY DEF noted
  <1> QED
    BY <1>1, <1>2

\* The audit of a task goes on, or is off.
LEMMA AuditingValue ==
  ASSUME NEW t \in Tasks, Only(t)
  PROVE  /\ record'[t].status = record[t].status => auditing' = auditing
         /\ record'[t].status # "validating" => auditing' = [auditing EXCEPT ![t] = FALSE]
  <1>1. ASSUME record'[t].status = record[t].status
        PROVE  auditing' = auditing
    <2>1. \A u \in Tasks : record'[u].status = record[u].status
      BY <1>1 DEF Only
    <2> QED
      BY <2>1 DEF auditing
  <1>2. ASSUME record'[t].status # "validating"
        PROVE  auditing' = [auditing EXCEPT ![t] = FALSE]
    BY <1>2 DEF auditing, Only
  <1> QED
    BY <1>1, <1>2

\* Rows and records that lose their integrated state, or keep it.
LEMMA TakesBack ==
  ASSUME NEW t \in Tasks, Only(t), UNCHANGED epic,
         row'[t].state # "integrated" \/ row'[t] = row[t],
         record'[t].state # "integrated"
           \/ (record'[t].state = record[t].state /\ record'[t].sub = record[t].sub),
         record'[t].status # "validating" \/ record'[t].status = record[t].status
  PROVE  D!Next
  <1>1. delivered'[t] \in {delivered[t], NULL}
    BY AbstractValue
  <1>2. noted'[t] \in {noted[t], NULL}
    BY AbstractValue
  <1>4. delivered' \in {delivered, [delivered EXCEPT ![t] = NULL]}
    BY <1>1, AbstractFrame, Unchanged
  <1>5. noted' \in {noted, [noted EXCEPT ![t] = NULL]}
    BY <1>2, AbstractFrame, Unchanged
  <1>6. auditing' \in {auditing, [auditing EXCEPT ![t] = FALSE]}
    BY AuditingValue
  <1>7. D!Reset(t)
    BY <1>4, <1>5, <1>6 DEF D!Reset
  <1> QED
    BY <1>7 DEF D!Next

\* A row that becomes integrated with a commit that has landed; its record
\* follows in the same step or stays.
LEMMA Delivers ==
  ASSUME NEW t \in Tasks, Only(t), UNCHANGED epic, epic[t] \subseteq Commits,
         row'[t].state = "integrated", row'[t].sub.head \in epic[t],
         record'[t].status = record[t].status,
         \/ record'[t].state = record[t].state /\ record'[t].sub = record[t].sub
         \/ record'[t].state = "integrated" /\ record'[t].sub.head = row'[t].sub.head
  PROVE  D!Next
  <1> DEFINE c == row'[t].sub.head
  <1>1. c \in Commits
    OBVIOUS
  <1>2. delivered'[t] = c /\ (noted'[t] = noted[t] \/ noted'[t] = c)
    BY AbstractValue
  <1>4. delivered' = [delivered EXCEPT ![t] = c]
    BY <1>2, AbstractFrame
  <1>5. noted' \in {noted, [noted EXCEPT ![t] = c]}
    BY <1>2, AbstractFrame, Unchanged
  <1>6. auditing' = auditing
    BY AuditingValue
  <1>7. D!Deliver(t, c)
    BY <1>4, <1>5, <1>6 DEF D!Deliver
  <1> QED
    BY <1>1, <1>7 DEF D!Next

\* A record that follows an integrated row, and may enter the audit with it.
LEMMA Notes ==
  ASSUME NEW t \in Tasks, Only(t), UNCHANGED <<row, epic>>,
         row[t].state = "integrated", row[t].sub.head \in Commits,
         record'[t].state = "integrated", record'[t].sub.head = row[t].sub.head,
         record'[t].status \in {record[t].status, "validating"}
  PROVE  D!Next
  <1>1. row[t].sub.head \in Commits /\ row[t].sub.head # NULL
    BY QueueAssumption
  <1>2. delivered[t] # NULL /\ delivered'[t] = delivered[t] /\ noted'[t] = delivered[t]
    BY <1>1, AbstractValue
  <1>3. delivered' = delivered /\ noted' = [noted EXCEPT ![t] = delivered[t]]
    BY <1>2, AbstractFrame, Unchanged
  <1>4. CASE record'[t].status = record[t].status
    <2>2. auditing' = auditing
      BY <1>4, AuditingValue
    <2>3. D!Note(t)
      BY <1>2, <1>3, <2>2 DEF D!Note
    <2> QED
      BY <2>3 DEF D!Next
  <1>5. CASE record'[t].status = "validating"
    <2>1. auditing'[t] = TRUE
      BY <1>5, AbstractValue
    <2>2. auditing' = [auditing EXCEPT ![t] = TRUE]
      BY <2>1, AbstractFrame, Zenon
    <2>3. D!Audit(t)
      BY <1>2, <1>3, <2>2 DEF D!Audit
    <2> QED
      BY <2>3 DEF D!Next
  <1> QED
    BY <1>4, <1>5

\* Steps that write neither a row, a record nor the epic branch are not seen.
LEMMA Unseen ==
  ASSUME UNCHANGED <<row, record, epic>>
  PROVE  UNCHANGED D!vars
  BY DEF D!vars, delivered, noted, auditing

\* Staging notes the landing, and starts the audit when it is accepted.
LEMMA StagingRefines ==
  ASSUME NEW t \in Tasks, NEW accepted \in BOOLEAN, UNCHANGED <<row, epic>>,
         record \in [Tasks -> Records], row \in [Tasks -> Rows],
         row[t].state = "integrated" => row[t].sub.head \in Commits,
         record' = [record EXCEPT ![t] = Staged(record[t], row[t], accepted)]
  PROVE  D!Next \/ UNCHANGED D!vars
  <1> DEFINE m == Repaired(record[t], row[t])
             n == Staged(record[t], row[t], accepted)
  <1>1. record[t] \in Records /\ row[t] \in Rows /\ record \in [Tasks -> Records]
    OBVIOUS
  <1>2. record'[t] = n /\ Only(t)
    BY <1>1 DEF Only
  <1>3. CASE n = record[t]
    <2>1. UNCHANGED record
      BY <1>1, <1>3
    <2> QED
      BY <2>1, Unseen
  <1>4. CASE n = m /\ row[t].state = "integrated" /\ n # record[t]
    <2>1. /\ m.state = "integrated" /\ m.sub = row[t].sub /\ m.status = record[t].status
      BY <1>1, <1>4 DEF Repaired, Records
    <2> QED
      BY <1>2, <1>4, <2>1, Notes
  <1>5. CASE /\ n = [m EXCEPT !.status = "validating"] /\ row[t].state = "integrated"
             /\ Stageable(record[t], row[t])
    <2>1. m \in Records
      BY <1>1 DEF Repaired, Records, Rows
    <2>2. m.state = "integrated" /\ m.sub.head = row[t].sub.head
      BY <1>5 DEF Stageable
    <2>3. n.state = m.state /\ n.sub = m.sub /\ n.status = "validating"
      BY <1>5, <2>1 DEF Records
    <2> QED
      BY <1>2, <1>5, <2>2, <2>3, Notes
  <1> QED
    BY <1>3, <1>4, <1>5 DEF Staged

=============================================================================
