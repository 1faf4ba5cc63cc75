---------------------------- MODULE IngestSerial ----------------------------
(***************************************************************************)
(* What the pipeline promises if the sessions of one address are ingested  *)
(* one at a time (Overlap = FALSE): a single open incident per address,    *)
(* and the ledger of IncidentLedger.  The interleaving of sessions of      *)
(* different addresses, errors, lost acknowledgements and crashes remain.  *)
(***************************************************************************)
EXTENDS IngestProofs

Uncommitted == {"flush", "commit"}

\* Two transactions of one address are one transaction.
Exclusive ==
  \A s, t \in Sessions :
    pc[s] \in InTransaction /\ pc[t] \in InTransaction /\ ip(s) = ip(t) => s = t

\* What thread s loaded is what the database holds.
Fresh(s) ==
  IF txn[s].found = None
  THEN OpenIncidents(ip(s)) = {} /\ txn[s].row = NewIncident(s)
  ELSE /\ incidents[txn[s].found] = txn[s].row
       /\ txn[s].row.status # "closed"

LEMMA SerialParts ==
  SerialInv <=> /\ Exclusive
                /\ \A s \in Sessions : pc[s] \in Uncommitted => Fresh(s)
                /\ SingleOpenIncident
BY DEF SerialInv, Exclusive, Fresh, Uncommitted

---------------------------------------------------------------------------
(* Exclusion.                                                              *)

\* A thread enters a transaction by StartIngest, and keeps its address.
LEMMA TransactionFrame ==
  ASSUME TypeInv, [Next]_vars, NEW t \in Sessions, pc'[t] \in InTransaction
  PROVE  /\ ip(t)' = ip(t)
         /\ \/ pc[t] \in InTransaction
            \/ /\ \E e \in Inputs : StartIngest(t, e)
               /\ \A r \in Sessions \ {t} : pc'[r] = pc[r]
<1> DEFINE Kept == pc[t] \in InTransaction /\ capture'[t] = capture[t]
<1> USE DEF TypeInv, TypeOK
<1>1. CASE Kept
  BY <1>1 DEF ip
<1>2. CASE Tick \/ Shutdown \/ Exit \/ Restart \/ UNCHANGED vars
  <2>1. Kept
    BY <1>2 DEF Tick, Shutdown, Exit, Restart, vars, Running, InTransaction
  <2> QED
    BY <1>1, <2>1
<1>3. ASSUME NEW s \in Sessions, NEW i \in IPs, Connect(s, i)
      PROVE  Kept
  BY <1>3 DEF Connect, InTransaction
<1>4. ASSUME NEW s \in Sessions, NEW e \in Inputs, StartIngest(s, e), s # t
      PROVE  Kept
  BY <1>4 DEF StartIngest
<1>5. ASSUME NEW e \in Inputs, StartIngest(t, e)
      PROVE  ip(t)' = ip(t) /\ \A r \in Sessions \ {t} : pc'[r] = pc[r]
  <2>1. capture[t] \in Capture
    BY <1>5 DEF StartIngest, Running
  <2>2. capture'[t] = [capture[t] EXCEPT !.evidence = e]
    BY <1>5 DEF StartIngest
  <2> QED
    BY <1>5, <2>1, <2>2 DEF ip, Capture, StartIngest
<1>6. ASSUME NEW s \in Sessions, CountPrior(s) \/ Flush(s) \/ Commit(s)
      PROVE  Kept
  BY <1>6 DEF CountPrior, Flush, Commit, InTransaction
<1>7. ASSUME NEW s \in Sessions, SelectIncident(s)
      PROVE  Kept
  BY <1>7, SelectTxn DEF InTransaction
<1>8. ASSUME NEW s \in Sessions,
             Rollback(s) \/ Publish(s) \/ PublishFails(s) \/ CommitUnacknowledged(s)
      PROVE  Kept
  BY <1>8 DEF Rollback, Publish, PublishFails, CommitUnacknowledged, EndThread,
              InTransaction
<1> QED
  BY <1>1, <1>2, <1>3, <1>4, <1>5, <1>6, <1>7, <1>8 DEF Next, Worker, Progress

LEMMA ExclusiveStep ==
  ASSUME ~Overlap, TypeInv, Exclusive, [Next]_vars
  PROVE  Exclusive'
<1> SUFFICES ASSUME NEW s \in Sessions, NEW t \in Sessions, s # t,
                    pc'[s] \in InTransaction, pc'[t] \in InTransaction
             PROVE  ip(s)' # ip(t)'
  BY DEF Exclusive
<1>1. ip(s)' = ip(s) /\ ip(t)' = ip(t)
  BY TransactionFrame
<1>2. CASE pc[s] \in InTransaction /\ pc[t] \in InTransaction
  BY <1>1, <1>2 DEF Exclusive
<1>3. ASSUME NEW r \in Sessions, NEW q \in Sessions, r # q, pc'[q] \in InTransaction,
             NEW e \in Inputs, StartIngest(r, e), pc'[q] = pc[q]
      PROVE  ip(r) # ip(q)
  BY <1>3 DEF StartIngest
<1> QED
  BY <1>1, <1>2, <1>3, TransactionFrame

---------------------------------------------------------------------------
(* Freshness and the single open incident.                                 *)

LEMMA SerialInit == Init => SerialInv
<1> SUFFICES ASSUME Init PROVE SerialInv
  OBVIOUS
<1>1. PICK seeded \in SUBSET SeedIPs :
        \E st \in [seeded -> Statuses] :
          incidents = [i \in seeded |-> SeedIncident(i, st[i])]
  BY DEF Init
<1>2. SingleOpenIncident
  BY <1>1 DEF SingleOpenIncident, SeedIncident
<1> QED
  BY <1>2 DEF Init, SerialInv, InTransaction

LEMMA SerialQuiet ==
  ASSUME TypeInv, SerialInv, Quiet
  PROVE  SingleOpenIncident' /\ \A t \in Sessions : pc'[t] \in Uncommitted => Fresh(t)'
<1>1. UNCHANGED <<attacks, incidents>> /\ \A t \in Sessions : Steady(t)
  BY QuietSteady
<1>2. SingleOpenIncident'
  BY <1>1 DEF SerialInv, SingleOpenIncident
<1>3. ASSUME NEW t \in Sessions, pc'[t] \in Uncommitted
      PROVE  Fresh(t)'
  <2>1. pc[t] \in Uncommitted /\ txn'[t] = txn[t] /\ capture'[t] = capture[t]
    BY <1>1, <1>3 DEF Steady, Uncommitted, Loaded, Unstored, InTransaction
  <2>2. Fresh(t)
    BY <2>1, SerialParts
  <2> QED
    BY <1>1, <2>1, <2>2 DEF Fresh, OpenIncidents, NewIncident, ip, ts, Country
<1> QED
  BY <1>2, <1>3

LEMMA SerialSelect ==
  ASSUME TypeInv, SerialInv, NEW s \in Sessions, SelectIncident(s)
  PROVE  SingleOpenIncident' /\ \A t \in Sessions : pc'[t] \in Uncommitted => Fresh(t)'
<1>1. /\ txn'[s].geo = txn[s].geo
      /\ \A t \in Sessions \ {s} : pc'[t] = pc[t] /\ txn'[t] = txn[t]
      /\ UNCHANGED <<capture, attacks, incidents>>
  BY SelectTxn
<1>2. SingleOpenIncident'
  BY <1>1 DEF SerialInv, SingleOpenIncident
<1>3. ASSUME NEW t \in Sessions \ {s}, pc'[t] \in Uncommitted
      PROVE  Fresh(t)'
  <2>1. Fresh(t)
    BY <1>1, <1>3, SerialParts
  <2> QED
    BY <1>1, <2>1 DEF Fresh, OpenIncidents, NewIncident, ip, ts, Country
<1>4. Fresh(s)'
  <2>1. txn[s] \in Txn /\ txn \in [Sessions -> Txn \cup {None}]
    BY SelectTxn DEF TypeInv, TypeOK, InTransaction
  <2>2. CASE /\ OpenIncidents(ip(s)) = {}
             /\ txn' = [txn EXCEPT ![s].found = None, ![s].row = NewIncident(s)]
    <3>1. txn'[s].found = None /\ txn'[s].row = NewIncident(s)
      BY <2>1, <2>2 DEF Txn
    <3> QED
      BY <1>1, <2>2, <3>1 DEF Fresh, OpenIncidents, NewIncident, ip, ts, Country
  <2>3. ASSUME NEW n \in OpenIncidents(ip(s)),
               txn' = [txn EXCEPT ![s].found = n, ![s].row = incidents[n]]
        PROVE  Fresh(s)'
    <3>1. txn'[s].found = n /\ txn'[s].row = incidents[n]
      BY <2>1, <2>3 DEF Txn
    <3>2. n \in DOMAIN incidents /\ n # None /\ incidents[n].status # "closed"
      BY NoneAssumption DEF OpenIncidents, TypeInv, TypeOK, RowIds
    <3> QED
      BY <1>1, <3>1, <3>2 DEF Fresh
  <2> QED
    BY <2>2, <2>3 DEF SelectIncident
<1> QED
  BY <1>2, <1>3, <1>4

LEMMA SerialCommit ==
  ASSUME TypeInv, SourceInv, SerialInv,
         NEW s \in Sessions, Commit(s) \/ CommitUnacknowledged(s)
  PROVE  SingleOpenIncident' /\ \A t \in Sessions : pc'[t] \in Uncommitted => Fresh(t)'
<1>1. /\ pc[s] = "commit" /\ Apply(s) /\ pc'[s] \in {"publish", "failed"}
      /\ \A t \in Sessions \ {s} :
           pc'[t] = pc[t] /\ txn'[t] = txn[t] /\ capture'[t] = capture[t]
  BY CommitSteady
<1> DEFINE id == IncidentId(s)
<1>2. /\ DOMAIN incidents' = DOMAIN incidents \cup {id}
      /\ \A n \in DOMAIN incidents : incidents'[n].source_ip = incidents[n].source_ip
      /\ incidents'[id].source_ip = ip(s)
      /\ \A n \in DOMAIN incidents \ {id} : incidents'[n] = incidents[n]
  BY <1>1, ApplySource
<1>3. Fresh(s)
  BY <1>1, SerialParts DEF Uncommitted
<1> HIDE DEF id
\* Any other open incident of the address would have been found.
<1>4. ASSUME NEW n \in DOMAIN incidents, incidents[n].source_ip = ip(s),
             incidents[n].status # "closed"
      PROVE  n = id
  <2>1. CASE txn[s].found = None
    BY <1>3, <1>4, <2>1 DEF Fresh, OpenIncidents
  <2>2. CASE txn[s].found # None
    <3>1. /\ txn[s].found \in DOMAIN incidents /\ id = txn[s].found
          /\ incidents[id].source_ip = ip(s) /\ incidents[id].status # "closed"
      BY <1>1, <1>3, <2>2 DEF id, IncidentId, Fresh, TypeInv, FoundIsStored,
                              SourceInv, Loaded
    <3> QED
      BY <1>4, <3>1 DEF SerialInv, SingleOpenIncident
  <2> QED
    BY <2>1, <2>2
<1>5. SingleOpenIncident'
  <2> SUFFICES ASSUME NEW m \in DOMAIN incidents', NEW n \in DOMAIN incidents',
                      incidents'[m].source_ip = incidents'[n].source_ip,
                      incidents'[m].status # "closed", incidents'[n].status # "closed"
               PROVE  m = n
    BY DEF SingleOpenIncident
  <2>1. CASE m # id /\ n # id
    BY <1>2, <2>1 DEF SerialInv, SingleOpenIncident
  <2>2. CASE m = id \/ n = id
    BY <1>2, <1>4, <2>2
  <2> QED
    BY <2>1, <2>2
<1>6. ASSUME NEW t \in Sessions, pc'[t] \in Uncommitted
      PROVE  Fresh(t)'
  <2>1. t # s
    BY <1>1, <1>6 DEF Uncommitted
  <2>2. /\ pc[t] \in Uncommitted /\ Fresh(t)
        /\ txn'[t] = txn[t] /\ capture'[t] = capture[t]
    BY <1>1, <1>6, <2>1, SerialParts
  <2>3. ip(t) # ip(s)
    BY <1>1, <2>1, <2>2, SerialParts DEF Exclusive, Uncommitted, InTransaction
  <2>4. CASE txn[t].found = None
    <3>1. OpenIncidents(ip(t)) = {} /\ txn[t].row = NewIncident(t)
      BY <2>2, <2>4 DEF Fresh
    <3>2. OpenIncidents(ip(t))' = {}
      BY <1>2, <2>2, <2>3, <3>1 DEF OpenIncidents, ip
    <3>3. NewIncident(t)' = NewIncident(t)
      BY <2>2 DEF NewIncident, ip, ts, Country
    <3> QED
      BY <2>2, <2>4, <3>1, <3>2, <3>3 DEF Fresh
  <2>5. CASE txn[t].found # None
    <3>1. /\ txn[t].found \in DOMAIN incidents
          /\ incidents[txn[t].found].source_ip = ip(t)
      BY <2>2, <2>5 DEF TypeInv, FoundIsStored, SourceInv, Uncommitted, Loaded
    <3>2. incidents'[txn[t].found] = incidents[txn[t].found]
      BY <1>2, <2>3, <3>1
    <3> QED
      BY <2>2, <2>5, <3>2 DEF Fresh
  <2> QED
    BY <2>4, <2>5
<1> QED
  BY <1>5, <1>6

LEMMA SerialStep ==
  ASSUME ~Overlap
  PROVE  TypeInv /\ SourceInv /\ SerialInv /\ [Next]_vars => SerialInv'
<1> SUFFICES ASSUME TypeInv, SourceInv, SerialInv, [Next]_vars PROVE SerialInv'
  OBVIOUS
<1>1. Exclusive'
  BY ExclusiveStep, SerialParts
<1>2. SingleOpenIncident' /\ \A t \in Sessions : pc'[t] \in Uncommitted => Fresh(t)'
  BY NextCases, SerialQuiet, SerialSelect, SerialCommit
<1> QED
  BY <1>1, <1>2 DEF SerialInv, Exclusive, Fresh, Uncommitted

LEMMA SerialCorrect ==
  ASSUME ~Overlap
  PROVE  Spec => [](IInv /\ SerialInv)
<1>1. Init => IInv /\ SerialInv
  BY InvInit, SerialInit
<1>2. (IInv /\ SerialInv) /\ [Next]_vars => (IInv /\ SerialInv)'
  BY InvStep, SerialStep DEF IInv
<1> QED
  BY <1>1, <1>2, PTL DEF Spec

\* If no two sessions of an address are ingested at a time, an address has at
\* most one incident that is not closed, whatever fails or crashes.
THEOREM SerialSingle ==
  ASSUME ~Overlap
  PROVE  Spec => []SingleOpenIncident
<1>1. IInv /\ SerialInv => SingleOpenIncident
  BY DEF SerialInv
<1> QED
  BY <1>1, SerialCorrect, PTL

---------------------------------------------------------------------------
(* The ledger.  A commit is a Record, a successful callback an Announce,   *)
(* and nothing else shows.                                                 *)

LEMMA LedgerInit == Init => Ledger!Init
<1> SUFFICES ASSUME Init PROVE Ledger!Init
  OBVIOUS
<1>1. PICK seeded \in SUBSET SeedIPs :
        /\ attacks = {SeedAttack(i) : i \in seeded}
        /\ \E st \in [seeded -> Statuses] :
             incidents = [i \in seeded |-> SeedIncident(i, st[i])]
  BY DEF Init
<1>2. \A m, n \in DOMAIN incidents :
        incidents[m].source_ip = incidents[n].source_ip => m = n
  BY <1>1 DEF SeedIncident
<1>3. \A a \in attacks : a.incident_id \in DOMAIN incidents
  BY <1>1 DEF SeedAttack
<1> QED
  BY <1>2, <1>3 DEF Init, Ledger!Init

\* What correlate() makes of a row is what the ledger makes of it.
LEMMA CorrelatedAbsorbs ==
  ASSUME NEW s \in Sessions, capture[s] \in Capture, txn[s] \in Txn,
         NEW row \in Incident, row.source_ip = ip(s)
  PROVE  Ledger!Absorbs(row, Correlated(row, s), AttackRow(s))
<1> DEFINE a == AttackRow(s)
           new == Correlated(row, s)
<1>1. /\ a.source_ip = ip(s) /\ a.timestamp = ts(s)
      /\ a.auth_attempts = capture[s].evidence.auth_attempts
      /\ a.risk_score = txn[s].score /\ a.techniques = txn[s].techniques
  BY DEF AttackRow
<1>2. /\ new.source_ip = row.source_ip /\ new.first_seen = row.first_seen
      /\ new.status = row.status /\ new.last_seen = ts(s)
      /\ new.attempt_count =
           row.attempt_count + Attempts(capture[s].evidence.auth_attempts)
      /\ new.max_risk_score = Max2(row.max_risk_score, txn[s].score)
      /\ new.techniques = row.techniques \cup txn[s].techniques
  BY CorrelatedFields
<1>3. txn[s].score \in Int /\ row.max_risk_score \in Int
  BY DEF Txn, Incident, RiskScores
<1> HIDE DEF a, new
<1>4. Max2(row.max_risk_score, txn[s].score) =
        IF a.risk_score > row.max_risk_score THEN a.risk_score ELSE row.max_risk_score
  BY <1>1, <1>3 DEF Max2
<1>5. Ledger!Counted(a) = Attempts(capture[s].evidence.auth_attempts)
  BY <1>1 DEF Ledger!Counted, Attempts
<1>6. Ledger!Absorbs(row, new, a)
  BY <1>1, <1>2, <1>4, <1>5 DEF Ledger!Absorbs
<1> QED
  BY <1>6 DEF a, new

\* An incident that starts with the session is the session.
LEMMA NewIncidentOpens ==
  ASSUME NEW s \in Sessions, capture[s] \in Capture, txn[s] \in Txn
  PROVE  Ledger!Opens(Correlated(NewIncident(s), s), AttackRow(s))
<1> DEFINE row == NewIncident(s)
<1>1. row \in Incident
  BY NewIncidentType
<1>2. /\ row.source_ip = ip(s) /\ row.first_seen = ts(s) /\ row.status = "open"
      /\ row.attempt_count = 0 /\ row.max_risk_score = 0 /\ row.techniques = {}
  BY DEF NewIncident
<1> HIDE DEF row
<1>3. Ledger!Absorbs(row, Correlated(row, s), AttackRow(s))
  BY <1>1, <1>2, CorrelatedAbsorbs
<1>4. /\ AttackRow(s).timestamp = ts(s) /\ AttackRow(s).source_ip = ip(s)
      /\ AttackRow(s).risk_score \in RiskScores
      /\ AttackRow(s).auth_attempts \in Nat
  BY DEF AttackRow, Txn, Capture, Evidence
<1>5. Ledger!Counted(AttackRow(s)) \in Nat
  BY <1>4 DEF Ledger!Counted
<1>6. Ledger!Opens(Correlated(row, s), AttackRow(s))
  BY <1>2, <1>3, <1>4, <1>5 DEF Ledger!Absorbs, Ledger!Opens, RiskScores
<1> QED
  BY <1>6 DEF row

LEMMA CommitRecords ==
  ASSUME IInv, SerialInv, NEW s \in Sessions, Commit(s) \/ CommitUnacknowledged(s)
  PROVE  Ledger!Record(AttackRow(s)) /\ AttackRow(s) \in attacks'
<1> DEFINE a == AttackRow(s)
           id == IncidentId(s)
<1>1. pc[s] = "commit" /\ Apply(s) /\ published' = published
  BY DEF Commit, CommitUnacknowledged
<1>2. /\ attacks' = attacks \cup {a}
      /\ DOMAIN incidents' = DOMAIN incidents \cup {id}
      /\ \A n \in DOMAIN incidents \ {id} : incidents'[n] = incidents[n]
      /\ incidents'[id] = IncidentWrite(s)
  BY <1>1, ApplySource DEF IInv
<1>3. a.session_id = s /\ a.incident_id = id /\ a.source_ip = ip(s)
  BY DEF AttackRow
<1>4. s \notin DOMAIN incidents /\ a \notin attacks
  BY <1>1, <1>3 DEF IInv, SourceInv, Unstored, InTransaction
<1>5. Fresh(s)
  BY <1>1, SerialParts DEF Uncommitted
<1>6. /\ capture[s] \in Capture /\ txn[s] \in Txn /\ txn[s].row \in Incident
      /\ txn[s].row.source_ip = ip(s)
  BY <1>1, CommitTypes DEF IInv, SourceInv, Loaded
<1> HIDE DEF a, id
<1>7. \/ id \in Ledger!Open(a.source_ip) /\ Ledger!Absorbs(incidents[id], incidents'[id], a)
      \/ /\ Ledger!Open(a.source_ip) = {} /\ id \notin DOMAIN incidents
         /\ Ledger!Opens(incidents'[id], a)
  <2>1. CASE txn[s].found = None
    <3>1. id = s /\ incidents'[id] = Correlated(NewIncident(s), s)
      BY <1>2, <1>5, <2>1 DEF id, IncidentId, IncidentWrite, Fresh
    <3>2. Ledger!Open(a.source_ip) = {}
      BY <1>3, <1>5, <2>1 DEF Fresh, OpenIncidents, Ledger!Open
    <3> QED
      BY <1>4, <1>6, <3>1, <3>2, NewIncidentOpens DEF a
  <2>2. CASE txn[s].found # None
    <3>1. /\ id = txn[s].found /\ id \in DOMAIN incidents
          /\ incidents[id] = txn[s].row /\ txn[s].row.status # "closed"
      BY <1>1, <1>5, <2>2, CommitTypes DEF id, IncidentId, Fresh, IInv
    <3>2. id \in Ledger!Open(a.source_ip)
      BY <1>3, <1>6, <3>1 DEF Ledger!Open
    <3> DEFINE new == Correlated(txn[s].row, s)
    <3>3. Ledger!Absorbs(txn[s].row, new, a)
      BY <1>6, CorrelatedAbsorbs DEF a
    <3>4. incidents'[id] = UpdatedRow(txn[s].row, txn[s].row, new)
      BY <1>2, <2>2, <3>1 DEF IncidentWrite
    <3> HIDE DEF new
    <3>5. Ledger!Absorbs(txn[s].row, incidents'[id], a)
      BY <3>3, <3>4 DEF Ledger!Absorbs, UpdatedRow, Column
    <3> QED
      BY <3>1, <3>2, <3>5
  <2> QED
    BY <2>1, <2>2
<1>8. Ledger!Record(a) /\ a \in attacks'
  BY <1>1, <1>2, <1>3, <1>4, <1>7 DEF Ledger!Record
<1> QED
  BY <1>8 DEF a

LEMMA LedgerStep ==
  ASSUME IInv, SerialInv, [Next]_vars
  PROVE  [Ledger!Next]_(Ledger!vars)
<1>1. ASSUME NEW s \in Sessions, Commit(s) \/ CommitUnacknowledged(s)
      PROVE  Ledger!Next
  BY <1>1, CommitRecords DEF Ledger!Next
<1>2. ASSUME NEW s \in Sessions, Publish(s)
      PROVE  Ledger!Next
  <2>1. /\ AttackRow(s) \in attacks
        /\ published' = published \cup {AttackRow(s)}
        /\ UNCHANGED <<attacks, incidents>>
    <3>1. AttackRow(s) \in attacks
      BY <1>2 DEF Publish, IInv, StoredInv
    <3>2. published' = published \cup {AttackRow(s)} /\ UNCHANGED <<attacks, incidents>>
      BY <1>2 DEF Publish
    <3> QED
      BY <3>1, <3>2
  <2>2. Ledger!Announce(AttackRow(s)) /\ AttackRow(s) \in published'
    BY <2>1 DEF Ledger!Announce
  <2> QED
    BY <2>2 DEF Ledger!Next
<1>3. CASE \/ Tick \/ Shutdown \/ Exit \/ Restart \/ UNCHANGED vars
           \/ \E s \in Sessions :
                \/ \E i \in IPs : Connect(s, i)
                \/ \E e \in Inputs : StartIngest(s, e)
                \/ CountPrior(s) \/ SelectIncident(s) \/ Flush(s)
                \/ Rollback(s) \/ PublishFails(s)
  BY <1>3 DEF Tick, Shutdown, Exit, Restart, vars, Connect, StartIngest, CountPrior,
              SelectIncident, Flush, Rollback, PublishFails, Ledger!vars
<1> QED
  BY <1>1, <1>2, <1>3 DEF Next, Worker, Progress

\* Ingested one at a time per address, the sessions implement the ledger: one
\* commit records one attack and brings exactly its incident up to date.
THEOREM ImplementsLedger ==
  ASSUME ~Overlap
  PROVE  Spec => RefinesLedger
<1>1. Init => Ledger!Init
  BY LedgerInit
<1>2. IInv /\ SerialInv /\ [Next]_vars => [Ledger!Next]_(Ledger!vars)
  BY LedgerStep
<1> QED
  BY <1>1, <1>2, SerialCorrect, PTL DEF Spec, RefinesLedger, Ledger!Spec
---------------------------------------------------------------------------
(* Coverage: a fact about the ledger, which the pipeline inherits.         *)

LEMMA CoverageInit == Init => CoverageComplete
<1> SUFFICES ASSUME Init PROVE CoverageComplete
  OBVIOUS
<1>1. PICK seeded \in SUBSET SeedIPs :
        /\ attacks = {SeedAttack(i) : i \in seeded}
        /\ \E st \in [seeded -> Statuses] :
             incidents = [i \in seeded |-> SeedIncident(i, st[i])]
  BY DEF Init
<1>2. \A n \in DOMAIN incidents : /\ incidents[n].max_risk_score = SeedScore
                                 /\ incidents[n].techniques = {}
  BY <1>1 DEF SeedIncident
<1>3. \A a \in attacks : a.risk_score = SeedScore /\ a.techniques = {}
  BY <1>1 DEF SeedAttack
<1>4. SeedScore <= SeedScore
  BY SeedAssumption DEF RiskScores
<1> QED
  BY <1>2, <1>3, <1>4 DEF CoverageComplete, Linked

\* An incident that absorbs an attack, or opens with it, covers it and all
\* that it covered before.
LEMMA CoverageRecord ==
  ASSUME TypeInv, TypeInv', AttacksGroupedBySource, CoverageComplete,
         NEW a, Ledger!Record(a)
  PROVE  CoverageComplete'
<1> DEFINE n == a.incident_id
           Covers(row, b) == b.risk_score <= row.max_risk_score /\ b.techniques \subseteq row.techniques
<1>1. /\ attacks' = attacks \cup {a}
      /\ DOMAIN incidents' = DOMAIN incidents \cup {n}
      /\ \A m \in DOMAIN incidents \ {n} : incidents'[m] = incidents[m]
      /\ \/ n \in DOMAIN incidents /\ Ledger!Absorbs(incidents[n], incidents'[n], a)
         \/ n \notin DOMAIN incidents /\ Ledger!Opens(incidents'[n], a)
  BY DEF Ledger!Record, Ledger!Open
<1>2. /\ a.risk_score \in Int /\ incidents'[n].max_risk_score \in Int
      /\ n \in DOMAIN incidents => incidents[n].max_risk_score \in Int
      /\ \A b \in attacks : b.risk_score \in Int
  <2>1. \A b \in attacks' : b \in Attack
    BY DEF TypeInv, TypeOK
  <2>2. n \in DOMAIN incidents' => incidents'[n] \in Incident
    BY DEF TypeInv, TypeOK
  <2>3. n \in DOMAIN incidents => incidents[n] \in Incident
    BY DEF TypeInv, TypeOK
  <2>4. \A b \in Attack : b.risk_score \in Int
    BY DEF Attack, RiskScores
  <2>5. \A row \in Incident : row.max_risk_score \in Int
    BY DEF Incident, RiskScores
  <2> HIDE DEF n
  <2> QED
    BY <1>1, <2>1, <2>2, <2>3, <2>4, <2>5
<1> HIDE DEF n
<1>3. Covers(incidents'[n], a)
  <2>1. CASE Ledger!Absorbs(incidents[n], incidents'[n], a) /\ n \in DOMAIN incidents
    BY <1>2, <2>1 DEF Ledger!Absorbs
  <2>2. CASE Ledger!Opens(incidents'[n], a)
    BY <1>2, <2>2 DEF Ledger!Opens
  <2> QED
    BY <1>1, <2>1, <2>2
<1>4. ASSUME NEW b \in attacks, b.incident_id = n
      PROVE  Covers(incidents'[n], b)
  <2>1. n \in DOMAIN incidents
    BY <1>4 DEF AttacksGroupedBySource
  <2>2. Covers(incidents[n], b)
    BY <1>4, <2>1 DEF CoverageComplete, Linked
  <2>3. /\ incidents'[n].max_risk_score >= incidents[n].max_risk_score
        /\ incidents[n].techniques \subseteq incidents'[n].techniques
    BY <1>1, <1>2, <2>1 DEF Ledger!Absorbs
  <2>4. b.risk_score <= incidents'[n].max_risk_score
    BY <1>2, <2>1, <2>2, <2>3
  <2> QED
    BY <2>2, <2>3, <2>4
<1>5. ASSUME NEW m \in DOMAIN incidents', NEW b \in attacks', b.incident_id = m
      PROVE  Covers(incidents'[m], b)
  <2>1. CASE m = n
    BY <1>1, <1>3, <1>4, <1>5, <2>1
  <2>2. CASE m # n
    <3>1. m \in DOMAIN incidents /\ incidents'[m] = incidents[m]
      BY <1>1, <1>5, <2>2
    <3>2. b \in attacks
      BY <1>1, <1>5, <2>2 DEF n
    <3> QED
      BY <1>5, <3>1, <3>2 DEF CoverageComplete, Linked
  <2> QED
    BY <2>1, <2>2
<1> QED
  BY <1>5 DEF CoverageComplete, Linked

LEMMA CoverageStep ==
  ASSUME IInv, IInv', SerialInv, CoverageComplete, [Next]_vars
  PROVE  CoverageComplete'
<1>1. CASE \E a : Ledger!Record(a)
  BY <1>1, CoverageRecord DEF IInv, SourceInv
<1>2. CASE UNCHANGED <<attacks, incidents>>
  BY <1>2 DEF CoverageComplete, Linked
<1>3. (\E a : Ledger!Record(a)) \/ UNCHANGED <<attacks, incidents>>
  BY LedgerStep DEF Ledger!Next, Ledger!Announce, Ledger!vars
<1> QED
  BY <1>1, <1>2, <1>3

---------------------------------------------------------------------------
(* The attempts: what a thread loaded is what the table holds when it      *)
(* commits, so nothing is lost.                                            *)

LEMMA ExactInit == Init => AttemptsExact
BY SeedAttempts DEF AttemptsExact

LEMMA ExactFrame ==
  ASSUME AttemptsExact, UNCHANGED <<attacks, incidents>>
  PROVE  AttemptsExact'
<1>1. \A n : LinkedAttempts(n)' = LinkedAttempts(n)
  <2>1. \A n : Linked(n)' = Linked(n)
    BY DEF Linked
  <2> QED
    BY <2>1, LinkedTotal
<1> QED
  BY <1>1 DEF AttemptsExact

LEMMA ExactCommit ==
  ASSUME IInv, SerialInv, AttemptsExact, NEW s \in Sessions,
         Commit(s) \/ CommitUnacknowledged(s)
  PROVE  AttemptsExact'
<1> DEFINE more == Attempts(capture[s].evidence.auth_attempts)
<1>1. TypeInv /\ SourceInv /\ pc[s] = "commit" /\ Apply(s)
  BY CommitSteady DEF IInv
<1>2. PICK m : m = IncidentId(s)
  OBVIOUS
<1>3. /\ DOMAIN incidents' = DOMAIN incidents \cup {m}
      /\ \A n \in DOMAIN incidents \ {m} : incidents'[n] = incidents[n]
      /\ incidents'[m].attempt_count = txn[s].row.attempt_count + more
  BY <1>1, <1>2, ApplySource, WrittenAttempts
<1>4. \A n : LinkedAttempts(n)' = IF n = m THEN LinkedAttempts(n) + more ELSE LinkedAttempts(n)
  BY <1>1, <1>2, LinkedCommit
<1>5. Fresh(s)
  BY <1>1, SerialParts DEF Uncommitted
<1> HIDE DEF more
<1>6. txn[s].row.attempt_count = LinkedAttempts(m)
  <2>1. CASE txn[s].found = None
    <3>1. txn[s].row.attempt_count = 0
      BY <1>5, <2>1 DEF Fresh, NewIncident
    <3>2. m \notin DOMAIN incidents
      BY <1>1, <1>2, <2>1 DEF IncidentId, SourceInv, Unstored, InTransaction
    <3>3. Linked(m) = {}
      BY <1>1, <3>2 DEF Linked, SourceInv, AttacksGroupedBySource
    <3> QED
      BY <3>1, <3>3, LinkedTotal, TotalType, FS_EmptySet
  <2>2. CASE txn[s].found # None
    <3>1. m \in DOMAIN incidents /\ txn[s].row = incidents[m]
      BY <1>1, <1>2, <1>5, <2>2, CommitTypes DEF IncidentId, Fresh
    <3> QED
      BY <3>1 DEF AttemptsExact
  <2> QED
    BY <2>1, <2>2
<1>7. ASSUME NEW n \in DOMAIN incidents'
      PROVE  incidents'[n].attempt_count = LinkedAttempts(n)'
  <2>1. CASE n = m
    BY <1>3, <1>4, <1>6, <2>1
  <2>2. CASE n # m
    BY <1>3, <1>4, <1>7, <2>2 DEF AttemptsExact
  <2> QED
    BY <2>1, <2>2
<1> QED
  BY <1>7 DEF AttemptsExact

LEMMA ExactStep ==
  ASSUME IInv, SerialInv, AttemptsExact, [Next]_vars
  PROVE  AttemptsExact'
<1>1. CASE Quiet
  BY <1>1, ExactFrame, QuietSteady DEF IInv
<1>2. ASSUME NEW s \in Sessions, SelectIncident(s)
      PROVE  AttemptsExact'
  BY <1>2, ExactFrame, SelectTxn DEF IInv
<1> QED
  BY <1>1, <1>2, NextCases, ExactCommit

\* correlate(): with ingests one at a time per address the running aggregates
\* of an incident are exact: no attack linked to it is worse than its maximal
\* risk or shows a technique it lacks, and it counts every attempt once.
THEOREM SerialExact ==
  ASSUME ~Overlap
  PROVE  Spec => []AggregatesExact
<1>1. Init => AggregatesExact
  BY CoverageInit, ExactInit DEF AggregatesExact
<1>2. IInv /\ IInv' /\ SerialInv /\ AggregatesExact /\ [Next]_vars => AggregatesExact'
  BY CoverageStep, ExactStep DEF AggregatesExact
<1> QED
  BY <1>1, <1>2, SerialCorrect, PTL DEF Spec
=============================================================================
