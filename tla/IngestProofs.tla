---------------------------- MODULE IngestProofs ----------------------------
(***************************************************************************)
(* Theorems about Ingest, for every set of sessions, every address, every  *)
(* risk configuration and every interleaving.                              *)
(***************************************************************************)
EXTENDS Ingest, FiniteSetTheorems, WellFoundedInduction, TLAPS

---------------------------------------------------------------------------
(* Lemmas about the assessment.                                            *)

\* The points of the reasons add up to an integer, whatever fired.
LEMMA RawScoreType ==
  ASSUME NEW rs
  PROVE  RawScore(rs) \in Int
<1>1. \A r \in RiskReasons : Points(r, rs) \in Int
  BY WeightAssumption DEF Points
<1> QED
  BY <1>1 DEF RawScore, RiskReasons

\* The score is held within 0..100 even if weights are negative or huge.
LEMMA ScoreType ==
  ASSUME NEW rs
  PROVE  score(rs) \in RiskScores
BY RawScoreType DEF score, Clip, RiskScores

\* The rule table only names techniques of the catalogue.
LEMMA RuleTechniqueType ==
  ASSUME NEW b \in RuleLabels
  PROVE  RuleTechnique[b] \in CATALOGUE
BY DEF RuleLabels, RuleTechnique, CATALOGUE

\* A behaviour detect() can add stands for techniques of the catalogue.
LEMMA BehaviourTechniques ==
  ASSUME NEW e, NEW n, NEW m, NEW b \in behaviors(e, n, m)
  PROVE  TechniquesOf(b) \subseteq CATALOGUE
<1>1. CASE b \in RuleLabels
  <2>1. RuleTechnique[b] \in CATALOGUE
    BY <1>1, RuleTechniqueType
  <2> HIDE DEF RuleLabels, CATALOGUE, RuleTechnique
  <2>2. b \notin {"common_credential_use", "brute_force", "repeat_offender",
                  "known_malicious_source", "post_auth_activity"}
    BY <1>1 DEF RuleLabels, RuleTechnique
  <2>3. TechniquesOf(b) = {RuleTechnique[b]}
    BY <1>1, <2>2 DEF TechniquesOf
  <2> QED
    BY <2>1, <2>3
<1>2. CASE b \notin RuleLabels
  <2>1. b \in {"common_credential_use", "brute_force", "repeat_offender",
               "known_malicious_source", "post_auth_activity"}
    BY <1>2 DEF behaviors
  <2> QED
    BY <1>2, <2>1 DEF TechniquesOf, CATALOGUE
<1> QED
  BY <1>1, <1>2

\* What process() gets from detect() and score() fits the columns.
LEMMA AssessType ==
  ASSUME NEW e, NEW n, NEW m, NEW g
  PROVE  /\ Assess(e, n, m, g).score \in RiskScores
         /\ Assess(e, n, m, g).techniques \subseteq Techniques
<1>1. techniques(behaviors(e, n, m)) \subseteq Techniques
  BY BehaviourTechniques DEF techniques, Techniques
<1>2. score(reasons(e, n, m, g, behaviors(e, n, m))) \in RiskScores
  BY ScoreType
<1> QED
  BY <1>1, <1>2 DEF Assess

\* A resolved address has a country, if only the absent one.
LEMMA EnrichType ==
  ASSUME NEW i \in IPs, NEW r \in BOOLEAN
  PROVE  enrich(i, r) \in Geo
BY DEF enrich, Geo, Countries, LocalCountry, NoCountry

---------------------------------------------------------------------------
(* Type correctness.  A prior count is a number only because the attack    *)
(* table is finite, and an UPDATE writes a whole row only because the      *)
(* incident that was found is still there: both are part of the induction. *)

LEMMA InitType == Init => TypeInv
<1> SUFFICES ASSUME Init PROVE TypeInv
  OBVIOUS
<1>1. PICK seeded \in SUBSET SeedIPs :
        /\ attacks = {SeedAttack(i) : i \in seeded}
        /\ \E st \in [seeded -> Statuses] :
             incidents = [i \in seeded |-> SeedIncident(i, st[i])]
  BY DEF Init
<1>2. seeded \subseteq IPs
  BY SeedAssumption
<1>3. attacks \subseteq Attack
  <2>1. \A i \in seeded : SeedAttack(i) \in Attack
    BY <1>2, SeedAssumption DEF SeedAttack, Attack, RowIds, RiskScores
  <2> QED
    BY <1>1, <2>1
<1>4. /\ DOMAIN incidents \subseteq RowIds
      /\ \A n \in DOMAIN incidents : incidents[n] \in Incident
  <2>1. PICK st \in [seeded -> Statuses] :
          incidents = [i \in seeded |-> SeedIncident(i, st[i])]
    BY <1>1
  <2>2. \A i \in seeded : SeedIncident(i, st[i]) \in Incident
    BY <1>2, SeedAssumption DEF SeedIncident, Incident, Countries, RiskScores
  <2> QED
    BY <1>2, <2>1, <2>2 DEF RowIds
<1>5. IsFiniteSet(attacks)
  <2>1. IsFiniteSet(seeded)
    BY <1>2, IPsAssumption, FS_Subset
  <2> DEFINE f == [i \in seeded |-> SeedAttack(i)]
  <2>2. f \in Surjection(seeded, attacks)
    BY <1>1 DEF Surjection
  <2> QED
    BY <2>1, <2>2, FS_Surjection
<1> QED
  BY <1>3, <1>4, <1>5
     DEF Init, TypeInv, TypeOK, FoundIsStored, PCs, Running, InTransaction

\* The thread of a settled session keeps no locals, and the other threads
\* keep theirs.
LEMMA EndThreadType ==
  ASSUME TypeOK, NEW s \in Sessions, NEW o \in Settled, EndThread(s, o)
  PROVE  /\ pc' \in [Sessions -> PCs]
         /\ capture' \in [Sessions -> Capture \cup {None}]
         /\ txn' \in [Sessions -> Txn \cup {None}]
         /\ known' \in [Sessions -> SUBSET Attack]
         /\ \A t \in Sessions :
              /\ pc'[t] \in Running => capture'[t] \in Capture
              /\ pc'[t] \in InTransaction \cup {"publish"} => txn'[t] \in Txn
              /\ pc'[t] \in {"flush", "commit", "publish"} => txn'[t].row \in Incident
<1> USE DEF TypeOK
<1>1. o \notin Running /\ o \notin InTransaction \cup {"publish"} /\ o \in PCs
  BY DEF Settled, Running, InTransaction, PCs
<1>2. /\ pc' \in [Sessions -> PCs]
      /\ capture' \in [Sessions -> Capture \cup {None}]
      /\ txn' \in [Sessions -> Txn \cup {None}]
      /\ known' \in [Sessions -> SUBSET Attack]
  BY <1>1 DEF EndThread
<1>3. ASSUME NEW t \in Sessions
      PROVE  /\ pc'[t] \in Running => capture'[t] \in Capture
             /\ pc'[t] \in InTransaction \cup {"publish"} => txn'[t] \in Txn
             /\ pc'[t] \in {"flush", "commit", "publish"} => txn'[t].row \in Incident
  <2>1. CASE t = s
    BY <1>1, <2>1 DEF EndThread, InTransaction
  <2>2. CASE t # s
    <3>1. pc'[t] = pc[t] /\ capture'[t] = capture[t] /\ txn'[t] = txn[t]
      BY <2>2 DEF EndThread
    <3> QED
      BY <3>1
  <2> QED
    BY <2>1, <2>2
<1> QED
  BY <1>2, <1>3

LEMMA NewIncidentType ==
  ASSUME NEW s \in Sessions, capture[s] \in Capture, txn[s] \in Txn
  PROVE  NewIncident(s) \in Incident
BY DEF NewIncident, Incident, Capture, Txn, Geo, ip, ts, Country, Statuses,
       RiskScores, Techniques

LEMMA CorrelatedType ==
  ASSUME NEW s \in Sessions, capture[s] \in Capture, txn[s] \in Txn,
         NEW row \in Incident
  PROVE  Correlated(row, s) \in Incident
<1>1. Attempts(capture[s].evidence.auth_attempts) \in Nat
  BY DEF Attempts, Capture, Evidence
<1>2. Max2(row.max_risk_score, txn[s].score) \in RiskScores
  BY DEF Max2, Incident, Txn, RiskScores
<1>3. Country(s) \in Countries /\ ts(s) \in Nat /\ txn[s].techniques \subseteq Techniques
  BY DEF Country, ts, Capture, Txn, Geo
<1> DEFINE attempts == row.attempt_count + Attempts(capture[s].evidence.auth_attempts)
           worst    == Max2(row.max_risk_score, txn[s].score)
           country  == IF row.country = NoCountry THEN Country(s) ELSE row.country
           seen     == row.techniques \cup txn[s].techniques
<1>4. attempts \in Nat /\ country \in Countries /\ seen \subseteq Techniques
  BY <1>1, <1>3 DEF Incident
<1>5. Correlated(row, s) =
        [ [ [ [ [row EXCEPT !.last_seen = ts(s)] EXCEPT !.attempt_count = attempts]
            EXCEPT !.max_risk_score = worst] EXCEPT !.country = country]
          EXCEPT !.techniques = seen ]
  BY DEF Correlated, Incident
<1> HIDE DEF attempts, worst, country, seen
<1> QED
  BY <1>2, <1>3, <1>4, <1>5 DEF Incident, worst

LEMMA UpdatedRowType ==
  ASSUME NEW a \in Incident, NEW b \in Incident, NEW c \in Incident
  PROVE  UpdatedRow(a, b, c) \in Incident
BY DEF UpdatedRow, Column, Incident

\* What a commit writes fits the tables.
LEMMA ApplyType ==
  ASSUME TypeInv, NEW s \in Sessions, pc[s] = "commit", Apply(s)
  PROVE  /\ attacks' \subseteq Attack /\ IsFiniteSet(attacks')
         /\ DOMAIN incidents' \subseteq RowIds
         /\ \A n \in DOMAIN incidents' : incidents'[n] \in Incident
<1>1. capture[s] \in Capture /\ txn[s] \in Txn /\ txn[s].row \in Incident
  BY DEF TypeInv, TypeOK, Running, InTransaction
<1>2. IncidentId(s) \in RowIds
  BY <1>1, NoneAssumption DEF IncidentId, RowIds, Txn
<1>3. AttackRow(s) \in Attack
  BY <1>1, <1>2 DEF AttackRow, Attack, ip, ts, Capture, Evidence, Txn, RowIds
<1>4. IncidentWrite(s) \in Incident
  <2>1. Correlated(txn[s].row, s) \in Incident
    BY <1>1, CorrelatedType
  <2>2. CASE txn[s].found = None
    BY <2>1, <2>2 DEF IncidentWrite
  <2>3. CASE txn[s].found # None
    <3>1. incidents[txn[s].found] \in Incident
      BY <2>3 DEF TypeInv, TypeOK, FoundIsStored
    <3> QED
      BY <1>1, <2>1, <2>3, <3>1, UpdatedRowType DEF IncidentWrite
  <2> QED
    BY <2>2, <2>3
<1>5. attacks' \subseteq Attack /\ IsFiniteSet(attacks')
  BY <1>3, FS_AddElement DEF Apply, TypeInv, TypeOK
<1>6. DOMAIN incidents' \subseteq RowIds
  BY <1>2 DEF Apply, TypeInv, TypeOK
<1>7. \A n \in DOMAIN incidents' : incidents'[n] \in Incident
  BY <1>4 DEF Apply, TypeInv, TypeOK
<1> QED
  BY <1>5, <1>6, <1>7

\* A step that ends the thread of s and grows the tables keeps FoundIsStored.
LEMMA EndThreadFound ==
  ASSUME TypeInv, NEW s \in Sessions, NEW o \in Settled, EndThread(s, o),
         DOMAIN incidents \subseteq DOMAIN incidents'
  PROVE  FoundIsStored'
<1> SUFFICES ASSUME NEW t \in Sessions,
                    pc'[t] \in {"flush", "commit", "publish"}, txn'[t].found # None
             PROVE  txn'[t].found \in DOMAIN incidents'
  BY DEF FoundIsStored
<1>1. t # s
  BY DEF EndThread, Settled, TypeInv, TypeOK
<1>2. pc'[t] = pc[t] /\ txn'[t] = txn[t]
  BY <1>1 DEF EndThread, TypeInv, TypeOK
<1> QED
  BY <1>2 DEF TypeInv, FoundIsStored

LEMMA ConnectType ==
  ASSUME TypeInv, NEW s \in Sessions, NEW i \in IPs, Connect(s, i)
  PROVE  TypeInv'
<1> USE DEF TypeInv, TypeOK, Connect
<1>1. [source_ip |-> i, timestamp |-> clock, evidence |-> NoEvidence] \in Capture
  BY DEF Capture, Evidence, NoEvidence, Usernames
<1>2. /\ pc' \in [Sessions -> PCs]
      /\ capture' \in [Sessions -> Capture \cup {None}]
      /\ known' \in [Sessions -> SUBSET Attack]
  BY <1>1 DEF PCs, Running
<1>3. ASSUME NEW t \in Sessions
      PROVE  /\ pc'[t] \in Running => capture'[t] \in Capture
             /\ pc'[t] \in InTransaction \cup {"publish"} => txn'[t] \in Txn
             /\ pc'[t] \in {"flush", "commit", "publish"} => txn'[t].row \in Incident
  BY <1>1 DEF InTransaction
<1>4. FoundIsStored'
  BY DEF FoundIsStored
<1> QED
  BY <1>2, <1>3, <1>4

LEMMA StartIngestType ==
  ASSUME TypeInv, NEW s \in Sessions, NEW e \in Inputs, StartIngest(s, e)
  PROVE  TypeInv'
<1> USE DEF TypeInv, TypeOK, StartIngest
<1>1. capture[s] \in Capture
  BY DEF Running
<1>2. [capture[s] EXCEPT !.evidence = e] \in Capture
  BY <1>1, InputsAssumption DEF Capture
<1>3. enrich(ip(s), proc = "up") \in Geo
  BY <1>1, EnrichType DEF ip, Capture
<1>4. [ geo |-> enrich(ip(s), proc = "up"), prior |-> 0, score |-> 0,
        techniques |-> {}, found |-> None, row |-> None ] \in Txn
  BY <1>3 DEF Txn, RiskScores
<1>5. /\ pc' \in [Sessions -> PCs]
      /\ capture' \in [Sessions -> Capture \cup {None}]
      /\ txn' \in [Sessions -> Txn \cup {None}]
  BY <1>2, <1>4 DEF PCs, Running, InTransaction
<1>6. ASSUME NEW t \in Sessions
      PROVE  /\ pc'[t] \in Running => capture'[t] \in Capture
             /\ pc'[t] \in InTransaction \cup {"publish"} => txn'[t] \in Txn
             /\ pc'[t] \in {"flush", "commit", "publish"} => txn'[t].row \in Incident
  BY <1>2, <1>4
<1>7. FoundIsStored'
  BY DEF FoundIsStored
<1> QED
  BY <1>5, <1>6, <1>7

LEMMA CountPriorType ==
  ASSUME TypeInv, NEW s \in Sessions, CountPrior(s)
  PROVE  TypeInv'
<1> USE DEF TypeInv, TypeOK
<1> DEFINE n == Cardinality(CountedRows(s))
           risk == Assess(capture[s].evidence, n, is_malicious(ip(s)), txn[s].geo)
           new == [txn[s] EXCEPT !.prior = n, !.score = risk.score,
                                 !.techniques = risk.techniques]
<1>1. pc[s] = "count" /\ txn[s] \in Txn
  BY DEF CountPrior, InTransaction
<1>2. n \in Nat
  <2>1. CountedRows(s) \subseteq attacks
    BY DEF CountedRows, PriorRows
  <2> QED
    BY <2>1, FS_Subset, FS_CardinalityType
<1>3. risk.score \in RiskScores /\ risk.techniques \subseteq Techniques
  BY AssessType
<1>4. /\ pc' = [pc EXCEPT ![s] = "select"] /\ txn' = [txn EXCEPT ![s] = new]
      /\ UNCHANGED <<clock, proc, capture, attacks, incidents, published, known>>
  BY DEF CountPrior
<1>5. new \in Txn
  <2> HIDE DEF n, risk
  <2> QED
    BY <1>1, <1>2, <1>3 DEF Txn
<1> HIDE DEF new
<1>6. /\ pc' \in [Sessions -> PCs]
      /\ txn' \in [Sessions -> Txn \cup {None}]
  BY <1>4, <1>5 DEF PCs, Running, InTransaction
<1>7. ASSUME NEW t \in Sessions
      PROVE  /\ pc'[t] \in Running => capture'[t] \in Capture
             /\ pc'[t] \in InTransaction \cup {"publish"} => txn'[t] \in Txn
             /\ pc'[t] \in {"flush", "commit", "publish"} => txn'[t].row \in Incident
  BY <1>1, <1>4, <1>5 DEF Running, InTransaction
<1>8. FoundIsStored'
  BY <1>4 DEF FoundIsStored
<1> QED
  BY <1>4, <1>6, <1>7, <1>8

LEMMA SelectIncidentType ==
  ASSUME TypeInv, NEW s \in Sessions, SelectIncident(s)
  PROVE  TypeInv'
<1> USE DEF TypeInv, TypeOK
<1>1. pc[s] = "select" /\ txn[s] \in Txn /\ capture[s] \in Capture
  BY DEF SelectIncident, InTransaction, Running
<1>2. PICK f \in RowIds \cup {None}, r \in Incident :
        /\ txn' = [txn EXCEPT ![s].found = f, ![s].row = r]
        /\ f # None => f \in DOMAIN incidents
  <2>1. CASE txn' = [txn EXCEPT ![s].found = None, ![s].row = NewIncident(s)]
    BY <1>1, <2>1, NewIncidentType
  <2>2. CASE \E n \in OpenIncidents(ip(s)) :
               txn' = [txn EXCEPT ![s].found = n, ![s].row = incidents[n]]
    BY <2>2 DEF OpenIncidents
  <2> QED
    BY <2>1, <2>2 DEF SelectIncident
<1> DEFINE new == [txn[s] EXCEPT !.found = f, !.row = r]
<1>3. txn' = [txn EXCEPT ![s] = new]
  BY <1>2
<1>4. new \in Txn /\ new.row \in Incident /\ new.found = f
  BY <1>1 DEF Txn
<1> HIDE DEF new
<1>5. /\ pc' = [pc EXCEPT ![s] = "flush"]
      /\ UNCHANGED <<clock, proc, capture, attacks, incidents, published, known>>
  BY DEF SelectIncident
<1>6. /\ pc' \in [Sessions -> PCs]
      /\ txn' \in [Sessions -> Txn \cup {None}]
  BY <1>3, <1>4, <1>5 DEF PCs, Running, InTransaction
<1>7. ASSUME NEW t \in Sessions
      PROVE  /\ pc'[t] \in Running => capture'[t] \in Capture
             /\ pc'[t] \in InTransaction \cup {"publish"} => txn'[t] \in Txn
             /\ pc'[t] \in {"flush", "commit", "publish"} => txn'[t].row \in Incident
  BY <1>1, <1>3, <1>4, <1>5 DEF Running, InTransaction
<1>8. FoundIsStored'
  BY <1>2, <1>3, <1>4, <1>5 DEF FoundIsStored
<1> QED
  BY <1>5, <1>6, <1>7, <1>8

LEMMA FlushType ==
  ASSUME TypeInv, NEW s \in Sessions, Flush(s)
  PROVE  TypeInv'
<1> USE DEF TypeInv, TypeOK, Flush
<1>1. pc' \in [Sessions -> PCs]
  BY DEF PCs, Running, InTransaction
<1>2. ASSUME NEW t \in Sessions
      PROVE  /\ pc'[t] \in Running => capture'[t] \in Capture
             /\ pc'[t] \in InTransaction \cup {"publish"} => txn'[t] \in Txn
             /\ pc'[t] \in {"flush", "commit", "publish"} => txn'[t].row \in Incident
  BY DEF Running, InTransaction
<1>3. FoundIsStored'
  BY DEF FoundIsStored
<1> QED
  BY <1>1, <1>2, <1>3

LEMMA CommitType ==
  ASSUME TypeInv, NEW s \in Sessions, Commit(s)
  PROVE  TypeInv'
<1> USE DEF TypeInv, TypeOK
<1>1. /\ attacks' \subseteq Attack /\ IsFiniteSet(attacks')
      /\ DOMAIN incidents' \subseteq RowIds
      /\ \A n \in DOMAIN incidents' : incidents'[n] \in Incident
  BY ApplyType DEF Commit
<1>2. DOMAIN incidents \subseteq DOMAIN incidents'
  BY DEF Commit, Apply
<1>3. /\ pc[s] = "commit" /\ pc' = [pc EXCEPT ![s] = "publish"]
      /\ UNCHANGED <<clock, proc, capture, txn, published, known>>
  BY DEF Commit
<1>4. pc' \in [Sessions -> PCs]
  BY <1>3 DEF PCs, Running, InTransaction
<1>5. ASSUME NEW t \in Sessions
      PROVE  /\ pc'[t] \in Running => capture'[t] \in Capture
             /\ pc'[t] \in InTransaction \cup {"publish"} => txn'[t] \in Txn
             /\ pc'[t] \in {"flush", "commit", "publish"} => txn'[t].row \in Incident
  BY <1>3 DEF Running, InTransaction
<1>6. FoundIsStored'
  BY <1>2, <1>3 DEF FoundIsStored
<1> QED
  BY <1>1, <1>3, <1>4, <1>5, <1>6

LEMMA CommitUnacknowledgedType ==
  ASSUME TypeInv, NEW s \in Sessions, CommitUnacknowledged(s)
  PROVE  TypeInv'
<1>1. EndThread(s, "failed") /\ "failed" \in Settled /\ pc[s] = "commit" /\ Apply(s)
  BY DEF CommitUnacknowledged, Settled
<1>2. DOMAIN incidents \subseteq DOMAIN incidents'
  BY <1>1 DEF Apply
<1>3. FoundIsStored'
  BY <1>1, <1>2, EndThreadFound
<1> QED
  BY <1>1, <1>3, EndThreadType, ApplyType DEF CommitUnacknowledged, TypeInv, TypeOK

LEMMA RollbackType ==
  ASSUME TypeInv, NEW s \in Sessions, Rollback(s)
  PROVE  TypeInv'
<1>1. EndThread(s, "failed") /\ "failed" \in Settled
  BY DEF Rollback, Settled
<1>2. FoundIsStored'
  BY <1>1, EndThreadFound DEF Rollback
<1> QED
  BY <1>1, <1>2, EndThreadType DEF Rollback, TypeInv, TypeOK

LEMMA PublishType ==
  ASSUME TypeInv, NEW s \in Sessions, Publish(s) \/ PublishFails(s)
  PROVE  TypeInv'
<1>1. EndThread(s, "done") /\ "done" \in Settled
      /\ UNCHANGED <<clock, proc, attacks, incidents>>
  BY DEF Publish, PublishFails, Settled
<1>2. FoundIsStored'
  BY <1>1, EndThreadFound
<1>3. published' \subseteq Attack
  <2>1. CASE PublishFails(s)
    BY <2>1 DEF PublishFails, TypeInv, TypeOK
  <2>2. CASE Publish(s)
    <3>1. pc[s] = "publish" /\ txn[s] \in Txn /\ capture[s] \in Capture
      BY <2>2 DEF Publish, TypeInv, TypeOK, Running
    <3>2. IncidentId(s) \in RowIds
      BY <3>1 DEF IncidentId, RowIds, Txn
    <3>3. AttackRow(s) \in Attack
      BY <3>1, <3>2 DEF AttackRow, Attack, ip, ts, Capture, Evidence, Txn, RowIds
    <3> QED
      BY <2>2, <3>3 DEF Publish, TypeInv, TypeOK
  <2> QED
    BY <2>1, <2>2
<1> QED
  BY <1>1, <1>2, <1>3, EndThreadType DEF TypeInv, TypeOK

LEMMA ProcessType ==
  ASSUME TypeInv, Tick \/ Shutdown \/ Exit \/ Restart \/ UNCHANGED vars
  PROVE  TypeInv'
<1> USE DEF TypeInv, TypeOK, FoundIsStored
<1>1. CASE Tick
  BY <1>1 DEF Tick
<1>2. CASE Shutdown
  BY <1>2 DEF Shutdown
<1>3. CASE Exit
  <2>1. pc' \in [Sessions -> PCs \ Running]
    BY <1>3 DEF Exit, PCs, Settled, Running, InTransaction
  <2>2. \A t \in Sessions : pc'[t] \notin Running
    BY <2>1
  <2> QED
    BY <1>3, <2>1, <2>2 DEF Exit, Running, InTransaction
<1>4. CASE Restart
  BY <1>4 DEF Restart
<1>5. CASE UNCHANGED vars
  BY <1>5 DEF vars
<1> QED
  BY <1>1, <1>2, <1>3, <1>4, <1>5

LEMMA StepType == TypeInv /\ [Next]_vars => TypeInv'
<1> SUFFICES ASSUME TypeInv, [Next]_vars PROVE TypeInv'
  OBVIOUS
<1>1. ASSUME NEW s \in Sessions, NEW i \in IPs, Connect(s, i) PROVE TypeInv'
  BY <1>1, ConnectType
<1>2. ASSUME NEW s \in Sessions, NEW e \in Inputs, StartIngest(s, e) PROVE TypeInv'
  BY <1>2, StartIngestType
<1>3. ASSUME NEW s \in Sessions, Worker(s) PROVE TypeInv'
  BY <1>3, CountPriorType, SelectIncidentType, FlushType, CommitType,
     CommitUnacknowledgedType, RollbackType, PublishType DEF Worker, Progress
<1>4. CASE Tick \/ Shutdown \/ Exit \/ Restart \/ UNCHANGED vars
  BY <1>4, ProcessType
<1> QED
  BY <1>1, <1>2, <1>3, <1>4 DEF Next

\* Every reachable state is well typed, whatever the risk configuration: the
\* scores and levels that reach the tables stay within their ranges.
THEOREM TypeCorrect == Spec => []TypeOK
<1>1. Init => TypeInv
  BY InitType
<1>2. TypeInv /\ [Next]_vars => TypeInv'
  BY StepType
<1>3. TypeInv => TypeOK
  BY DEF TypeInv
<1> QED
  BY <1>1, <1>2, <1>3, PTL DEF Spec

---------------------------------------------------------------------------
(* What the interleaving of sessions cannot break: grouping, evidence,     *)
(* incident identity, publication and history, for every set of sessions.  *)
(*                                                                         *)
(* Only a commit writes the tables, and only a SELECT gives a thread a new *)
(* incident object.  Every other step is quiet: it leaves the tables alone *)
(* and no thread gains a claim about them.                                 *)

\* Thread t claims nothing after the step that it did not claim before.
Steady(t) ==
  /\ pc'[t] \in Loaded => /\ pc[t] \in Loaded
                          /\ txn'[t] = txn[t] /\ capture'[t] = capture[t]
  /\ pc'[t] \in Unstored => pc[t] \in Unstored
  /\ pc'[t] = "publish" => pc[t] = "publish"
  /\ pc'[t] = "done" => pc[t] \in {"publish", "done"}

Quiet ==
  \/ Tick \/ Shutdown \/ Exit \/ Restart \/ UNCHANGED vars
  \/ \E s \in Sessions :
       \/ \E i \in IPs : Connect(s, i)
       \/ \E e \in Inputs : StartIngest(s, e)
       \/ CountPrior(s) \/ Flush(s) \/ Rollback(s) \/ Publish(s) \/ PublishFails(s)

LEMMA QuietSteady ==
  ASSUME TypeInv, Quiet
  PROVE  UNCHANGED <<attacks, incidents>> /\ \A t \in Sessions : Steady(t)
<1> USE DEF TypeInv, TypeOK, Steady, Loaded, Unstored, InTransaction
<1>1. CASE Tick \/ Shutdown \/ Restart \/ UNCHANGED vars
  BY <1>1 DEF Tick, Shutdown, Restart, vars
<1>2. CASE Exit
  BY <1>2 DEF Exit, Running
<1>3. ASSUME NEW s \in Sessions, NEW i \in IPs, Connect(s, i)
      PROVE  UNCHANGED <<attacks, incidents>> /\ \A t \in Sessions : Steady(t)
  BY <1>3 DEF Connect
<1>4. ASSUME NEW s \in Sessions, NEW e \in Inputs, StartIngest(s, e)
      PROVE  UNCHANGED <<attacks, incidents>> /\ \A t \in Sessions : Steady(t)
  BY <1>4 DEF StartIngest
<1>5. ASSUME NEW s \in Sessions, CountPrior(s)
      PROVE  UNCHANGED <<attacks, incidents>> /\ \A t \in Sessions : Steady(t)
  BY <1>5 DEF CountPrior
<1>6. ASSUME NEW s \in Sessions, Flush(s)
      PROVE  UNCHANGED <<attacks, incidents>> /\ \A t \in Sessions : Steady(t)
  BY <1>6 DEF Flush
<1>7. ASSUME NEW s \in Sessions, Rollback(s) \/ Publish(s) \/ PublishFails(s)
      PROVE  UNCHANGED <<attacks, incidents>> /\ \A t \in Sessions : Steady(t)
  BY <1>7 DEF Rollback, Publish, PublishFails, EndThread
<1> QED
  BY <1>1, <1>2, <1>3, <1>4, <1>5, <1>6, <1>7 DEF Quiet

\* The steps that are not quiet.
LEMMA NextCases ==
  ASSUME [Next]_vars
  PROVE  \/ Quiet
         \/ \E s \in Sessions : \/ SelectIncident(s)
                                \/ Commit(s) \/ CommitUnacknowledged(s)
BY DEF Next, Worker, Progress, Quiet

\* A commit of s leaves every other thread as it was, and s without an
\* uncommitted transaction.
LEMMA CommitSteady ==
  ASSUME TypeInv, NEW s \in Sessions, Commit(s) \/ CommitUnacknowledged(s)
  PROVE  /\ pc[s] = "commit" /\ Apply(s)
         /\ pc'[s] \in {"publish", "failed"}
         /\ pc'[s] = "publish" => txn'[s] = txn[s] /\ capture'[s] = capture[s]
         /\ \A t \in Sessions \ {s} :
              pc'[t] = pc[t] /\ txn'[t] = txn[t] /\ capture'[t] = capture[t]
BY DEF Commit, CommitUnacknowledged, EndThread, TypeInv, TypeOK

\* A SELECT gives s an incident object, and nothing else to anybody.
LEMMA SelectTxn ==
  ASSUME TypeInv, NEW s \in Sessions, SelectIncident(s)
  PROVE  /\ pc[s] = "select" /\ pc'[s] = "flush"
         /\ txn'[s].geo = txn[s].geo /\ txn'[s].prior = txn[s].prior
         /\ \A t \in Sessions \ {s} : pc'[t] = pc[t] /\ txn'[t] = txn[t]
         /\ UNCHANGED <<capture, attacks, incidents, published, known>>
<1>1. /\ pc[s] = "select" /\ txn[s] \in Txn
      /\ txn \in [Sessions -> Txn \cup {None}] /\ pc \in [Sessions -> PCs]
  BY DEF SelectIncident, TypeInv, TypeOK, InTransaction
<1>2. ASSUME NEW f, NEW r, txn' = [txn EXCEPT ![s].found = f, ![s].row = r]
      PROVE  /\ txn'[s].geo = txn[s].geo /\ txn'[s].prior = txn[s].prior
             /\ \A t \in Sessions \ {s} : txn'[t] = txn[t]
  BY <1>1, <1>2 DEF Txn
<1>3. CASE txn' = [txn EXCEPT ![s].found = None, ![s].row = NewIncident(s)]
  BY <1>1, <1>2, <1>3 DEF SelectIncident
<1>4. ASSUME NEW n \in OpenIncidents(ip(s)),
             txn' = [txn EXCEPT ![s].found = n, ![s].row = incidents[n]]
      PROVE  /\ txn'[s].geo = txn[s].geo /\ txn'[s].prior = txn[s].prior
             /\ \A t \in Sessions \ {s} : txn'[t] = txn[t]
  BY <1>2, <1>4
<1> QED
  BY <1>1, <1>2, <1>3, <1>4 DEF SelectIncident

---------------------------------------------------------------------------
(* What one commit does to the incident table, whatever the incident has   *)
(* become since the thread loaded it.                                      *)

LEMMA CommitTypes ==
  ASSUME TypeInv, NEW s \in Sessions, pc[s] = "commit"
  PROVE  /\ capture[s] \in Capture /\ txn[s] \in Txn /\ txn[s].row \in Incident
         /\ txn[s].found # None => /\ txn[s].found \in DOMAIN incidents
                                   /\ incidents[txn[s].found] \in Incident
BY DEF TypeInv, TypeOK, FoundIsStored, Running, InTransaction

\* correlate() never assigns the identity columns of a row.
LEMMA CorrelatedFields ==
  ASSUME NEW s \in Sessions, NEW row \in Incident
  PROVE  LET new == Correlated(row, s) IN
           /\ new.source_ip = row.source_ip
           /\ new.first_seen = row.first_seen
           /\ new.status = row.status
           /\ new.last_seen = ts(s)
           /\ new.attempt_count =
                row.attempt_count + Attempts(capture[s].evidence.auth_attempts)
           /\ new.max_risk_score = Max2(row.max_risk_score, txn[s].score)
           /\ new.techniques = row.techniques \cup txn[s].techniques
           /\ new.country = IF row.country = NoCountry THEN Country(s) ELSE row.country
BY DEF Correlated, Incident

\* An UPDATE keeps the identity columns the row has by now.
LEMMA UpdateFields ==
  ASSUME TypeInv, NEW s \in Sessions, pc[s] = "commit", txn[s].found # None
  PROVE  LET old == incidents[txn[s].found]
             new == IncidentWrite(s)
         IN  /\ new.source_ip = old.source_ip
             /\ new.first_seen = old.first_seen
             /\ new.status = old.status
             /\ new.country = old.country \/ /\ new.country = Country(s)
                                             /\ Country(s) # NoCountry
                                             /\ txn[s].row.country = NoCountry
<1>1. txn[s].row \in Incident
  BY CommitTypes
<1> DEFINE c == Correlated(txn[s].row, s)
<1>2. /\ c.source_ip = txn[s].row.source_ip
      /\ c.first_seen = txn[s].row.first_seen
      /\ c.status = txn[s].row.status
      /\ c.country = IF txn[s].row.country = NoCountry THEN Country(s)
                     ELSE txn[s].row.country
  BY <1>1, CorrelatedFields
<1>3. IncidentWrite(s) = UpdatedRow(incidents[txn[s].found], txn[s].row, c)
  BY DEF IncidentWrite
<1> HIDE DEF c
<1> QED
  BY <1>2, <1>3 DEF UpdatedRow, Column

\* A commit writes one incident, of the session's own source; it is the one
\* it found, or a new one under the session's unused name.
LEMMA ApplySource ==
  ASSUME TypeInv, SourceInv, NEW s \in Sessions, pc[s] = "commit", Apply(s)
  PROVE  /\ attacks' = attacks \cup {AttackRow(s)}
         /\ DOMAIN incidents' = DOMAIN incidents \cup {IncidentId(s)}
         /\ \A n \in DOMAIN incidents : incidents'[n].source_ip = incidents[n].source_ip
         /\ incidents'[IncidentId(s)].source_ip = ip(s)
         /\ \A n \in DOMAIN incidents \ {IncidentId(s)} : incidents'[n] = incidents[n]
         /\ incidents'[IncidentId(s)] = IncidentWrite(s)
         /\ IncidentId(s) \in DOMAIN incidents \cup {s}
<1>1. /\ attacks' = attacks \cup {AttackRow(s)}
      /\ DOMAIN incidents' = DOMAIN incidents \cup {IncidentId(s)}
      /\ \A n \in DOMAIN incidents \ {IncidentId(s)} : incidents'[n] = incidents[n]
      /\ incidents'[IncidentId(s)] = IncidentWrite(s)
  BY DEF Apply
<1>2. txn[s].row \in Incident /\ txn[s].row.source_ip = ip(s)
  BY CommitTypes DEF SourceInv, Loaded
<1>3. CASE txn[s].found = None
  <2>1. IncidentId(s) = s /\ s \notin DOMAIN incidents
    BY <1>3 DEF IncidentId, SourceInv, Unstored, InTransaction
  <2>2. IncidentWrite(s).source_ip = ip(s)
    BY <1>2, <1>3, CorrelatedFields DEF IncidentWrite
  <2> QED
    BY <1>1, <2>1, <2>2
<1>4. CASE txn[s].found # None
  <2>1. IncidentId(s) = txn[s].found /\ txn[s].found \in DOMAIN incidents
    BY <1>4, CommitTypes DEF IncidentId
  <2>2. /\ IncidentWrite(s).source_ip = incidents[IncidentId(s)].source_ip
        /\ incidents[IncidentId(s)].source_ip = ip(s)
    BY <1>4, <2>1, UpdateFields DEF SourceInv, Loaded
  <2> QED
    BY <1>1, <2>1, <2>2
<1> QED
  BY <1>3, <1>4

---------------------------------------------------------------------------
(* Grouping by source.                                                     *)

LEMMA SourceQuiet ==
  ASSUME TypeInv, SourceInv, Quiet
  PROVE  SourceInv'
<1>1. UNCHANGED <<attacks, incidents>> /\ \A t \in Sessions : Steady(t)
  BY QuietSteady
<1>2. AttacksGroupedBySource'
  BY <1>1 DEF SourceInv, AttacksGroupedBySource
<1>3. ASSUME NEW t \in Sessions, pc'[t] \in Loaded
      PROVE  /\ txn'[t].row.source_ip = ip(t)'
             /\ txn'[t].found # None => incidents'[txn'[t].found].source_ip = ip(t)'
  BY <1>1, <1>3 DEF SourceInv, Steady, ip
<1>4. ASSUME NEW t \in Sessions, pc'[t] \in Unstored
      PROVE  t \notin DOMAIN incidents' /\ \A a \in attacks' : a.session_id # t
  BY <1>1, <1>4 DEF SourceInv, Steady
<1> QED
  BY <1>2, <1>3, <1>4 DEF SourceInv

LEMMA SourceSelect ==
  ASSUME TypeInv, SourceInv, NEW s \in Sessions, SelectIncident(s)
  PROVE  SourceInv'
<1>1. /\ pc' = [pc EXCEPT ![s] = "flush"]
      /\ UNCHANGED <<capture, attacks, incidents>> /\ pc[s] = "select"
  BY DEF SelectIncident
<1>2. \/ txn' = [txn EXCEPT ![s].found = None, ![s].row = NewIncident(s)]
      \/ \E n \in OpenIncidents(ip(s)) :
           txn' = [txn EXCEPT ![s].found = n, ![s].row = incidents[n]]
  BY DEF SelectIncident
<1>3. txn[s] \in Txn
  BY <1>1 DEF TypeInv, TypeOK, InTransaction
<1>4. /\ txn'[s].row.source_ip = ip(s)
      /\ txn'[s].found # None => incidents[txn'[s].found].source_ip = ip(s)
  <2>1. CASE txn' = [txn EXCEPT ![s].found = None, ![s].row = NewIncident(s)]
    <3>1. txn'[s].row = NewIncident(s) /\ txn'[s].found = None
      BY <1>3, <2>1 DEF TypeInv, TypeOK, Txn
    <3> QED
      BY <3>1 DEF NewIncident
  <2>2. ASSUME NEW n \in OpenIncidents(ip(s)),
               txn' = [txn EXCEPT ![s].found = n, ![s].row = incidents[n]]
        PROVE  /\ txn'[s].row.source_ip = ip(s)
               /\ txn'[s].found # None => incidents[txn'[s].found].source_ip = ip(s)
    <3>1. txn'[s].row = incidents[n] /\ txn'[s].found = n
      BY <1>3, <2>2 DEF TypeInv, TypeOK, Txn
    <3> QED
      BY <3>1 DEF OpenIncidents
  <2> QED
    BY <1>2, <2>1, <2>2
<1>5. \A t \in Sessions \ {s} : pc'[t] = pc[t] /\ txn'[t] = txn[t]
  BY <1>1, <1>2 DEF TypeInv, TypeOK
<1>6. pc[s] \in Unstored /\ ip(s)' = ip(s)
  BY <1>1 DEF Unstored, InTransaction, ip
<1>7. AttacksGroupedBySource'
  BY <1>1 DEF SourceInv, AttacksGroupedBySource
<1>8. ASSUME NEW t \in Sessions, pc'[t] \in Loaded
      PROVE  /\ txn'[t].row.source_ip = ip(t)'
             /\ txn'[t].found # None => incidents'[txn'[t].found].source_ip = ip(t)'
  <2>1. CASE t = s
    BY <1>1, <1>4, <1>6, <2>1
  <2>2. CASE t # s
    BY <1>1, <1>5, <1>8, <2>2 DEF SourceInv, ip
  <2> QED
    BY <2>1, <2>2
<1>9. ASSUME NEW t \in Sessions, pc'[t] \in Unstored
      PROVE  t \notin DOMAIN incidents' /\ \A a \in attacks' : a.session_id # t
  BY <1>1, <1>5, <1>6, <1>9 DEF SourceInv
<1> QED
  BY <1>7, <1>8, <1>9 DEF SourceInv

LEMMA SourceCommit ==
  ASSUME TypeInv, SourceInv, NEW s \in Sessions, Commit(s) \/ CommitUnacknowledged(s)
  PROVE  SourceInv'
<1>1. /\ pc[s] = "commit" /\ Apply(s)
      /\ pc'[s] \in {"publish", "failed"}
      /\ pc'[s] = "publish" => txn'[s] = txn[s] /\ capture'[s] = capture[s]
      /\ \A t \in Sessions \ {s} :
           pc'[t] = pc[t] /\ txn'[t] = txn[t] /\ capture'[t] = capture[t]
  BY CommitSteady
<1>2. /\ attacks' = attacks \cup {AttackRow(s)}
      /\ DOMAIN incidents' = DOMAIN incidents \cup {IncidentId(s)}
      /\ \A n \in DOMAIN incidents : incidents'[n].source_ip = incidents[n].source_ip
      /\ incidents'[IncidentId(s)].source_ip = ip(s)
      /\ IncidentId(s) \in DOMAIN incidents \cup {s}
  BY <1>1, ApplySource
<1>3. /\ AttackRow(s).incident_id = IncidentId(s)
      /\ AttackRow(s).source_ip = ip(s) /\ AttackRow(s).session_id = s
  BY DEF AttackRow
<1>4. AttacksGroupedBySource'
  BY <1>2, <1>3 DEF SourceInv, AttacksGroupedBySource
<1>5. ASSUME NEW t \in Sessions, pc'[t] \in Loaded
      PROVE  /\ txn'[t].row.source_ip = ip(t)'
             /\ txn'[t].found # None => incidents'[txn'[t].found].source_ip = ip(t)'
  <2>1. /\ pc[t] \in Loaded /\ txn'[t] = txn[t] /\ capture'[t] = capture[t]
    BY <1>1, <1>5 DEF Loaded
  <2>2. txn[t].found # None => txn[t].found \in DOMAIN incidents
    BY <2>1 DEF TypeInv, FoundIsStored, Loaded
  <2> QED
    BY <1>2, <2>1, <2>2 DEF SourceInv, ip
<1>6. ASSUME NEW t \in Sessions, pc'[t] \in Unstored
      PROVE  t \notin DOMAIN incidents' /\ \A a \in attacks' : a.session_id # t
  <2>1. t # s /\ pc[t] \in Unstored
    BY <1>1, <1>6 DEF Unstored, InTransaction
  <2> QED
    BY <1>2, <1>3, <2>1 DEF SourceInv
<1> QED
  BY <1>4, <1>5, <1>6 DEF SourceInv

LEMMA SourceInit == Init => SourceInv
<1> SUFFICES ASSUME Init PROVE SourceInv
  OBVIOUS
<1>1. PICK seeded \in SUBSET SeedIPs :
        /\ attacks = {SeedAttack(i) : i \in seeded}
        /\ \E st \in [seeded -> Statuses] :
             incidents = [i \in seeded |-> SeedIncident(i, st[i])]
  BY DEF Init
<1>2. \A i \in seeded : i \notin Sessions
  BY SeedAssumption, SessionsAssumption
<1>3. AttacksGroupedBySource
  BY <1>1 DEF AttacksGroupedBySource, SeedAttack, SeedIncident
<1>4. \A s \in Sessions : s \notin DOMAIN incidents /\ \A a \in attacks : a.session_id # s
  BY <1>1, <1>2 DEF SeedAttack
<1>5. \A s \in Sessions : pc[s] \notin Loaded
  BY DEF Init, Loaded
<1> QED
  BY <1>3, <1>4, <1>5 DEF SourceInv

LEMMA SourceStep == TypeInv /\ SourceInv /\ [Next]_vars => SourceInv'
BY NextCases, SourceQuiet, SourceSelect, SourceCommit

LEMMA SourceCorrect == Spec => [](TypeInv /\ SourceInv)
<1>1. Init => TypeInv /\ SourceInv
  BY InitType, SourceInit
<1>2. (TypeInv /\ SourceInv) /\ [Next]_vars => (TypeInv /\ SourceInv)'
  BY StepType, SourceStep
<1> QED
  BY <1>1, <1>2, PTL DEF Spec

\* However the sessions interleave, a stored attack is linked to a stored
\* incident of its own source (pipeline.process, IncidentEngine.correlate).
THEOREM GroupedBySource == Spec => []AttacksGroupedBySource
<1>1. TypeInv /\ SourceInv => AttacksGroupedBySource
  BY DEF SourceInv
<1> QED
  BY <1>1, SourceCorrect, PTL

---------------------------------------------------------------------------
(* Stored attacks stay.                                                    *)

LEMMA AttacksGrow ==
  ASSUME TypeInv, [Next]_vars
  PROVE  attacks \subseteq attacks'
<1>1. CASE Quiet
  BY <1>1, QuietSteady
<1>2. ASSUME NEW s \in Sessions,
             SelectIncident(s) \/ Commit(s) \/ CommitUnacknowledged(s)
      PROVE  attacks \subseteq attacks'
  BY <1>2 DEF SelectIncident, Commit, CommitUnacknowledged, Apply
<1> QED
  BY <1>1, <1>2, NextCases

---------------------------------------------------------------------------
(* Publication.                                                            *)

LEMMA StoredInit == Init => StoredInv
BY DEF Init, StoredInv, PublishedIsStored

\* A commit puts the row of s where its callback will look for it.
LEMMA StoredCommit ==
  ASSUME TypeInv, StoredInv, NEW s \in Sessions, Commit(s) \/ CommitUnacknowledged(s)
  PROVE  StoredInv'
<1>1. /\ pc'[s] \in {"publish", "failed"}
      /\ pc'[s] = "publish" => txn'[s] = txn[s] /\ capture'[s] = capture[s]
      /\ \A t \in Sessions \ {s} :
           pc'[t] = pc[t] /\ txn'[t] = txn[t] /\ capture'[t] = capture[t]
  BY CommitSteady
<1>2. /\ attacks' = attacks \cup {AttackRow(s)} /\ published' = published
      /\ AttackRow(s).session_id = s
  BY DEF Commit, CommitUnacknowledged, Apply, AttackRow
<1>3. \A t \in Sessions : pc'[t] = "publish" => AttackRow(t)' \in attacks'
  BY <1>1, <1>2 DEF StoredInv, AttackRow, ip, ts, IncidentId
<1>4. \A t \in Sessions : pc'[t] \in {"publish", "done"} =>
        \E a \in attacks' : a.session_id = t
  BY <1>1, <1>2 DEF StoredInv, PublishedIsStored
<1> QED
  BY <1>2, <1>3, <1>4 DEF StoredInv, PublishedIsStored

LEMMA StoredStep == TypeInv /\ StoredInv /\ [Next]_vars => StoredInv'
<1> SUFFICES ASSUME TypeInv, StoredInv, [Next]_vars PROVE StoredInv'
  OBVIOUS
<1>1. CASE Quiet
  <2>1. UNCHANGED <<attacks, incidents>> /\ \A t \in Sessions : Steady(t)
    BY <1>1, QuietSteady
  <2>2. published' \subseteq attacks'
    <3>1. published' = published
          \/ \E s \in Sessions : pc[s] = "publish" /\ published' = published \cup {AttackRow(s)}
      BY <1>1 DEF Quiet, Tick, Shutdown, Exit, Restart, vars, Connect, StartIngest,
                  CountPrior, Flush, Rollback, Publish, PublishFails
    <3> QED
      BY <2>1, <3>1 DEF StoredInv, PublishedIsStored
  <2>3. \A t \in Sessions : pc'[t] = "publish" => AttackRow(t)' \in attacks'
    BY <2>1 DEF StoredInv, Steady, Loaded, AttackRow, ip, ts, IncidentId
  <2>4. \A t \in Sessions : pc'[t] \in {"publish", "done"} =>
          \E a \in attacks' : a.session_id = t
    BY <2>1 DEF StoredInv, PublishedIsStored, Steady
  <2> QED
    BY <2>2, <2>3, <2>4 DEF StoredInv, PublishedIsStored
<1>2. ASSUME NEW s \in Sessions, SelectIncident(s)
      PROVE  StoredInv'
  <2>1. /\ UNCHANGED <<attacks, published>>
        /\ pc'[s] = "flush"
        /\ \A t \in Sessions \ {s} :
             pc'[t] = pc[t] /\ txn'[t] = txn[t] /\ capture'[t] = capture[t]
    BY <1>2 DEF SelectIncident, TypeInv, TypeOK
  <2> QED
    BY <2>1 DEF StoredInv, PublishedIsStored, AttackRow, ip, ts, IncidentId
<1>3. ASSUME NEW s \in Sessions, Commit(s) \/ CommitUnacknowledged(s)
      PROVE  StoredInv'
  BY <1>3, StoredCommit
<1> QED
  BY <1>1, <1>2, <1>3, NextCases

LEMMA StoredCorrect == Spec => [](TypeInv /\ StoredInv)
<1>1. Init => TypeInv /\ StoredInv
  BY InitType, StoredInit
<1>2. (TypeInv /\ StoredInv) /\ [Next]_vars => (TypeInv /\ StoredInv)'
  BY StepType, StoredStep
<1> QED
  BY <1>1, <1>2, PTL DEF Spec

\* The dashboard is never told about an attack that is not committed as told.
THEOREM NothingPhantom == Spec => []PublishedIsStored
<1>1. TypeInv /\ StoredInv => PublishedIsStored
  BY DEF StoredInv
<1> QED
  BY <1>1, StoredCorrect, PTL

---------------------------------------------------------------------------
(* Identity of incidents.  Two threads may hold the same incident, loaded  *)
(* at different times, and write it one after the other.                   *)

\* The country a thread writes is the one its address resolves to.
LEMMA GeoStep ==
  ASSUME TypeInv, IdentityInv, [Next]_vars, NEW t \in Sessions, pc'[t] \in InTransaction
  PROVE  Country(t)' \in Resolved(ip(t)')
<1> DEFINE Kept == /\ pc[t] \in InTransaction
                   /\ txn'[t].geo = txn[t].geo /\ capture'[t] = capture[t]
<1> USE DEF TypeInv, TypeOK
<1>1. CASE Kept
  BY <1>1 DEF IdentityInv, Country, ip, Resolved
<1>2. CASE Tick \/ Shutdown \/ Exit \/ Restart \/ UNCHANGED vars
  <2>1. Kept
    BY <1>2 DEF Tick, Shutdown, Exit, Restart, vars, Running, InTransaction
  <2> QED
    BY <1>1, <2>1
<1>3. ASSUME NEW s \in Sessions, NEW i \in IPs, Connect(s, i)
      PROVE  Kept
  BY <1>3 DEF Connect, InTransaction
<1>4. ASSUME NEW s \in Sessions, NEW e \in Inputs, StartIngest(s, e), s # t
      PROVE  Kept
  BY <1>4 DEF StartIngest
<1>5. ASSUME NEW e \in Inputs, StartIngest(t, e)
      PROVE  Country(t)' \in Resolved(ip(t)')
  <2>1. capture[t] \in Capture
    BY <1>5 DEF StartIngest, Running
  <2>2. capture'[t] = [capture[t] EXCEPT !.evidence = e]
    BY <1>5 DEF StartIngest
  <2>3. ip(t)' = ip(t)
    BY <2>1, <2>2 DEF ip, Capture
  <2>4. txn'[t].geo = enrich(ip(t), proc = "up")
    BY <1>5 DEF StartIngest
  <2>5. enrich(ip(t), proc = "up").country \in Resolved(ip(t))
    BY DEF enrich, Resolved
  <2> QED
    BY <2>3, <2>4, <2>5 DEF Country
<1>6. ASSUME NEW s \in Sessions, CountPrior(s)
      PROVE  Kept
  <2>1. pc[s] = "count" /\ txn[s] \in Txn
    BY <1>6 DEF CountPrior, InTransaction
  <2> DEFINE n == Cardinality(CountedRows(s))
             risk == Assess(capture[s].evidence, n, is_malicious(ip(s)), txn[s].geo)
             new == [txn[s] EXCEPT !.prior = n, !.score = risk.score,
                                   !.techniques = risk.techniques]
  <2>2. txn' = [txn EXCEPT ![s] = new]
    BY <1>6 DEF CountPrior
  <2>3. new.geo = txn[s].geo
    BY <2>1 DEF Txn
  <2> HIDE DEF new
  <2> QED
    BY <1>6, <2>1, <2>2, <2>3 DEF CountPrior, InTransaction
<1>7. ASSUME NEW s \in Sessions, Flush(s)
      PROVE  Kept
  BY <1>7 DEF Flush, InTransaction
<1>8. ASSUME NEW s \in Sessions, SelectIncident(s)
      PROVE  Kept
  BY <1>8, SelectTxn DEF InTransaction
<1>9. ASSUME NEW s \in Sessions,
             Rollback(s) \/ Publish(s) \/ PublishFails(s) \/ CommitUnacknowledged(s)
      PROVE  Kept
  BY <1>9 DEF Rollback, Publish, PublishFails, CommitUnacknowledged, EndThread,
              InTransaction
<1>10. ASSUME NEW s \in Sessions, Commit(s)
      PROVE  Kept
  BY <1>10 DEF Commit, InTransaction
<1> QED
  BY <1>1, <1>2, <1>3, <1>4, <1>5, <1>6, <1>7, <1>8, <1>9, <1>10
     DEF Next, Worker, Progress

\* One commit, seen by a thread that holds the same incident.
LEMMA CommitIncident ==
  ASSUME TypeInv, SourceInv, IdentityInv, NEW s \in Sessions,
         pc[s] = "commit", Apply(s), NEW n \in DOMAIN incidents
  PROVE  /\ n \in DOMAIN incidents'
         /\ incidents'[n].source_ip = incidents[n].source_ip
         /\ incidents'[n].first_seen = incidents[n].first_seen
         /\ incidents'[n].status = incidents[n].status
         /\ incidents[n].status = "closed" => incidents'[n] = incidents[n]
         /\ \/ incidents'[n].country = incidents[n].country
            \/ /\ incidents'[n].country \in Resolved(incidents[n].source_ip)
               /\ incidents[n].country \in Resolved(incidents[n].source_ip)
               /\ incidents'[n].country # NoCountry
<1>1. /\ DOMAIN incidents' = DOMAIN incidents \cup {IncidentId(s)}
      /\ \A m \in DOMAIN incidents \ {IncidentId(s)} : incidents'[m] = incidents[m]
      /\ incidents'[IncidentId(s)] = IncidentWrite(s)
  BY ApplySource
<1>2. CASE n # IncidentId(s)
  BY <1>1, <1>2
<1>3. CASE n = IncidentId(s)
  <2>1. txn[s].found = n /\ txn[s].found # None
    <3>1. s \notin DOMAIN incidents
      BY DEF SourceInv, Unstored, InTransaction
    <3> QED
      BY <1>3, <3>1 DEF IncidentId
  <2>2. /\ pc[s] \in Loaded /\ pc[s] \in InTransaction
        /\ incidents[n].source_ip = ip(s)
        /\ incidents[n].status # "closed"
        /\ txn[s].row.country = NoCountry => incidents[n].country \in Resolved(ip(s))
        /\ Country(s) \in Resolved(ip(s))
    BY <2>1 DEF SourceInv, IdentityInv, Loaded, InTransaction
  <2>3. /\ incidents'[n].source_ip = incidents[n].source_ip
        /\ incidents'[n].first_seen = incidents[n].first_seen
        /\ incidents'[n].status = incidents[n].status
        /\ incidents'[n].country = incidents[n].country
             \/ /\ incidents'[n].country = Country(s)
                /\ Country(s) # NoCountry
                /\ txn[s].row.country = NoCountry
    BY <1>1, <1>3, <2>1, UpdateFields
  <2> QED
    BY <1>1, <2>2, <2>3
<1> QED
  BY <1>2, <1>3

LEMMA IdentityInit == Init => IdentityInv
BY DEF Init, IdentityInv, InTransaction, Loaded

LEMMA IdentityStep ==
  TypeInv /\ SourceInv /\ IdentityInv /\ [Next]_vars => IdentityInv'
<1> SUFFICES ASSUME TypeInv, SourceInv, IdentityInv, [Next]_vars,
                    NEW t \in Sessions, pc'[t] \in Loaded, txn'[t].found # None
             PROVE  /\ incidents'[txn'[t].found].status # "closed"
                    /\ txn'[t].row.country = NoCountry =>
                         incidents'[txn'[t].found].country \in Resolved(ip(t)')
  BY GeoStep DEF IdentityInv, Resolved
<1>1. CASE Quiet
  BY <1>1, QuietSteady DEF Steady, IdentityInv, ip, Resolved
<1>2. ASSUME NEW s \in Sessions, SelectIncident(s)
      PROVE  /\ incidents'[txn'[t].found].status # "closed"
             /\ txn'[t].row.country = NoCountry =>
                  incidents'[txn'[t].found].country \in Resolved(ip(t)')
  <2>1. /\ incidents' = incidents /\ capture' = capture
        /\ \A r \in Sessions \ {s} : pc'[r] = pc[r] /\ txn'[r] = txn[r]
    BY <1>2 DEF SelectIncident, TypeInv, TypeOK
  <2>2. CASE t # s
    BY <2>1, <2>2 DEF IdentityInv, ip, Resolved
  <2>3. CASE t = s
    <3>1. txn[s] \in Txn
      BY <1>2 DEF SelectIncident, TypeInv, TypeOK, InTransaction
    <3>2. CASE txn' = [txn EXCEPT ![s].found = None, ![s].row = NewIncident(s)]
      BY <2>3, <3>1, <3>2 DEF TypeInv, TypeOK, Txn
    <3>3. ASSUME NEW n \in OpenIncidents(ip(s)),
                 txn' = [txn EXCEPT ![s].found = n, ![s].row = incidents[n]]
          PROVE  /\ incidents'[txn'[t].found].status # "closed"
                 /\ txn'[t].row.country = NoCountry =>
                      incidents'[txn'[t].found].country \in Resolved(ip(t)')
      <4>1. txn'[t].found = n /\ txn'[t].row = incidents[n]
        BY <2>3, <3>1, <3>3 DEF TypeInv, TypeOK, Txn
      <4> QED
        BY <2>1, <4>1 DEF OpenIncidents, Resolved
    <3> QED
      BY <1>2, <3>2, <3>3 DEF SelectIncident
  <2> QED
    BY <2>2, <2>3
<1>3. ASSUME NEW s \in Sessions, Commit(s) \/ CommitUnacknowledged(s)
      PROVE  /\ incidents'[txn'[t].found].status # "closed"
             /\ txn'[t].row.country = NoCountry =>
                  incidents'[txn'[t].found].country \in Resolved(ip(t)')
  <2>1. pc[s] = "commit" /\ Apply(s)
    BY <1>3, CommitSteady
  <2>2. pc[t] \in Loaded /\ txn'[t] = txn[t] /\ ip(t)' = ip(t)
    <3>1. CASE t = s
      BY <1>3, <3>1, CommitSteady DEF Loaded, ip
    <3>2. CASE t # s
      BY <1>3, <3>2, CommitSteady DEF Loaded, ip
    <3> QED
      BY <3>1, <3>2
  <2> DEFINE n == txn[t].found
  <2>3. /\ n \in DOMAIN incidents /\ incidents[n].source_ip = ip(t)
        /\ incidents[n].status # "closed"
        /\ txn[t].row.country = NoCountry => incidents[n].country \in Resolved(ip(t))
    BY <2>2 DEF TypeInv, FoundIsStored, SourceInv, IdentityInv, Loaded
  <2>4. /\ incidents'[n].status = incidents[n].status
        /\ incidents'[n].country = incidents[n].country
             \/ incidents'[n].country \in Resolved(ip(t))
    BY <2>1, <2>3, CommitIncident
  <2> QED
    BY <2>2, <2>3, <2>4
<1> QED
  BY <1>1, <1>2, <1>3, NextCases

\* The step of IncidentIdentityStable.
LEMMA IdentityKept ==
  ASSUME TypeInv, SourceInv, IdentityInv, [Next]_vars, NEW n \in DOMAIN incidents
  PROVE  /\ n \in DOMAIN incidents'
         /\ incidents'[n].source_ip = incidents[n].source_ip
         /\ incidents'[n].first_seen = incidents[n].first_seen
         /\ incidents'[n].status = incidents[n].status
         /\ incidents[n].country # NoCountry => incidents'[n].country = incidents[n].country
         /\ incidents[n].status = "closed" => incidents'[n] = incidents[n]
<1>1. CASE Quiet
  BY <1>1, QuietSteady
<1>2. ASSUME NEW s \in Sessions, SelectIncident(s)
      PROVE  incidents' = incidents
  BY <1>2 DEF SelectIncident
<1>3. ASSUME NEW s \in Sessions, Commit(s) \/ CommitUnacknowledged(s)
      PROVE  /\ n \in DOMAIN incidents'
             /\ incidents'[n].source_ip = incidents[n].source_ip
             /\ incidents'[n].first_seen = incidents[n].first_seen
             /\ incidents'[n].status = incidents[n].status
             /\ incidents[n].country # NoCountry => incidents'[n].country = incidents[n].country
             /\ incidents[n].status = "closed" => incidents'[n] = incidents[n]
  <2>1. pc[s] = "commit" /\ Apply(s)
    BY <1>3, CommitSteady
  <2> QED
    BY <2>1, CommitIncident DEF Resolved
<1> QED
  BY <1>1, <1>2, <1>3, NextCases

LEMMA IdentityCorrect == Spec => [](TypeInv /\ SourceInv /\ IdentityInv)
<1>1. Init => TypeInv /\ SourceInv /\ IdentityInv
  BY InitType, SourceInit, IdentityInit
<1>2. (TypeInv /\ SourceInv /\ IdentityInv) /\ [Next]_vars
        => (TypeInv /\ SourceInv /\ IdentityInv)'
  BY StepType, SourceStep, IdentityStep
<1> QED
  BY <1>1, <1>2, PTL DEF Spec

\* No interleaving of unlocked writers changes what an incident was opened as,
\* moves its known country or touches it after it was closed.
THEOREM IdentityStable == Spec => IncidentIdentityStable
<1>1. TypeInv /\ SourceInv /\ IdentityInv /\ [Next]_vars =>
        [\A n \in DOMAIN incidents :
           /\ n \in DOMAIN incidents'
           /\ incidents'[n].source_ip = incidents[n].source_ip
           /\ incidents'[n].first_seen = incidents[n].first_seen
           /\ incidents'[n].status = incidents[n].status
           /\ incidents[n].country # NoCountry => incidents'[n].country = incidents[n].country
           /\ incidents[n].status = "closed" => incidents'[n] = incidents[n]]_vars
  BY IdentityKept
<1> QED
  BY <1>1, IdentityCorrect, PTL DEF Spec, IncidentIdentityStable

---------------------------------------------------------------------------
(* History.                                                                *)

\* More rows, more of them in the window.
LEMMA PriorRowsMonotonic ==
  ASSUME NEW A, NEW B, A \subseteq B, IsFiniteSet(B), NEW i, NEW b
  PROVE  Cardinality(PriorRows(A, i, b)) <= Cardinality(PriorRows(B, i, b))
<1>1. PriorRows(A, i, b) \subseteq PriorRows(B, i, b) /\ PriorRows(B, i, b) \subseteq B
  BY DEF PriorRows
<1> QED
  BY <1>1, FS_Subset

\* A thread that has counted.
Counted == {"select"} \cup Loaded

LEMMA HistoryInit == Init => HistoryInv
BY DEF Init, HistoryInv, PriorCountBounds

\* What each thread remembers of the table, and for whom, does not change
\* after it has counted.
LEMMA HistoryFrame ==
  ASSUME TypeInv, [Next]_vars, NEW t \in Sessions, pc'[t] \in Counted
  PROVE  /\ ip(t)' = ip(t) /\ ts(t)' = ts(t) /\ known'[t] = known[t]
         /\ \/ pc[t] \in Counted /\ txn'[t].prior = txn[t].prior
            \/ CountPrior(t)
<1> DEFINE Kept == /\ capture'[t] = capture[t] /\ known'[t] = known[t]
                   /\ pc[t] \in Counted /\ txn'[t].prior = txn[t].prior
<1> USE DEF TypeInv, TypeOK, Counted, Loaded
<1>1. CASE Kept
  BY <1>1 DEF ip, ts
<1>2. CASE Tick \/ Shutdown \/ Exit \/ Restart \/ UNCHANGED vars
  <2>1. Kept
    BY <1>2 DEF Tick, Shutdown, Exit, Restart, vars, Running, InTransaction
  <2> QED
    BY <1>1, <2>1
<1>3. ASSUME NEW s \in Sessions, NEW i \in IPs, Connect(s, i)
      PROVE  Kept
  BY <1>3 DEF Connect
<1>4. ASSUME NEW s \in Sessions, NEW e \in Inputs, StartIngest(s, e)
      PROVE  Kept
  BY <1>4 DEF StartIngest
<1>5. ASSUME NEW s \in Sessions, CountPrior(s), s # t
      PROVE  Kept
  BY <1>5 DEF CountPrior
<1>6. CASE CountPrior(t)
  BY <1>6 DEF CountPrior, ip, ts
<1>7. ASSUME NEW s \in Sessions, SelectIncident(s)
      PROVE  Kept
  BY <1>7, SelectTxn
<1>8. ASSUME NEW s \in Sessions, Flush(s) \/ Commit(s)
      PROVE  Kept
  BY <1>8 DEF Flush, Commit
<1>9. ASSUME NEW s \in Sessions,
             Rollback(s) \/ Publish(s) \/ PublishFails(s) \/ CommitUnacknowledged(s)
      PROVE  Kept
  BY <1>9 DEF Rollback, Publish, PublishFails, CommitUnacknowledged, EndThread
<1> QED
  BY <1>1, <1>2, <1>3, <1>4, <1>5, <1>6, <1>7, <1>8, <1>9 DEF Next, Worker, Progress

LEMMA KnownStep ==
  ASSUME TypeInv, [Next]_vars, NEW t \in Sessions
  PROVE  known'[t] \in {known[t], attacks, {}}
<1> USE DEF TypeInv, TypeOK
<1>1. CASE Tick \/ Shutdown \/ Exit \/ Restart \/ UNCHANGED vars
  BY <1>1 DEF Tick, Shutdown, Exit, Restart, vars
<1>2. ASSUME NEW s \in Sessions, \/ \E i \in IPs : Connect(s, i)
                                 \/ \E e \in Inputs : StartIngest(s, e)
      PROVE  known'[t] \in {known[t], attacks, {}}
  BY <1>2 DEF Connect, StartIngest
<1>3. ASSUME NEW s \in Sessions, Worker(s)
      PROVE  known'[t] \in {known[t], attacks, {}}
  BY <1>3 DEF Worker, Progress, CountPrior, SelectIncident, Flush, Commit, Rollback,
              Publish, PublishFails, CommitUnacknowledged, EndThread
<1> QED
  BY <1>1, <1>2, <1>3 DEF Next

LEMMA HistoryStep == TypeInv /\ HistoryInv /\ [Next]_vars => HistoryInv'
<1> SUFFICES ASSUME TypeInv, HistoryInv, [Next]_vars PROVE HistoryInv'
  OBVIOUS
<1>1. attacks \subseteq attacks' /\ IsFiniteSet(attacks) /\ IsFiniteSet(attacks')
  BY AttacksGrow, StepType DEF TypeInv
<1>2. \A t \in Sessions : known'[t] \subseteq attacks'
  BY <1>1, KnownStep DEF HistoryInv
<1>3. ASSUME NEW t \in Sessions, pc'[t] \in Counted
      PROVE  /\ Cardinality(PriorRows(known'[t], ip(t)', ts(t)')) <= txn'[t].prior
             /\ txn'[t].prior <= Cardinality(PriorRows(attacks', ip(t)', ts(t)'))
  <2> DEFINE Now == Cardinality(PriorRows(attacks, ip(t), ts(t)))
  <2>1. Now <= Cardinality(PriorRows(attacks', ip(t), ts(t)))
    BY <1>1, PriorRowsMonotonic
  <2>2. Now \in Nat /\ Cardinality(PriorRows(attacks', ip(t), ts(t))) \in Nat
    <3>1. PriorRows(attacks, ip(t), ts(t)) \subseteq attacks
          /\ PriorRows(attacks', ip(t), ts(t)) \subseteq attacks'
      BY DEF PriorRows
    <3> QED
      BY <1>1, <3>1, FS_Subset, FS_CardinalityType
  <2>3. ip(t)' = ip(t) /\ ts(t)' = ts(t) /\ known'[t] = known[t]
    BY <1>3, HistoryFrame
  <2>4. CASE pc[t] \in Counted /\ txn'[t].prior = txn[t].prior
    <3>1. /\ Cardinality(PriorRows(known[t], ip(t), ts(t))) <= txn[t].prior
          /\ txn[t].prior <= Now
      BY <2>4 DEF HistoryInv, PriorCountBounds, Counted, Loaded
    <3>2. txn[t].prior \in Nat
      BY <2>4 DEF TypeInv, TypeOK, Txn, Counted, Loaded, InTransaction
    <3> QED
      BY <2>1, <2>2, <2>3, <2>4, <3>1, <3>2
  <2>5. CASE CountPrior(t)
    <3>1. txn'[t].prior = Now
      <4>1. pc[t] = "count" /\ txn[t] \in Txn
        BY <2>5 DEF CountPrior, TypeInv, TypeOK, InTransaction
      <4> DEFINE n == Cardinality(CountedRows(t))
                 risk == Assess(capture[t].evidence, n, is_malicious(ip(t)), txn[t].geo)
                 new == [txn[t] EXCEPT !.prior = n, !.score = risk.score,
                                       !.techniques = risk.techniques]
      <4>2. txn'[t] = new
        BY <2>5 DEF CountPrior, TypeInv, TypeOK
      <4>3. new.prior = n
        BY <4>1 DEF Txn
      <4> QED
        BY <4>2, <4>3 DEF CountedRows
    <3>2. Cardinality(PriorRows(known[t], ip(t), ts(t))) <= Now
      BY <1>1, PriorRowsMonotonic DEF HistoryInv
    <3> QED
      BY <2>1, <2>3, <3>1, <3>2
  <2> QED
    BY <1>3, <2>4, <2>5, HistoryFrame
<1> QED
  BY <1>2, <1>3 DEF HistoryInv, PriorCountBounds, Counted, Loaded

\* A session is scored with at least the history that was stored when it
\* connected and with no more than what is stored: no thread that commits in
\* between makes the count wrong.
THEOREM HistoryCounted == Spec => []PriorCountBounds
<1>1. Init => TypeInv /\ HistoryInv
  BY InitType, HistoryInit
<1>2. (TypeInv /\ HistoryInv) /\ [Next]_vars => (TypeInv /\ HistoryInv)'
  BY StepType, HistoryStep
<1>3. TypeInv /\ HistoryInv => PriorCountBounds
  BY DEF HistoryInv
<1> QED
  BY <1>1, <1>2, <1>3, PTL DEF Spec

---------------------------------------------------------------------------
(* What an incident claims, an attack linked to it has shown.              *)

\* The evidence columns that a commit leaves are this session's, or what the
\* table holds by now; only techniques may come from what was loaded.
LEMMA WrittenEvidence ==
  ASSUME TypeInv, NEW s \in Sessions, pc[s] = "commit", LoadedBacked(s)
  PROVE  LET new == IncidentWrite(s)
             old == incidents[IncidentId(s)]
         IN  /\ new.first_seen = ts(s) \/ (txn[s].found # None /\ new.first_seen = old.first_seen)
             /\ new.last_seen = ts(s) \/ (txn[s].found # None /\ new.last_seen = old.last_seen)
             /\ \/ new.max_risk_score \in {0, txn[s].score}
                \/ txn[s].found # None /\ new.max_risk_score = old.max_risk_score
             /\ \/ new.techniques \subseteq txn[s].row.techniques \cup txn[s].techniques
                \/ txn[s].found # None /\ new.techniques = old.techniques
<1> DEFINE row == txn[s].row
           c == Correlated(row, s)
           old == incidents[IncidentId(s)]
           new == IncidentWrite(s)
<1>1. row \in Incident
  BY CommitTypes
<1>2. /\ c.first_seen = row.first_seen /\ c.last_seen = ts(s)
      /\ c.max_risk_score = Max2(row.max_risk_score, txn[s].score)
      /\ c.techniques = row.techniques \cup txn[s].techniques
  BY <1>1, CorrelatedFields
<1>3. c.max_risk_score \in {row.max_risk_score, txn[s].score}
  BY <1>2 DEF Max2
<1>4. CASE txn[s].found = None
  <2>1. new = c
    BY <1>4 DEF IncidentWrite
  <2>2. row.first_seen = ts(s) /\ row.max_risk_score = 0
    BY <1>4 DEF LoadedBacked
  <2> HIDE DEF row, c, new
  <2>3. /\ new.first_seen = ts(s) /\ new.last_seen = ts(s)
        /\ new.max_risk_score \in {0, txn[s].score}
        /\ new.techniques \subseteq row.techniques \cup txn[s].techniques
    BY <1>2, <1>3, <2>1, <2>2
  <2> QED
    BY <2>3 DEF row, new
<1>5. CASE txn[s].found # None
  <2>1. new = UpdatedRow(old, row, c)
    BY <1>5 DEF IncidentWrite, IncidentId
  <2>2. /\ new.first_seen = Column(old.first_seen, row.first_seen, c.first_seen)
        /\ new.last_seen = Column(old.last_seen, row.last_seen, c.last_seen)
        /\ new.max_risk_score = Column(old.max_risk_score, row.max_risk_score, c.max_risk_score)
        /\ new.techniques = Column(old.techniques, row.techniques, c.techniques)
    BY <2>1 DEF UpdatedRow
  <2> HIDE DEF row, c, new, old
  <2>3. /\ new.first_seen = old.first_seen
        /\ new.last_seen = ts(s) \/ new.last_seen = old.last_seen
        /\ new.max_risk_score = txn[s].score \/ new.max_risk_score = old.max_risk_score
        /\ \/ new.techniques = row.techniques \cup txn[s].techniques
           \/ new.techniques = old.techniques
    BY <1>2, <1>3, <2>2 DEF Column
  <2> QED
    BY <1>5, <2>3 DEF row, old, new
<1> QED
  BY <1>4, <1>5

LEMMA BackedInit == Init => BackedInv
<1> SUFFICES ASSUME Init PROVE BackedInv
  OBVIOUS
<1>1. PICK seeded \in SUBSET SeedIPs :
        /\ attacks = {SeedAttack(i) : i \in seeded}
        /\ \E st \in [seeded -> Statuses] :
             incidents = [i \in seeded |-> SeedIncident(i, st[i])]
  BY DEF Init
<1>2. DOMAIN incidents = seeded
  BY <1>1
<1>3. ASSUME NEW i \in seeded
      PROVE  /\ SeedAttack(i) \in Linked(i)
             /\ incidents[i].first_seen = 0 /\ incidents[i].last_seen = 0
             /\ incidents[i].max_risk_score = SeedScore /\ incidents[i].techniques = {}
  <2>1. incidents[i] = SeedIncident(i, incidents[i].status)
    BY <1>1 DEF SeedIncident
  <2>2. SeedAttack(i) \in attacks /\ SeedAttack(i).incident_id = i
    BY <1>1 DEF SeedAttack
  <2>3. SeedAttack(i) \in Linked(i)
    BY <2>2 DEF Linked
  <2> QED
    BY <2>1, <2>3 DEF SeedIncident
<1>4. \A i : /\ SeedAttack(i).timestamp = 0 /\ SeedAttack(i).risk_score = SeedScore
  BY DEF SeedAttack
<1>5. EvidenceBacked
  BY <1>2, <1>3, <1>4 DEF EvidenceBacked
<1>6. \A s \in Sessions : pc[s] \notin {"flush", "commit"}
  BY DEF Init
<1> QED
  BY <1>5, <1>6 DEF BackedInv

LEMMA BackedQuiet ==
  ASSUME TypeInv, BackedInv, Quiet
  PROVE  BackedInv'
<1>1. UNCHANGED <<attacks, incidents>> /\ \A t \in Sessions : Steady(t)
  BY QuietSteady
<1>2. EvidenceBacked'
  BY <1>1 DEF BackedInv, EvidenceBacked, Linked
<1>3. ASSUME NEW t \in Sessions, pc'[t] \in {"flush", "commit"}
      PROVE  LoadedBacked(t)'
  <2>1. pc[t] \in {"flush", "commit"}
    BY <1>1, <1>3 DEF Steady, Loaded, Unstored, InTransaction
  <2>2. LoadedBacked(t) /\ txn'[t] = txn[t] /\ capture'[t] = capture[t]
    BY <1>1, <1>3, <2>1 DEF BackedInv, Steady, Loaded
  <2> QED
    BY <1>1, <2>2 DEF LoadedBacked, Linked, ts
<1> QED
  BY <1>2, <1>3 DEF BackedInv

LEMMA BackedSelect ==
  ASSUME TypeInv, BackedInv, NEW s \in Sessions, SelectIncident(s)
  PROVE  BackedInv'
<1>1. /\ pc' = [pc EXCEPT ![s] = "flush"]
      /\ UNCHANGED <<capture, attacks, incidents>> /\ pc[s] = "select"
  BY DEF SelectIncident
<1>2. \/ txn' = [txn EXCEPT ![s].found = None, ![s].row = NewIncident(s)]
      \/ \E n \in OpenIncidents(ip(s)) :
           txn' = [txn EXCEPT ![s].found = n, ![s].row = incidents[n]]
  BY DEF SelectIncident
<1>3. txn[s] \in Txn
  BY <1>1 DEF TypeInv, TypeOK, InTransaction
<1>4. EvidenceBacked'
  BY <1>1 DEF BackedInv, EvidenceBacked, Linked
<1>5. LoadedBacked(s)'
  <2>1. CASE txn' = [txn EXCEPT ![s].found = None, ![s].row = NewIncident(s)]
    <3>1. txn'[s].row = NewIncident(s) /\ txn'[s].found = None
      BY <1>3, <2>1 DEF TypeInv, TypeOK, Txn
    <3>2. ts(s)' = ts(s)
      BY <1>1 DEF ts
    <3> QED
      BY <3>1, <3>2 DEF NewIncident, LoadedBacked
  <2>2. ASSUME NEW n \in OpenIncidents(ip(s)),
               txn' = [txn EXCEPT ![s].found = n, ![s].row = incidents[n]]
        PROVE  LoadedBacked(s)'
    <3>1. txn'[s].row = incidents[n] /\ txn'[s].found = n
      BY <1>3, <2>2 DEF TypeInv, TypeOK, Txn
    <3>2. n \in DOMAIN incidents /\ n # None
      BY NoneAssumption DEF OpenIncidents, TypeInv, TypeOK, RowIds
    <3>3. \A t \in incidents[n].techniques : \E a \in Linked(n) : t \in a.techniques
      BY <3>2 DEF BackedInv, EvidenceBacked
    <3> QED
      BY <1>1, <3>1, <3>2, <3>3 DEF LoadedBacked, Linked
  <2> QED
    BY <1>2, <2>1, <2>2
<1>6. ASSUME NEW t \in Sessions \ {s}, pc'[t] \in {"flush", "commit"}
      PROVE  LoadedBacked(t)'
  <2>1. pc'[t] = pc[t] /\ txn'[t] = txn[t]
    BY <1>1, <1>2 DEF TypeInv, TypeOK
  <2>2. LoadedBacked(t)
    BY <1>6, <2>1 DEF BackedInv
  <2> QED
    BY <1>1, <2>1, <2>2 DEF LoadedBacked, Linked, ts
<1> QED
  BY <1>4, <1>5, <1>6 DEF BackedInv

LEMMA BackedCommit ==
  ASSUME TypeInv, SourceInv, BackedInv, NEW s \in Sessions,
         Commit(s) \/ CommitUnacknowledged(s)
  PROVE  BackedInv'
<1>1. /\ pc[s] = "commit" /\ Apply(s)
      /\ pc'[s] \in {"publish", "failed"}
      /\ \A t \in Sessions \ {s} :
           pc'[t] = pc[t] /\ txn'[t] = txn[t] /\ capture'[t] = capture[t]
  BY CommitSteady
<1> DEFINE m == IncidentId(s)
           new == IncidentWrite(s)
           mine == AttackRow(s)
           After(n) == {a \in attacks' : a.incident_id = n}
<1>2. /\ attacks' = attacks \cup {mine}
      /\ DOMAIN incidents' = DOMAIN incidents \cup {m}
      /\ \A n \in DOMAIN incidents \ {m} : incidents'[n] = incidents[n]
      /\ incidents'[m] = new
  BY <1>1, ApplySource
<1>3. /\ mine.incident_id = m /\ mine.timestamp = ts(s)
      /\ mine.risk_score = txn[s].score /\ mine.techniques = txn[s].techniques
  BY DEF AttackRow
<1>4. (\A n : Linked(n) \subseteq After(n)) /\ mine \in After(m)
  BY <1>2, <1>3 DEF Linked
<1>5. LoadedBacked(s)
  BY <1>1 DEF BackedInv
<1>6. txn[s].found # None => m = txn[s].found /\ m \in DOMAIN incidents
  BY <1>1, CommitTypes DEF IncidentId
<1>7. \A n \in DOMAIN incidents :
        /\ \E a \in After(n) : a.timestamp = incidents[n].first_seen
        /\ \E a \in After(n) : a.timestamp = incidents[n].last_seen
        /\ incidents[n].max_risk_score # 0 =>
             \E a \in After(n) : a.risk_score = incidents[n].max_risk_score
        /\ \A t \in incidents[n].techniques : \E a \in After(n) : t \in a.techniques
  BY <1>4 DEF BackedInv, EvidenceBacked
<1>8. /\ new.first_seen = ts(s) \/ (txn[s].found # None /\ new.first_seen = incidents[m].first_seen)
      /\ new.last_seen = ts(s) \/ (txn[s].found # None /\ new.last_seen = incidents[m].last_seen)
      /\ \/ new.max_risk_score \in {0, txn[s].score}
         \/ txn[s].found # None /\ new.max_risk_score = incidents[m].max_risk_score
      /\ \/ new.techniques \subseteq txn[s].row.techniques \cup txn[s].techniques
         \/ txn[s].found # None /\ new.techniques = incidents[m].techniques
  BY <1>1, <1>5, WrittenEvidence
<1>9. \A t \in txn[s].row.techniques : \E a \in After(m) : t \in a.techniques
  BY <1>4, <1>5, <1>6 DEF LoadedBacked
<1> HIDE DEF m, new, mine, After
<1>10. /\ \E a \in After(m) : a.timestamp = new.first_seen
       /\ \E a \in After(m) : a.timestamp = new.last_seen
  BY <1>3, <1>4, <1>6, <1>7, <1>8
<1>11. new.max_risk_score # 0 => \E a \in After(m) : a.risk_score = new.max_risk_score
  BY <1>3, <1>4, <1>6, <1>7, <1>8
<1>12. ASSUME NEW t \in new.techniques
       PROVE  \E a \in After(m) : t \in a.techniques
  BY <1>3, <1>4, <1>6, <1>7, <1>8, <1>9
<1>13. EvidenceBacked'
  <2>1. ASSUME NEW n \in DOMAIN incidents'
        PROVE  /\ \E a \in After(n) : a.timestamp = incidents'[n].first_seen
               /\ \E a \in After(n) : a.timestamp = incidents'[n].last_seen
               /\ incidents'[n].max_risk_score # 0 =>
                    \E a \in After(n) : a.risk_score = incidents'[n].max_risk_score
               /\ \A t \in incidents'[n].techniques : \E a \in After(n) : t \in a.techniques
    <3>1. CASE n = m
      BY <1>2, <1>10, <1>11, <1>12, <3>1
    <3>2. CASE n # m
      BY <1>2, <1>7, <2>1, <3>2
    <3> QED
      BY <3>1, <3>2
  <2> QED
    BY <2>1 DEF EvidenceBacked, Linked, After
<1>14. ASSUME NEW t \in Sessions, pc'[t] \in {"flush", "commit"}
       PROVE  LoadedBacked(t)'
  <2>1. /\ t # s /\ pc'[t] = pc[t] /\ txn'[t] = txn[t] /\ capture'[t] = capture[t]
    BY <1>1, <1>14
  <2>2. LoadedBacked(t)
    BY <1>14, <2>1 DEF BackedInv
  <2>3. txn'[t].found # None => \A q \in txn'[t].row.techniques :
          \E a \in After(txn[t].found) : q \in a.techniques
    BY <1>4, <2>1, <2>2 DEF LoadedBacked
  <2> QED
    BY <2>1, <2>2, <2>3 DEF LoadedBacked, Linked, After, ts
<1> QED
  BY <1>13, <1>14 DEF BackedInv

LEMMA BackedStep == TypeInv /\ SourceInv /\ BackedInv /\ [Next]_vars => BackedInv'
BY NextCases, BackedQuiet, BackedSelect, BackedCommit

---------------------------------------------------------------------------
(* Sums.  LinkedAttempts folds over a set by a recursive function, of which *)
(* a proof knows no more than its equation: that there is such a function,  *)
(* and that the order of the rows does not matter, is shown by looking at   *)
(* the smallest set of rows for which it would be otherwise.                *)

\* Any element of a set that is not empty.
Pick(s) == CHOOSE x \in s : TRUE
\* The attempts of all these rows.
TotalAttempts(rows) == MapThenSumSet(LAMBDA a : Attempts(a.auth_attempts), rows)

\* The function on the sets of rows by which MapThenSumSet is defined.
Sums(g, rows) ==
  g = [s \in SUBSET rows |->
         IF s = {} THEN 0 ELSE Attempts(Pick(s).auth_attempts) + g[s \ {Pick(s)}]]

\* The total is what such a function says of all the rows.
LEMMA TotalDefinition ==
  ASSUME NEW S
  PROVE  TotalAttempts(S) = (CHOOSE g : Sums(g, S))[S]
BY DEF TotalAttempts, MapThenSumSet, MapThenFoldSet, Sums, Pick

\* A set that is not empty has an element to pick.
LEMMA Picked ==
  ASSUME NEW s, s # {}
  PROVE  Pick(s) \in s
BY DEF Pick

\* Among some subsets of a finite set one has none of the others in it.
LEMMA SmallestSet ==
  ASSUME NEW S, IsFiniteSet(S), NEW B, B \subseteq SUBSET S, B # {}
  PROVE  \E x \in B : \A y \in B : y \subseteq x => y = x
<1>1. B \subseteq FiniteSubsetsOf(S)
  BY FS_FiniteSubsetsOfFinite
<1>2. IsWellFoundedOn(StrictSubsetOrdering(S), FiniteSubsetsOf(S))
  BY FS_StrictSubsetOrderingWellFounded
<1>3. PICK x \in B : \A y \in B : ~ (<<y, x>> \in StrictSubsetOrdering(S))
  BY <1>1, <1>2, WFMin
<1>4. ASSUME NEW y \in B, y \subseteq x
      PROVE  y = x
  BY <1>3, <1>4 DEF StrictSubsetOrdering
<1> QED
  BY <1>3, <1>4

\* Such functions agree where both are defined, so there is at most one ...
LEMMA SumsAgree ==
  ASSUME NEW S, IsFiniteSet(S), NEW T \in SUBSET S, NEW g, Sums(g, T), NEW h, Sums(h, S),
         NEW s \in SUBSET T
  PROVE  g[s] = h[s]
<1> DEFINE Bad == {u \in SUBSET T : g[u] # h[u]}
<1>1. SUFFICES ASSUME Bad # {} PROVE FALSE
  OBVIOUS
<1>2. PICK u \in Bad : \A y \in Bad : y \subseteq u => y = u
  <2>1. Bad \subseteq SUBSET S
    OBVIOUS
  <2> HIDE DEF Bad
  <2> QED
    BY <1>1, <2>1, SmallestSet
<1>3. u \in SUBSET T /\ u \in SUBSET S
  OBVIOUS
<1>4. /\ g[u] = IF u = {} THEN 0 ELSE Attempts(Pick(u).auth_attempts) + g[u \ {Pick(u)}]
      /\ h[u] = IF u = {} THEN 0 ELSE Attempts(Pick(u).auth_attempts) + h[u \ {Pick(u)}]
  BY <1>3 DEF Sums
<1>5. u # {}
  BY <1>4
<1>6. u \ {Pick(u)} \in SUBSET T /\ u \ {Pick(u)} # u
  BY <1>3, <1>5, Picked
<1>7. g[u \ {Pick(u)}] = h[u \ {Pick(u)}]
  BY <1>2, <1>6
<1> QED
  BY <1>4, <1>5, <1>7

\* ... and there is one: the smallest set of rows without one would have one.
LEMMA SumsExist ==
  ASSUME NEW S, IsFiniteSet(S)
  PROVE  \E g : Sums(g, S)
<1> DEFINE Bad == {T \in SUBSET S : ~ \E g : Sums(g, T)}
           total(T) == (CHOOSE g : Sums(g, T))[T]
<1>1. SUFFICES ASSUME Bad # {} PROVE FALSE
  OBVIOUS
<1>2. PICK T \in Bad : \A y \in Bad : y \subseteq T => y = T
  <2>1. Bad \subseteq SUBSET S
    OBVIOUS
  <2> HIDE DEF Bad
  <2> QED
    BY <1>1, <2>1, SmallestSet
<1>3. T \in SUBSET S /\ IsFiniteSet(T) /\ ~ \E g : Sums(g, T)
  BY FS_Subset
<1> DEFINE h == [s \in SUBSET T |->
                   IF s = {} THEN 0 ELSE Attempts(Pick(s).auth_attempts) + total(s \ {Pick(s)})]
<1>4. ASSUME NEW s \in SUBSET T, s # T
      PROVE  h[s] = total(s)
  <2>1. IsFiniteSet(s) /\ s \in SUBSET S /\ s \notin Bad
    BY <1>2, <1>3, <1>4, FS_Subset
  <2>2. PICK g : g = (CHOOSE k : Sums(k, s)) /\ Sums(g, s)
    BY <2>1
  <2>3. g[s] = IF s = {} THEN 0 ELSE Attempts(Pick(s).auth_attempts) + g[s \ {Pick(s)}]
    BY <2>2 DEF Sums
  <2>4. ASSUME s # {}
        PROVE  g[s \ {Pick(s)}] = total(s \ {Pick(s)})
    <3>1. s \ {Pick(s)} \in SUBSET s /\ s \ {Pick(s)} \in SUBSET S /\ s \ {Pick(s)} # T
      BY <1>4, <2>1, <2>4, Picked
    <3>2. s \ {Pick(s)} \notin Bad
      BY <1>2, <1>4, <3>1
    <3>3. PICK k : k = (CHOOSE l : Sums(l, s \ {Pick(s)})) /\ Sums(k, s \ {Pick(s)})
      BY <3>1, <3>2
    <3>4. k[s \ {Pick(s)}] = g[s \ {Pick(s)}]
      BY <2>1, <2>2, <3>1, <3>3, SumsAgree
    <3> QED
      BY <3>3, <3>4
  <2>5. h[s] = IF s = {} THEN 0 ELSE Attempts(Pick(s).auth_attempts) + total(s \ {Pick(s)})
    OBVIOUS
  <2>6. total(s) = g[s]
    BY <2>2
  <2> HIDE DEF h, total
  <2> QED
    BY <2>3, <2>4, <2>5, <2>6
<1>5. ASSUME NEW s \in SUBSET T, s # {}
      PROVE  h[s \ {Pick(s)}] = total(s \ {Pick(s)})
  <2>1. s \ {Pick(s)} \in SUBSET T /\ s \ {Pick(s)} # T
    BY <1>5, Picked
  <2> HIDE DEF h, total
  <2> QED
    BY <1>4, <2>1
<1>6. Sums(h, T)
  <2>1. h = [s \in SUBSET T |->
               IF s = {} THEN 0 ELSE Attempts(Pick(s).auth_attempts) + h[s \ {Pick(s)}]]
    <3>1. \A s \in SUBSET T :
            (IF s = {} THEN 0 ELSE Attempts(Pick(s).auth_attempts) + total(s \ {Pick(s)}))
            = (IF s = {} THEN 0 ELSE Attempts(Pick(s).auth_attempts) + h[s \ {Pick(s)}])
      <4> HIDE DEF h, total
      <4> QED
        BY <1>5
    <3>2. h = [s \in SUBSET T |-> IF s = {} THEN 0
                                  ELSE Attempts(Pick(s).auth_attempts) + total(s \ {Pick(s)})]
      OBVIOUS
    <3> HIDE DEF h, total
    <3> QED
      BY ONLY <3>1, <3>2, Zenon
  <2> HIDE DEF h
  <2> QED
    BY <2>1 DEF Sums
<1> QED
  BY <1>3, <1>6

\* The total of the attempts is that of the rows without one, and that one's.
LEMMA TotalPicked ==
  ASSUME NEW S, IsFiniteSet(S)
  PROVE  TotalAttempts(S) = IF S = {} THEN 0
                            ELSE Attempts(Pick(S).auth_attempts) + TotalAttempts(S \ {Pick(S)})
<1>1. PICK g : g = (CHOOSE k : Sums(k, S)) /\ Sums(g, S)
  BY SumsExist
<1>2. TotalAttempts(S) = g[S]
  BY <1>1, TotalDefinition
<1>3. g[S] = IF S = {} THEN 0 ELSE Attempts(Pick(S).auth_attempts) + g[S \ {Pick(S)}]
  BY <1>1 DEF Sums
<1>4. TotalAttempts(S \ {Pick(S)}) = g[S \ {Pick(S)}]
  <2> DEFINE R == S \ {Pick(S)}
  <2>1. IsFiniteSet(R) /\ R \in SUBSET S
    BY FS_Subset
  <2> HIDE DEF R
  <2>2. PICK k : k = (CHOOSE l : Sums(l, R)) /\ Sums(k, R)
    BY <2>1, SumsExist
  <2>3. TotalAttempts(R) = k[R]
    BY <2>2, TotalDefinition
  <2>4. k[R] = g[R]
    BY <1>1, <2>1, <2>2, SumsAgree
  <2>5. TotalAttempts(R) = g[R]
    BY <2>3, <2>4
  <2> QED
    BY <2>5 DEF R
<1> QED
  BY <1>2, <1>3, <1>4

\* Whichever row is taken out.
LEMMA TotalRemove ==
  ASSUME NEW S, IsFiniteSet(S), \A a \in S : a.auth_attempts \in Nat, NEW x \in S
  PROVE  /\ TotalAttempts(S) \in Nat
         /\ TotalAttempts(S) = Attempts(x.auth_attempts) + TotalAttempts(S \ {x})
<1> DEFINE Share(a) == Attempts(a.auth_attempts)
           Fine(T) == /\ TotalAttempts(T) \in Nat
                      /\ \A y \in T : TotalAttempts(T) = Share(y) + TotalAttempts(T \ {y})
           Bad == {T \in SUBSET S : ~Fine(T)}
<1>1. \A a \in S : Share(a) \in Nat
  BY DEF Attempts
<1>2. SUFFICES ASSUME Bad # {} PROVE FALSE
  <2>1. Bad = {} => Fine(S)
    <3> HIDE DEF Fine
    <3> QED
      OBVIOUS
  <2> QED
    BY <2>1
<1>3. PICK T \in Bad : \A y \in Bad : y \subseteq T => y = T
  <2>1. Bad \subseteq SUBSET S
    OBVIOUS
  <2> HIDE DEF Bad
  <2> QED
    BY <1>2, <2>1, SmallestSet
<1>4. T \in SUBSET S /\ IsFiniteSet(T) /\ ~Fine(T)
  <2>1. T \in SUBSET S /\ ~Fine(T)
    BY <1>3
  <2> QED
    BY <2>1, FS_Subset
<1>5. ASSUME NEW U \in SUBSET T, U # T
      PROVE  Fine(U)
  <2>1. U \in SUBSET S /\ U \notin Bad
    BY <1>3, <1>4, <1>5
  <2> HIDE DEF Fine
  <2> QED
    BY <2>1
<1> HIDE DEF Bad
<1>6. T # {} /\ Pick(T) \in T
  <2>1. ASSUME T = {} PROVE Fine(T)
    BY <1>4, <2>1, TotalPicked
  <2> QED
    BY <1>4, <2>1, Picked
<1>7. TotalAttempts(T) = Share(Pick(T)) + TotalAttempts(T \ {Pick(T)})
  BY <1>4, <1>6, TotalPicked
<1>8. TotalAttempts(T \ {Pick(T)}) \in Nat /\ Share(Pick(T)) \in Nat
  <2>1. Fine(T \ {Pick(T)})
    BY <1>5, <1>6
  <2> QED
    BY <1>1, <1>4, <1>6, <2>1
<1>9. ASSUME NEW y \in T
      PROVE  TotalAttempts(T) = Share(y) + TotalAttempts(T \ {y})
  <2>1. CASE y = Pick(T)
    BY <1>7, <2>1
  <2>2. CASE y # Pick(T)
    <3> DEFINE p == Pick(T)
    <3>1. y \in T \ {p} /\ p \in T \ {y} /\ (T \ {p}) \ {y} = (T \ {y}) \ {p}
      BY <1>6, <2>2
    <3>2. Fine(T \ {p}) /\ Fine(T \ {y}) /\ Fine((T \ {p}) \ {y})
      <4> HIDE DEF Fine
      <4> QED
        BY <1>5, <1>6
    <3>3. TotalAttempts(T \ {p}) = Share(y) + TotalAttempts((T \ {p}) \ {y})
      BY <3>1, <3>2
    <3>4. TotalAttempts(T \ {y}) = Share(p) + TotalAttempts((T \ {p}) \ {y})
      BY <3>1, <3>2
    <3>5. /\ TotalAttempts((T \ {p}) \ {y}) \in Nat
          /\ Share(p) \in Nat /\ Share(y) \in Nat
      BY <1>1, <1>4, <1>6, <3>2
    <3>6. TotalAttempts(T) = Share(p) + TotalAttempts(T \ {p})
      BY <1>7
    <3> HIDE DEF Share, p
    <3> QED
      BY ONLY <3>3, <3>4, <3>5, <3>6
  <2> QED
    BY <2>1, <2>2
<1>10. Fine(T)
  <2>1. TotalAttempts(T) \in Nat
    <3> HIDE DEF Share
    <3> QED
      BY ONLY <1>7, <1>8
  <2> QED
    BY <1>9, <2>1
<1> QED
  BY <1>4, <1>10

\* A total is a number, and that of no rows is zero.
LEMMA TotalType ==
  ASSUME NEW S, IsFiniteSet(S), \A a \in S : a.auth_attempts \in Nat
  PROVE  TotalAttempts(S) \in Nat /\ TotalAttempts({}) = 0
<1>1. TotalAttempts({}) = 0
  BY TotalPicked, FS_EmptySet
<1>2. CASE S = {}
  BY <1>1, <1>2
<1>3. CASE S # {}
  <2>1. PICK x \in S : TRUE
    BY <1>3
  <2> QED
    BY <1>1, <2>1, TotalRemove
<1> QED
  BY <1>2, <1>3

\* One row more adds its attempts.
LEMMA TotalInsert ==
  ASSUME NEW S, IsFiniteSet(S), \A a \in S : a.auth_attempts \in Nat,
         NEW x, x \notin S, x.auth_attempts \in Nat
  PROVE  TotalAttempts(S \cup {x}) = TotalAttempts(S) + Attempts(x.auth_attempts)
<1>1. IsFiniteSet(S \cup {x}) /\ x \in S \cup {x} /\ (S \cup {x}) \ {x} = S
  BY FS_AddElement
<1>2. \A a \in S \cup {x} : a.auth_attempts \in Nat
  OBVIOUS
<1>3. TotalAttempts(S \cup {x}) = Attempts(x.auth_attempts) + TotalAttempts((S \cup {x}) \ {x})
  BY <1>1, <1>2, TotalRemove
<1>4. TotalAttempts(S) \in Nat /\ Attempts(x.auth_attempts) \in Nat
  BY TotalType DEF Attempts
<1>5. TotalAttempts(S \cup {x}) = Attempts(x.auth_attempts) + TotalAttempts(S)
  BY <1>1, <1>3
<1> QED
  BY ONLY <1>4, <1>5

---------------------------------------------------------------------------
(* What an incident counts, attacks linked to it have made.                *)

LEMMA LinkedTotal ==
  ASSUME NEW n
  PROVE  /\ LinkedAttempts(n) = TotalAttempts(Linked(n))
         /\ LinkedAttempts(n)' = TotalAttempts(Linked(n)')
BY DEF LinkedAttempts, TotalAttempts, MapThenSumSet, MapThenFoldSet

LEMMA LinkedRows ==
  ASSUME TypeInv, NEW n
  PROVE  /\ IsFiniteSet(Linked(n)) /\ \A a \in Linked(n) : a.auth_attempts \in Nat
         /\ LinkedAttempts(n) \in Nat
<1>1. IsFiniteSet(Linked(n))
  <2>1. Linked(n) \in SUBSET attacks /\ IsFiniteSet(attacks)
    BY DEF Linked, TypeInv
  <2> QED
    BY <2>1, FS_Subset
<1>2. \A a \in Linked(n) : a.auth_attempts \in Nat
  BY DEF Linked, TypeInv, TypeOK, Attack
<1> QED
  BY <1>1, <1>2, TotalType, LinkedTotal

\* A commit links one attack, to the incident it writes.
LEMMA LinkedCommit ==
  ASSUME TypeInv, SourceInv, NEW s \in Sessions, pc[s] = "commit", Apply(s), NEW n
  PROVE  LinkedAttempts(n)' =
           IF n = IncidentId(s)
           THEN LinkedAttempts(n) + Attempts(capture[s].evidence.auth_attempts)
           ELSE LinkedAttempts(n)
<1> DEFINE mine == AttackRow(s)
<1>1. attacks' = attacks \cup {mine}
  BY DEF Apply
<1>2. /\ mine.incident_id = IncidentId(s) /\ mine.session_id = s
      /\ mine.auth_attempts = capture[s].evidence.auth_attempts
  BY DEF AttackRow
<1>3. mine \notin attacks
  BY <1>2 DEF SourceInv, Unstored, InTransaction
<1>4. mine.auth_attempts \in Nat
  BY <1>2, CommitTypes DEF Capture, Evidence
<1> HIDE DEF mine
<1>5. CASE n = IncidentId(s)
  <2>1. Linked(n)' = Linked(n) \cup {mine} /\ mine \notin Linked(n)
    BY <1>1, <1>2, <1>3, <1>5 DEF Linked
  <2>2. TotalAttempts(Linked(n) \cup {mine}) = TotalAttempts(Linked(n)) + Attempts(mine.auth_attempts)
    BY <1>4, <2>1, LinkedRows, TotalInsert
  <2> QED
    BY <1>2, <1>5, <2>1, <2>2, LinkedTotal
<1>6. CASE n # IncidentId(s)
  <2>1. Linked(n)' = Linked(n)
    BY <1>1, <1>2, <1>6 DEF Linked
  <2> QED
    BY <1>6, <2>1, LinkedTotal
<1> QED
  BY <1>5, <1>6

\* What thread s loaded counts no more than was linked.
LoadedCounted(s) ==
  txn[s].row.attempt_count <= IF txn[s].found = None THEN 0 ELSE LinkedAttempts(txn[s].found)

LEMMA AttemptsParts ==
  AttemptsInv <=> /\ AttemptsBacked
                  /\ \A s \in Sessions : pc[s] \in {"flush", "commit"} => LoadedCounted(s)
BY DEF AttemptsInv, LoadedCounted

\* A seeded incident counts the attempts of its one attack.
LEMMA SeedAttempts ==
  ASSUME Init, NEW n \in DOMAIN incidents
  PROVE  incidents[n].attempt_count = LinkedAttempts(n)
<1>1. PICK seeded \in SUBSET SeedIPs :
        /\ attacks = {SeedAttack(i) : i \in seeded}
        /\ \E st \in [seeded -> Statuses] :
             incidents = [i \in seeded |-> SeedIncident(i, st[i])]
  BY DEF Init
<1>2. n \in seeded /\ incidents[n].attempt_count = 3
  BY <1>1 DEF SeedIncident
<1>3. \A i : SeedAttack(i).incident_id = i /\ SeedAttack(i).auth_attempts = 3
  BY DEF SeedAttack
<1>4. Linked(n) = {} \cup {SeedAttack(n)}
  BY <1>1, <1>2, <1>3 DEF Linked
<1>5. TotalAttempts({} \cup {SeedAttack(n)}) = TotalAttempts({}) + Attempts(SeedAttack(n).auth_attempts)
  BY <1>3, TotalInsert, FS_EmptySet
<1>6. TotalAttempts({}) = 0
  BY TotalType, FS_EmptySet
<1>7. Attempts(SeedAttack(n).auth_attempts) = 3
  BY <1>3 DEF Attempts
<1> QED
  BY <1>2, <1>4, <1>5, <1>6, <1>7, LinkedTotal

LEMMA AttemptsInit == Init => AttemptsInv
<1> SUFFICES ASSUME Init PROVE AttemptsInv
  OBVIOUS
<1>1. TypeInv
  BY InitType
<1>2. ASSUME NEW n \in DOMAIN incidents
      PROVE  incidents[n].attempt_count <= LinkedAttempts(n)
  <2>1. LinkedAttempts(n) \in Nat /\ incidents[n].attempt_count = LinkedAttempts(n)
    BY <1>1, <1>2, LinkedRows, SeedAttempts
  <2> QED
    BY <2>1
<1>3. \A s \in Sessions : pc[s] \notin {"flush", "commit"}
  BY DEF Init
<1> QED
  BY <1>2, <1>3 DEF AttemptsInv, AttemptsBacked

\* A step that links no attack and loads no incident changes no count.
LEMMA AttemptsQuiet ==
  ASSUME TypeInv, AttemptsInv, Quiet
  PROVE  AttemptsInv'
<1>1. UNCHANGED <<attacks, incidents>> /\ \A t \in Sessions : Steady(t)
  BY QuietSteady
<1>2. \A n : LinkedAttempts(n)' = LinkedAttempts(n)
  <2>1. \A n : Linked(n)' = Linked(n)
    BY <1>1 DEF Linked
  <2> QED
    BY <2>1, LinkedTotal
<1>3. AttemptsBacked'
  BY <1>1, <1>2 DEF AttemptsInv, AttemptsBacked
<1>4. ASSUME NEW t \in Sessions, pc'[t] \in {"flush", "commit"}
      PROVE  LoadedCounted(t)'
  <2>1. pc[t] \in {"flush", "commit"}
    BY <1>1, <1>4 DEF Steady, Loaded, Unstored, InTransaction
  <2>2. LoadedCounted(t) /\ txn'[t] = txn[t]
    BY <1>1, <1>4, <2>1, AttemptsParts DEF Steady, Loaded
  <2> QED
    BY <1>2, <2>2 DEF LoadedCounted
<1> QED
  BY <1>3, <1>4 DEF AttemptsInv, LoadedCounted

LEMMA AttemptsSelect ==
  ASSUME TypeInv, AttemptsInv, NEW s \in Sessions, SelectIncident(s)
  PROVE  AttemptsInv'
<1>1. /\ \A t \in Sessions \ {s} : pc'[t] = pc[t] /\ txn'[t] = txn[t]
      /\ UNCHANGED <<attacks, incidents>> /\ pc[s] = "select"
  BY SelectTxn
<1>2. \A n : LinkedAttempts(n)' = LinkedAttempts(n)
  <2>1. \A n : Linked(n)' = Linked(n)
    BY <1>1 DEF Linked
  <2> QED
    BY <2>1, LinkedTotal
<1>3. AttemptsBacked'
  BY <1>1, <1>2 DEF AttemptsInv, AttemptsBacked
<1>4. LoadedCounted(s)'
  <2>1. txn[s] \in Txn
    BY <1>1 DEF TypeInv, TypeOK, InTransaction
  <2>2. CASE txn' = [txn EXCEPT ![s].found = None, ![s].row = NewIncident(s)]
    <3>1. txn'[s].row = NewIncident(s) /\ txn'[s].found = None
      BY <2>1, <2>2 DEF TypeInv, TypeOK, Txn
    <3>2. NewIncident(s).attempt_count = 0
      BY DEF NewIncident
    <3> QED
      BY <3>1, <3>2 DEF LoadedCounted
  <2>3. ASSUME NEW n \in OpenIncidents(ip(s)),
               txn' = [txn EXCEPT ![s].found = n, ![s].row = incidents[n]]
        PROVE  LoadedCounted(s)'
    <3>1. txn'[s].row = incidents[n] /\ txn'[s].found = n
      BY <2>1, <2>3 DEF TypeInv, TypeOK, Txn
    <3>2. n \in DOMAIN incidents /\ n # None
      BY NoneAssumption DEF OpenIncidents, TypeInv, TypeOK, RowIds
    <3>3. incidents[n].attempt_count <= LinkedAttempts(n)
      BY <3>2 DEF AttemptsInv, AttemptsBacked
    <3> QED
      BY <1>2, <3>1, <3>2, <3>3 DEF LoadedCounted
  <2> QED
    BY <2>2, <2>3 DEF SelectIncident
<1>5. ASSUME NEW t \in Sessions \ {s}, pc'[t] \in {"flush", "commit"}
      PROVE  LoadedCounted(t)'
  <2>1. LoadedCounted(t) /\ txn'[t] = txn[t]
    BY <1>1, <1>5, AttemptsParts
  <2> QED
    BY <1>2, <2>1 DEF LoadedCounted
<1> QED
  BY <1>3, <1>4, <1>5 DEF AttemptsInv, LoadedCounted

\* A commit writes the count it loaded and its own attempts on top, or leaves
\* the count as the table has it by now: that is what an update may lose.
LEMMA WrittenAttempts ==
  ASSUME TypeInv, NEW s \in Sessions, pc[s] = "commit"
  PROVE  /\ Attempts(capture[s].evidence.auth_attempts) \in Nat \ {0}
         /\ IncidentWrite(s).attempt_count =
              txn[s].row.attempt_count + Attempts(capture[s].evidence.auth_attempts)
<1> DEFINE row == txn[s].row
           c == Correlated(row, s)
           more == Attempts(capture[s].evidence.auth_attempts)
<1>1. row \in Incident /\ capture[s] \in Capture
  BY CommitTypes
<1>2. more \in Nat \ {0}
  BY <1>1 DEF Attempts, Capture, Evidence
<1>3. c.attempt_count = row.attempt_count + more
  BY <1>1, CorrelatedFields
<1>4. row.attempt_count \in Nat
  BY <1>1 DEF Incident
<1> HIDE DEF row, c, more
<1>5. c.attempt_count # row.attempt_count
  BY <1>2, <1>3, <1>4
<1>6. IncidentWrite(s).attempt_count = c.attempt_count
  BY <1>5 DEF IncidentWrite, UpdatedRow, Column, row, c
<1> QED
  BY <1>2, <1>3, <1>6 DEF row, more

LEMMA AttemptsCommit ==
  ASSUME TypeInv, SourceInv, AttemptsInv, NEW s \in Sessions,
         Commit(s) \/ CommitUnacknowledged(s)
  PROVE  AttemptsInv'
<1>1. /\ pc[s] = "commit" /\ Apply(s)
      /\ pc'[s] \in {"publish", "failed"}
      /\ \A t \in Sessions \ {s} : pc'[t] = pc[t] /\ txn'[t] = txn[t]
  BY CommitSteady
<1> DEFINE m == IncidentId(s)
           more == Attempts(capture[s].evidence.auth_attempts)
<1>2. /\ DOMAIN incidents' = DOMAIN incidents \cup {m}
      /\ \A n \in DOMAIN incidents \ {m} : incidents'[n] = incidents[n]
      /\ incidents'[m].attempt_count = txn[s].row.attempt_count + more
      /\ more \in Nat
  BY <1>1, ApplySource, WrittenAttempts
<1>3. \A n : LinkedAttempts(n) \in Nat
  BY LinkedRows
<1>4. \A n : LinkedAttempts(n)' = IF n = m THEN LinkedAttempts(n) + more ELSE LinkedAttempts(n)
  BY <1>1, LinkedCommit
<1>5. txn[s].row.attempt_count <= LinkedAttempts(m)
  <2>1. LoadedCounted(s) /\ txn[s].row.attempt_count \in Nat
    BY <1>1, AttemptsParts, CommitTypes DEF Incident
  <2>2. CASE txn[s].found = None
    BY <1>3, <2>1, <2>2 DEF LoadedCounted
  <2>3. CASE txn[s].found # None
    BY <2>1, <2>3 DEF LoadedCounted, IncidentId
  <2> QED
    BY <2>2, <2>3
<1>6. txn[s].row.attempt_count \in Nat
  BY <1>1, CommitTypes DEF Incident
<1> HIDE DEF m, more
<1>7. ASSUME NEW n \in DOMAIN incidents'
      PROVE  incidents'[n].attempt_count <= LinkedAttempts(n)'
  <2>1. CASE n = m
    <3>1. LinkedAttempts(n)' = LinkedAttempts(n) + more
      BY <1>4, <2>1
    <3>2. LinkedAttempts(n) \in Nat /\ txn[s].row.attempt_count <= LinkedAttempts(n)
      BY <1>3, <1>5, <2>1
    <3>3. incidents'[n].attempt_count = txn[s].row.attempt_count + more
      BY <1>2, <2>1
    <3> QED
      BY ONLY <1>2, <1>6, <3>1, <3>2, <3>3
  <2>2. CASE n # m
    <3>1. n \in DOMAIN incidents /\ incidents'[n] = incidents[n]
      BY <1>2, <1>7, <2>2
    <3>2. LinkedAttempts(n)' = LinkedAttempts(n)
      BY <1>4, <2>2
    <3> QED
      BY <3>1, <3>2 DEF AttemptsInv, AttemptsBacked
  <2> QED
    BY <2>1, <2>2
<1>8. ASSUME NEW n
      PROVE  LinkedAttempts(n) <= LinkedAttempts(n)' /\ LinkedAttempts(n)' \in Nat
  <2>1. LinkedAttempts(n) \in Nat
    BY <1>3
  <2>2. LinkedAttempts(n)' = LinkedAttempts(n) + more \/ LinkedAttempts(n)' = LinkedAttempts(n)
    BY <1>4
  <2> QED
    BY <1>2, <2>1, <2>2
<1>9. ASSUME NEW t \in Sessions, pc'[t] \in {"flush", "commit"}
      PROVE  LoadedCounted(t)'
  <2>1. t # s /\ pc'[t] = pc[t] /\ txn'[t] = txn[t]
    BY <1>1, <1>9
  <2>2. LoadedCounted(t) /\ txn[t].row.attempt_count \in Nat
    BY <1>9, <2>1, AttemptsParts DEF TypeInv, TypeOK, Incident
  <2>3. CASE txn[t].found = None
    BY <2>1, <2>2, <2>3 DEF LoadedCounted
  <2>4. CASE txn[t].found # None
    <3> DEFINE n == txn[t].found
    <3>1. txn[t].row.attempt_count <= LinkedAttempts(n)
      BY <2>2, <2>4 DEF LoadedCounted
    <3>2. LinkedAttempts(n) <= LinkedAttempts(txn[t].found)' /\ LinkedAttempts(n) \in Nat
          /\ LinkedAttempts(txn[t].found)' \in Nat
      BY <1>3, <1>8, <2>1
    <3> QED
      BY <2>1, <2>2, <2>4, <3>1, <3>2 DEF LoadedCounted
  <2> QED
    BY <2>3, <2>4
<1> QED
  BY <1>7, <1>9 DEF AttemptsInv, AttemptsBacked, LoadedCounted

LEMMA AttemptsStep == TypeInv /\ SourceInv /\ AttemptsInv /\ [Next]_vars => AttemptsInv'
BY NextCases, AttemptsQuiet, AttemptsSelect, AttemptsCommit

---------------------------------------------------------------------------
(* Dates.  Whether two stored attacks came from sessions that were open    *)
(* together is settled when the later one connects.                        *)

\* A session learns what is stored when it connects and at no other time.
LEMMA KnownKept ==
  ASSUME TypeInv, [Next]_vars, NEW t \in Sessions
  PROVE  \/ known'[t] = known[t]
         \/ /\ pc[t] = "idle" /\ known'[t] = attacks /\ ts(t)' = clock
            /\ UNCHANGED <<clock, attacks>>
<1> USE DEF TypeInv, TypeOK
<1>1. CASE Tick \/ Shutdown \/ Exit \/ Restart \/ UNCHANGED vars
  BY <1>1 DEF Tick, Shutdown, Exit, Restart, vars
<1>2. ASSUME NEW s \in Sessions, NEW i \in IPs, Connect(s, i)
      PROVE  \/ known'[t] = known[t]
             \/ /\ pc[t] = "idle" /\ known'[t] = attacks /\ ts(t)' = clock
                /\ UNCHANGED <<clock, attacks>>
  BY <1>2 DEF Connect, ts
<1>3. ASSUME NEW s \in Sessions, NEW e \in Inputs, StartIngest(s, e)
      PROVE  known'[t] = known[t]
  BY <1>3 DEF StartIngest
<1>4. ASSUME NEW s \in Sessions, Worker(s)
      PROVE  known'[t] = known[t]
  BY <1>4 DEF Worker, Progress, CountPrior, SelectIncident, Flush, Commit, Rollback,
              Publish, PublishFails, CommitUnacknowledged, EndThread
<1> QED
  BY <1>1, <1>2, <1>3, <1>4 DEF Next

\* A running session keeps the time of its connection.
LEMMA StampKept ==
  ASSUME TypeInv, [Next]_vars, NEW t \in Sessions, pc'[t] \in Running
  PROVE  \/ pc[t] \in Running /\ ts(t)' = ts(t)
         \/ ts(t)' = clock /\ clock' = clock /\ known'[t] = attacks
<1> DEFINE Kept == pc[t] \in Running /\ capture'[t].timestamp = capture[t].timestamp
<1> USE DEF TypeInv, TypeOK, Running, InTransaction
<1>1. CASE Tick \/ Shutdown \/ Exit \/ Restart \/ UNCHANGED vars
  BY <1>1 DEF Tick, Shutdown, Exit, Restart, vars, ts
<1>2. ASSUME NEW s \in Sessions, NEW i \in IPs, Connect(s, i)
      PROVE  Kept \/ (ts(t)' = clock /\ clock' = clock /\ known'[t] = attacks)
  BY <1>2 DEF Connect, ts
<1>3. ASSUME NEW s \in Sessions, NEW e \in Inputs, StartIngest(s, e)
      PROVE  Kept
  BY <1>3 DEF StartIngest, Capture
<1>4. ASSUME NEW s \in Sessions,
             CountPrior(s) \/ SelectIncident(s) \/ Flush(s) \/ Commit(s)
      PROVE  Kept
  BY <1>4 DEF CountPrior, SelectIncident, Flush, Commit
<1>5. ASSUME NEW s \in Sessions,
             Rollback(s) \/ Publish(s) \/ PublishFails(s) \/ CommitUnacknowledged(s)
      PROVE  Kept
  BY <1>5 DEF Rollback, Publish, PublishFails, CommitUnacknowledged, EndThread
<1> QED
  BY <1>1, <1>2, <1>3, <1>4, <1>5 DEF Next, Worker, Progress, ts

LEMMA TimesInit == Init => TimesInv
<1> SUFFICES ASSUME Init PROVE TimesInv
  OBVIOUS
<1>1. PICK seeded \in SUBSET SeedIPs : attacks = {SeedAttack(i) : i \in seeded}
  BY DEF Init
<1>2. \A a \in attacks : a.timestamp = 0
  BY <1>1 DEF SeedAttack
<1>3. \A s \in Sessions : pc[s] \notin Running
  BY DEF Init, Running, InTransaction
<1> QED
  BY <1>2, <1>3 DEF Init, TimesInv

\* What a step adds to the attacks is dated by the session that commits it.
LEMMA AddedAttack ==
  ASSUME TypeInv, [Next]_vars, NEW a \in attacks', a \notin attacks
  PROVE  \E s \in Sessions : pc[s] = "commit" /\ a.timestamp = ts(s)
<1>1. CASE Quiet
  BY <1>1, QuietSteady
<1>2. ASSUME NEW s \in Sessions, SelectIncident(s)
      PROVE  attacks' = attacks
  BY <1>2 DEF SelectIncident
<1>3. ASSUME NEW s \in Sessions, Commit(s) \/ CommitUnacknowledged(s)
      PROVE  pc[s] = "commit" /\ a.timestamp = ts(s)
  BY <1>3 DEF Commit, CommitUnacknowledged, Apply, AttackRow
<1> QED
  BY <1>1, <1>2, <1>3, NextCases

LEMMA TimesStep == TypeInv /\ TimesInv /\ [Next]_vars => TimesInv'
<1> SUFFICES ASSUME TypeInv, TimesInv, [Next]_vars PROVE TimesInv'
  OBVIOUS
<1>1. clock \in Nat /\ clock' \in Nat /\ clock <= clock'
  <2>1. ASSUME NEW s \in Sessions, Worker(s)
        PROVE  clock' = clock
    BY <2>1 DEF Worker, Progress, CountPrior, SelectIncident, Flush, Commit, Rollback,
                Publish, PublishFails, CommitUnacknowledged
  <2>2. clock' = clock \/ clock' = clock + 1
    BY <2>1 DEF Next, Tick, Shutdown, Exit, Restart, vars, Connect, StartIngest
  <2>3. clock \in Nat
    BY DEF TypeInv, TypeOK
  <2> QED
    BY <2>2, <2>3
<1>2. ASSUME NEW a \in attacks' PROVE a.timestamp \in Nat /\ a.timestamp <= clock
  <2>1. attacks' \subseteq Attack
    BY StepType DEF TypeInv, TypeOK
  <2>2. CASE a \in attacks
    BY <2>1, <2>2 DEF TimesInv, Attack
  <2>3. CASE a \notin attacks
    BY <2>1, <2>3, AddedAttack DEF TimesInv, Attack, Running, InTransaction
  <2> QED
    BY <2>2, <2>3
<1>3. \A a \in attacks' : a.timestamp <= clock'
  BY <1>1, <1>2
<1>4. ASSUME NEW t \in Sessions, pc'[t] \in Running
      PROVE  ts(t)' <= clock' /\ \A a \in known'[t] : a.timestamp <= ts(t)'
  <2>1. CASE ts(t)' = clock /\ clock' = clock /\ known'[t] = attacks
    BY <1>1, <2>1 DEF TimesInv
  <2>2. CASE pc[t] \in Running /\ ts(t)' = ts(t)
    <3>1. pc[t] # "idle"
      BY <2>2 DEF Running, InTransaction
    <3>2. known'[t] = known[t]
      BY <3>1, KnownKept
    <3>3. ts(t) \in Nat
      BY <2>2 DEF TypeInv, TypeOK, Capture, ts
    <3> QED
      BY <1>1, <2>2, <3>2, <3>3 DEF TimesInv
  <2> QED
    BY <1>4, <2>1, <2>2, StampKept
<1> QED
  BY <1>3, <1>4 DEF TimesInv

\* What the session of a stored attack knew is settled.
LEMMA KnownToKept ==
  ASSUME TypeInv, SourceInv, [Next]_vars, NEW c \in attacks
  PROVE  KnownTo(c)' = KnownTo(c)
<1>1. CASE c.session_id \in Sessions
  <2>1. pc[c.session_id] # "idle"
    BY <1>1 DEF SourceInv, Unstored
  <2> QED
    BY <1>1, <2>1, KnownKept DEF KnownTo
<1> QED
  BY <1>1 DEF KnownTo

LEMMA TogetherKept ==
  ASSUME TypeInv, SourceInv, [Next]_vars, NEW a \in attacks, NEW b \in attacks
  PROVE  Together(a, b)' <=> Together(a, b)
BY KnownToKept DEF Together

LEMMA DatesInit == Init => DatesInv
<1> SUFFICES ASSUME Init PROVE DatesInv
  OBVIOUS
<1>1. PICK seeded \in SUBSET SeedIPs :
        /\ attacks = {SeedAttack(i) : i \in seeded}
        /\ \E st \in [seeded -> Statuses] :
             incidents = [i \in seeded |-> SeedIncident(i, st[i])]
  BY DEF Init
<1>2. \A a \in attacks : a.timestamp = 0
  BY <1>1 DEF SeedAttack
<1>3. \A n \in DOMAIN incidents : incidents[n].first_seen = 0 /\ incidents[n].last_seen = 0
  BY <1>1 DEF SeedIncident
<1>4. DatesMissOnlyOverlapping
  BY <1>2, <1>3 DEF DatesMissOnlyOverlapping, Linked
<1>5. \A s \in Sessions : pc[s] \notin {"flush", "commit"}
  BY DEF Init
<1> QED
  BY <1>4, <1>5, TimesInit DEF DatesInv

\* As long as the tables stay, so does what the dates miss.
LEMMA MissKept ==
  ASSUME TypeInv, SourceInv, DatesInv, [Next]_vars, UNCHANGED <<attacks, incidents>>
  PROVE  DatesMissOnlyOverlapping'
<1> SUFFICES ASSUME NEW n \in DOMAIN incidents, NEW a \in Linked(n)
             PROVE  \/ a.timestamp \in incidents[n].first_seen..incidents[n].last_seen
                    \/ \E b \in Linked(n) : Together(a, b)'
  BY DEF DatesMissOnlyOverlapping, Linked
<1>1. \/ a.timestamp \in incidents[n].first_seen..incidents[n].last_seen
      \/ \E b \in Linked(n) : Together(a, b)
  BY DEF DatesInv, DatesMissOnlyOverlapping
<1>2. \A b \in Linked(n) : Together(a, b)' <=> Together(a, b)
  BY TogetherKept DEF Linked
<1> QED
  BY <1>1, <1>2

LEMMA DatesQuiet ==
  ASSUME TypeInv, SourceInv, DatesInv, [Next]_vars, Quiet
  PROVE  DatesMissOnlyOverlapping'
         /\ \A t \in Sessions : pc'[t] \in {"flush", "commit"} => LoadedDated(t)'
<1>1. UNCHANGED <<attacks, incidents>> /\ \A t \in Sessions : Steady(t)
  BY QuietSteady
<1>2. ASSUME NEW t \in Sessions, pc'[t] \in {"flush", "commit"}
      PROVE  LoadedDated(t)'
  <2>1. pc[t] \in {"flush", "commit"} /\ txn'[t] = txn[t]
    BY <1>1, <1>2 DEF Steady, Loaded, Unstored, InTransaction
  <2>2. LoadedDated(t) /\ known'[t] = known[t]
    BY <2>1, KnownKept DEF DatesInv
  <2> QED
    BY <1>1, <2>1, <2>2 DEF LoadedDated, Linked
<1> QED
  BY <1>1, <1>2, MissKept

LEMMA DatesSelect ==
  ASSUME TypeInv, SourceInv, DatesInv, [Next]_vars, NEW s \in Sessions, SelectIncident(s)
  PROVE  DatesMissOnlyOverlapping'
         /\ \A t \in Sessions : pc'[t] \in {"flush", "commit"} => LoadedDated(t)'
<1>1. /\ pc[s] = "select" /\ UNCHANGED <<attacks, incidents, known>>
      /\ \A t \in Sessions \ {s} : pc'[t] = pc[t] /\ txn'[t] = txn[t]
  BY SelectTxn
<1>2. \/ txn' = [txn EXCEPT ![s].found = None, ![s].row = NewIncident(s)]
      \/ \E n \in OpenIncidents(ip(s)) :
           txn' = [txn EXCEPT ![s].found = n, ![s].row = incidents[n]]
  BY DEF SelectIncident
<1>3. txn[s] \in Txn /\ txn \in [Sessions -> Txn \cup {None}]
  BY <1>1 DEF TypeInv, TypeOK, InTransaction
<1>4. LoadedDated(s)'
  <2>1. CASE txn' = [txn EXCEPT ![s].found = None, ![s].row = NewIncident(s)]
    <3>1. txn'[s].found = None
      BY <1>3, <2>1 DEF Txn
    <3> QED
      BY <3>1 DEF LoadedDated
  <2>2. ASSUME NEW n \in OpenIncidents(ip(s)),
               txn' = [txn EXCEPT ![s].found = n, ![s].row = incidents[n]]
        PROVE  LoadedDated(s)'
    <3>1. txn'[s].row = incidents[n] /\ txn'[s].found = n
      BY <1>3, <2>2 DEF Txn
    <3> QED
      BY <1>1, <3>1 DEF LoadedDated
  <2> QED
    BY <1>2, <2>1, <2>2
<1>5. ASSUME NEW t \in Sessions \ {s}, pc'[t] \in {"flush", "commit"}
      PROVE  LoadedDated(t)'
  <2>1. LoadedDated(t) /\ txn'[t] = txn[t]
    BY <1>1, <1>5 DEF DatesInv
  <2> QED
    BY <1>1, <2>1 DEF LoadedDated, Linked
<1> QED
  BY <1>1, <1>4, <1>5, MissKept

\* The dates a commit leaves: those of its session, or the first sighting the
\* table has and the later end it has, moved to the session or left alone.
LEMMA WrittenDates ==
  ASSUME TypeInv, NEW s \in Sessions, pc[s] = "commit", LoadedBacked(s)
  PROVE  LET new == IncidentWrite(s)
             old == incidents[IncidentId(s)]
         IN  /\ txn[s].found = None => new.first_seen = ts(s) /\ new.last_seen = ts(s)
             /\ txn[s].found # None =>
                  /\ new.first_seen = old.first_seen
                  /\ \/ new.last_seen = ts(s)
                     \/ new.last_seen = old.last_seen /\ txn[s].row.last_seen = ts(s)
<1> DEFINE row == txn[s].row
           c == Correlated(row, s)
           old == incidents[IncidentId(s)]
           new == IncidentWrite(s)
<1>1. row \in Incident
  BY CommitTypes
<1>2. c.first_seen = row.first_seen /\ c.last_seen = ts(s)
  BY <1>1, CorrelatedFields
<1>3. CASE txn[s].found = None
  <2>1. new = c /\ row.first_seen = ts(s)
    BY <1>3 DEF IncidentWrite, LoadedBacked
  <2> HIDE DEF row, c, new, old
  <2> QED
    BY <1>2, <1>3, <2>1 DEF new
<1>4. CASE txn[s].found # None
  <2>1. new = UpdatedRow(old, row, c)
    BY <1>4 DEF IncidentWrite, IncidentId
  <2>2. /\ new.first_seen = Column(old.first_seen, row.first_seen, c.first_seen)
        /\ new.last_seen = Column(old.last_seen, row.last_seen, c.last_seen)
    BY <2>1 DEF UpdatedRow
  <2> HIDE DEF row, c, new, old
  <2>3. /\ new.first_seen = old.first_seen
        /\ \/ new.last_seen = ts(s)
           \/ new.last_seen = old.last_seen /\ row.last_seen = ts(s)
    BY <1>2, <2>2 DEF Column
  <2> QED
    BY <1>4, <2>3 DEF row, old, new
<1> QED
  BY <1>3, <1>4

\* The row that s commits is together with every attack s does not know of.
LEMMA Newcomer ==
  ASSUME TypeInv, SourceInv, HistoryInv, [Next]_vars, NEW s \in Sessions,
         pc[s] = "commit", NEW mine, mine = AttackRow(s),
         NEW b \in attacks, b \notin known[s]
  PROVE  Together(mine, b)' /\ Together(b, mine)'
<1>1. mine.session_id = s
  BY DEF AttackRow
<1>2. mine \notin attacks
  BY <1>1 DEF SourceInv, Unstored, InTransaction
<1>3. KnownTo(mine)' = known[s]
  BY <1>1, KnownKept DEF KnownTo
<1>4. KnownTo(b)' = KnownTo(b) /\ KnownTo(b) \subseteq attacks
  BY KnownToKept DEF KnownTo, HistoryInv
<1> QED
  BY <1>2, <1>3, <1>4 DEF Together

LEMMA DatesCommit ==
  ASSUME TypeInv, SourceInv, HistoryInv, BackedInv, DatesInv, [Next]_vars,
         NEW s \in Sessions, Commit(s) \/ CommitUnacknowledged(s)
  PROVE  DatesMissOnlyOverlapping'
         /\ \A t \in Sessions : pc'[t] \in {"flush", "commit"} => LoadedDated(t)'
<1>1. /\ pc[s] = "commit" /\ Apply(s)
      /\ pc'[s] \in {"publish", "failed"}
      /\ \A t \in Sessions \ {s} : pc'[t] = pc[t] /\ txn'[t] = txn[t]
  BY CommitSteady
<1>2. PICK mine : mine = AttackRow(s)
  OBVIOUS
<1> DEFINE m == IncidentId(s)
           new == IncidentWrite(s)
           found == txn[s].found
           After(n) == {a \in attacks' : a.incident_id = n}
<1>3. /\ attacks' = attacks \cup {mine}
      /\ DOMAIN incidents' = DOMAIN incidents \cup {m}
      /\ \A n \in DOMAIN incidents \ {m} : incidents'[n] = incidents[n]
      /\ incidents'[m] = new
  BY <1>1, <1>2, ApplySource
<1>4. mine.incident_id = m /\ mine.timestamp = ts(s)
  BY <1>2 DEF AttackRow
<1>5. (\A n : n # m => After(n) = Linked(n)) /\ After(m) = Linked(m) \cup {mine}
  BY <1>3, <1>4 DEF Linked
<1>6. found # None => m = found /\ m \in DOMAIN incidents /\ incidents[m] \in Incident
  BY <1>1, CommitTypes DEF IncidentId
<1>7. found = None => Linked(m) = {}
  BY <1>1 DEF IncidentId, SourceInv, AttacksGroupedBySource, Unstored, InTransaction, Linked
<1>8. /\ found = None => new.first_seen = ts(s) /\ new.last_seen = ts(s)
      /\ found # None =>
           /\ new.first_seen = incidents[m].first_seen
           /\ \/ new.last_seen = ts(s)
              \/ new.last_seen = incidents[m].last_seen /\ txn[s].row.last_seen = ts(s)
  BY <1>1, WrittenDates DEF BackedInv
<1>9. ts(s) \in Nat /\ \A b \in attacks : b.timestamp \in Nat
  BY <1>1, CommitTypes DEF TypeInv, TypeOK, Attack, Capture, ts
<1>10. \A b \in Linked(m) : b \in known[s] => b.timestamp <= ts(s)
  BY <1>1 DEF DatesInv, TimesInv, Running, InTransaction
<1>11. \A b \in Linked(m) : b \notin known[s] => Together(mine, b)' /\ Together(b, mine)'
  BY <1>1, <1>2, Newcomer DEF Linked
<1>12. \A a, b \in attacks : Together(a, b)' <=> Together(a, b)
  BY TogetherKept
<1>13. \A n \in DOMAIN incidents : \A a \in Linked(n) :
         \/ a.timestamp \in incidents[n].first_seen..incidents[n].last_seen
         \/ \E b \in Linked(n) : Together(a, b)'
  BY <1>12 DEF DatesInv, DatesMissOnlyOverlapping, Linked
<1>14. found # None => \E b \in Linked(m) : b.timestamp = incidents[m].first_seen
  BY <1>6 DEF BackedInv, EvidenceBacked
<1>15. found # None /\ incidents[m].last_seen # txn[s].row.last_seen
         => \E b \in Linked(m) : b \notin known[s]
  BY <1>1, <1>6 DEF DatesInv, LoadedDated
<1>16. Linked(m) \subseteq attacks
  BY DEF Linked
<1> HIDE DEF m, new, found, After
<1>17. ASSUME NEW a \in After(m)
       PROVE  \/ a.timestamp \in new.first_seen..new.last_seen
              \/ \E b \in After(m) : Together(a, b)'
  <2>1. CASE found = None
    BY <1>4, <1>5, <1>7, <1>8, <1>9, <2>1
  <2>2. CASE found # None /\ a \in Linked(m)
    <3>1. CASE a \notin known[s]
      BY <1>5, <1>11, <2>2, <3>1
    <3>2. CASE a \in known[s]
      <4>1. a.timestamp <= ts(s) /\ a.timestamp \in Nat
        BY <1>9, <1>10, <1>16, <2>2, <3>2
      <4>2. incidents[m].first_seen \in Nat /\ incidents[m].last_seen \in Nat
        BY <1>6, <2>2 DEF Incident
      <4>3. CASE a.timestamp \in incidents[m].first_seen..incidents[m].last_seen
        <5>1. new.last_seen \in {ts(s), incidents[m].last_seen}
          BY <1>8, <2>2
        <5> QED
          BY <1>8, <1>9, <2>2, <4>1, <4>2, <4>3, <5>1
      <4>4. CASE \E b \in Linked(m) : Together(a, b)'
        BY <1>5, <4>4
      <4> QED
        BY <1>6, <1>13, <2>2, <4>3, <4>4
    <3> QED
      BY <3>1, <3>2
  <2>3. CASE found # None /\ a = mine
    <3>1. CASE \E b \in Linked(m) : b \notin known[s]
      BY <1>5, <1>11, <2>3, <3>1
    <3>2. CASE \A b \in Linked(m) : b \in known[s]
      <4>1. new.first_seen <= ts(s) /\ new.first_seen \in Nat
        BY <1>8, <1>9, <1>10, <1>14, <1>16, <2>3, <3>2
      <4>2. new.last_seen = ts(s)
        BY <1>8, <1>15, <2>3, <3>2
      <4> QED
        BY <1>4, <1>9, <2>3, <4>1, <4>2
    <3> QED
      BY <3>1, <3>2
  <2> QED
    BY <1>5, <2>1, <2>2, <2>3
<1>18. DatesMissOnlyOverlapping'
  <2>1. ASSUME NEW n \in DOMAIN incidents', NEW a \in After(n)
        PROVE  \/ a.timestamp \in incidents'[n].first_seen..incidents'[n].last_seen
               \/ \E b \in After(n) : Together(a, b)'
    <3>1. CASE n = m
      BY <1>3, <1>17, <3>1
    <3>2. CASE n # m
      BY <1>3, <1>5, <1>13, <2>1, <3>2
    <3> QED
      BY <3>1, <3>2
  <2> QED
    BY <2>1 DEF DatesMissOnlyOverlapping, Linked, After
<1>19. ASSUME NEW t \in Sessions, pc'[t] \in {"flush", "commit"}
       PROVE  LoadedDated(t)'
  <2>1. t # s /\ pc[t] \in {"flush", "commit"} /\ txn'[t] = txn[t]
    BY <1>1, <1>19
  <2>2. LoadedDated(t) /\ known'[t] = known[t] /\ known[t] \subseteq attacks
    BY <2>1, KnownKept DEF DatesInv, HistoryInv
  <2> DEFINE f == txn[t].found
  <2>3. CASE f = m
    <3>1. mine \in After(f) /\ mine \notin attacks
      BY <1>1, <1>2, <1>5, <2>3 DEF AttackRow, SourceInv, Unstored, InTransaction
    <3> QED
      BY <2>1, <2>2, <3>1 DEF LoadedDated, Linked, After
  <2>4. CASE f # m /\ f # None
    <3>1. f \in DOMAIN incidents /\ incidents'[f] = incidents[f] /\ After(f) = Linked(f)
      BY <1>3, <1>5, <2>1, <2>4 DEF TypeInv, FoundIsStored
    <3> QED
      BY <2>1, <2>2, <3>1 DEF LoadedDated, Linked, After
  <2>5. CASE f = None
    BY <2>1, <2>5 DEF LoadedDated
  <2> QED
    BY <2>3, <2>4, <2>5
<1> QED
  BY <1>18, <1>19

LEMMA DatesStep ==
  TypeInv /\ SourceInv /\ HistoryInv /\ BackedInv /\ DatesInv /\ [Next]_vars => DatesInv'
<1> SUFFICES ASSUME TypeInv, SourceInv, HistoryInv, BackedInv, DatesInv, [Next]_vars
             PROVE  DatesInv'
  OBVIOUS
<1>1. TimesInv'
  BY TimesStep DEF DatesInv
<1>2. DatesMissOnlyOverlapping'
      /\ \A t \in Sessions : pc'[t] \in {"flush", "commit"} => LoadedDated(t)'
  BY NextCases, DatesQuiet, DatesSelect, DatesCommit
<1> QED
  BY <1>1, <1>2 DEF DatesInv

---------------------------------------------------------------------------
(* All of it together.                                                     *)

LEMMA InvInit == Init => IInv
BY InitType, SourceInit, IdentityInit, StoredInit, HistoryInit, BackedInit,
   AttemptsInit, DatesInit DEF IInv

LEMMA InvStep == IInv /\ [Next]_vars => IInv'
BY StepType, SourceStep, IdentityStep, StoredStep, HistoryStep, BackedStep,
   AttemptsStep, DatesStep DEF IInv

\* The inductive invariant of the pipeline: all that IngestSerial adds to it
\* needs ingests that do not overlap.
THEOREM Inductive == Spec => []IInv
<1> QED
  BY InvInit, InvStep, PTL DEF Spec

\* correlate(): whatever interleaves, fails or crashes, an incident claims what
\* attacks linked to it have shown, and counts no attempt that they did not make.
THEOREM ClaimsAreBacked == Spec => []IncidentsBacked
<1>1. IInv => IncidentsBacked
  BY DEF IInv, BackedInv, AttemptsInv, IncidentsBacked
<1> QED
  BY <1>1, Inductive, PTL

\* correlate(): whatever interleaves, fails or crashes, the dates of an incident
\* miss no attack but one of a session that was open together with another
\* session of that incident: last_seen is never moved back behind attacks that
\* were stored when the writing session connected.
THEOREM DatesCorrect == Spec => []DatesMissOnlyOverlapping
<1>1. IInv => DatesMissOnlyOverlapping
  BY DEF IInv, DatesInv
<1> QED
  BY <1>1, Inductive, PTL
=============================================================================
