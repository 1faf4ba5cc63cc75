------------------------------- MODULE Ingest -------------------------------
(***************************************************************************)
(* The ingest pipeline under concurrency.  Every honeypot connection has   *)
(* its own daemon thread; when the session ends the thread runs            *)
(* PipelineSink.write -> IngestPipeline.process -> IncidentEngine.correlate*)
(* -> RealtimePublisher.publish against one PostgreSQL database, in a      *)
(* READ COMMITTED transaction without explicit locks:                      *)
(*                                                                         *)
(*   live --StartIngest--> count --CountPrior--> select --SelectIncident-->*)
(*   flush --Flush--> commit --Commit--> publish --Publish--> done         *)
(*                                                                         *)
(* Each arrow is one database statement (or the work between two of them), *)
(* so the threads interleave at the statements.  A statement may fail, the *)
(* acknowledgement of a COMMIT may be lost, and the process may be stopped *)
(* or die at any point.                                                    *)
(*                                                                         *)
(* Rows are named by what inserted them: the attack and the incident that  *)
(* session s inserts are s's, the rows a demo seed inserted for an address *)
(* are the address's.                                                      *)
(***************************************************************************)
EXTENDS Intel, FiniteSetsExt

CONSTANTS
  Sessions,       \* one per accepted TCP connection
  IPs,            \* source addresses
  Inputs,         \* the evidence a session may end with
  HistoryWindow,  \* RISK_HISTORY_HOURS, in ticks of the clock
  MaxClock,       \* bound on the clock
  SeedIPs,        \* addresses that demo data may have rows for
  SeedScore,      \* risk score of a seeded attack
  Overlap,        \* FALSE: sessions of one address are ingested one at a time
  None            \* no incident found

ASSUME SessionsAssumption == Sessions \cap IPs = {} /\ IsFiniteSet(Sessions)
ASSUME IPsAssumption == IsFiniteSet(IPs)
ASSUME InputsAssumption == Inputs \subseteq Evidence
ASSUME WindowAssumption == HistoryWindow \in Nat /\ MaxClock \in Nat
ASSUME SeedAssumption == SeedIPs \subseteq IPs /\ SeedScore \in RiskScores
ASSUME NoneAssumption == None \notin Sessions \cup IPs
ASSUME OverlapAssumption == Overlap \in BOOLEAN
ASSUME GeoAssumption == IPs \subseteq DOMAIN GeoCountry

VARIABLES
  clock,      \* wall clock of the honeypot host
  proc,       \* the honeypot process: "up", "closing" (_shutdown), "down"
  pc,         \* where each session is
  capture,    \* the AttackRecord / CapturedSession of each session
  txn,        \* locals of process(): enrichment, prior count, incident object
  attacks,    \* committed rows of table attacks
  incidents,  \* committed rows of table incidents, by id
  published,  \* snapshots the backend has received
  known       \* observer: attacks committed when the session connected,
              \* kept when it has ended

vars == <<clock, proc, pc, capture, txn, attacks, incidents, published, known>>

---------------------------------------------------------------------------
Statuses == {"open", "triaged", "closed"}
RowIds == Sessions \cup IPs
\* What a country column can hold.
Countries == {NoCountry, LocalCountry} \cup {GeoCountry[i] : i \in IPs}

InTransaction == {"count", "select", "flush", "commit"}
Running == {"live", "publish"} \cup InTransaction
Settled == {"done", "failed", "lost"}
PCs == {"idle"} \cup Running \cup Settled
\* The thread has an incident object; the thread has committed nothing yet.
Loaded == {"flush", "commit", "publish"}
Unstored == {"idle", "live"} \cup InTransaction

Attempts(n) == IF n > 1 THEN n ELSE 1    \* max(1, auth_attempts)

Max2(m, n) == IF m > n THEN m ELSE n

NoEvidence == [username |-> "absent", auth_attempts |-> 0, commands |-> {}]

ip(s) == capture[s].source_ip
ts(s) == capture[s].timestamp

Country(s) == txn[s].geo.country

---------------------------------------------------------------------------
(* The database may hold demo data: generate() of seed_demo_large leaves   *)
(* one incident per source, in any status, and its attacks.                *)

SeedAttack(i) ==
  [ session_id |-> i, source_ip |-> i, timestamp |-> 0, auth_attempts |-> 3,
    risk_score |-> SeedScore, techniques |-> {}, incident_id |-> i ]

SeedIncident(i, st) ==
  [ source_ip |-> i, country |-> LocalCountry, first_seen |-> 0, last_seen |-> 0,
    attempt_count |-> 3, max_risk_score |-> SeedScore, status |-> st,
    techniques |-> {} ]

Init ==
  /\ clock = 0
  /\ proc = "up"
  /\ pc = [s \in Sessions |-> "idle"]
  /\ capture = [s \in Sessions |-> None]
  /\ txn = [s \in Sessions |-> None]
  /\ \E seeded \in SUBSET SeedIPs :
       /\ attacks = {SeedAttack(i) : i \in seeded}
       /\ \E st \in [seeded -> Statuses] :
            incidents = [i \in seeded |-> SeedIncident(i, st[i])]
  /\ published = {}
  /\ known = [s \in Sessions |-> {}]

---------------------------------------------------------------------------
(* The session before the pipeline.                                        *)

Tick ==
  /\ clock < MaxClock
  /\ clock' = clock + 1
  /\ UNCHANGED <<proc, pc, capture, txn, attacks, incidents, published, known>>

\* SessionHandler.handle: the record is stamped when the connection starts.
Connect(s, i) ==
  /\ proc = "up"
  /\ pc[s] = "idle"
  /\ pc' = [pc EXCEPT ![s] = "live"]
  /\ capture' = [capture EXCEPT ![s] =
       [source_ip |-> i, timestamp |-> clock, evidence |-> NoEvidence]]
  /\ known' = [known EXCEPT ![s] = attacks]
  /\ UNCHANGED <<clock, proc, txn, attacks, incidents, published>>

\* The session ends with evidence e and its thread enters PipelineSink.write;
\* process() enriches the address before it opens the transaction.
StartIngest(s, e) ==
  /\ proc # "down"
  /\ pc[s] = "live"
  /\ Overlap \/ \A t \in Sessions : pc[t] \in InTransaction => ip(t) # ip(s)
  /\ pc' = [pc EXCEPT ![s] = "count"]
  /\ capture' = [capture EXCEPT ![s].evidence = e]
  /\ txn' = [txn EXCEPT ![s] =
       [ geo |-> enrich(ip(s), proc = "up"), prior |-> 0, score |-> 0,
         techniques |-> {}, found |-> None, row |-> None ]]
  /\ UNCHANGED <<clock, proc, attacks, incidents, published, known>>

---------------------------------------------------------------------------
(* IngestPipeline.process and IncidentEngine.correlate.                    *)

\* The thread is past sink.write, or gone: its locals are gone with it.
EndThread(s, outcome) ==
  /\ pc' = [pc EXCEPT ![s] = outcome]
  /\ capture' = [capture EXCEPT ![s] = None]
  /\ txn' = [txn EXCEPT ![s] = None]
  /\ UNCHANGED known

\* The WHERE clause of _count_prior_attempts.
InWindow(t, before) == before - HistoryWindow <= t /\ t < before

PriorRows(rows, i, before) ==
  {a \in rows : a.source_ip = i /\ InWindow(a.timestamp, before)}

\* A count that forgets the history window.
CountedRows_AllHistory(s) == {a \in attacks : a.source_ip = ip(s)}

CountedRows(s) == PriorRows(attacks, ip(s), ts(s))

\* _count_prior_attempts sees the rows committed by now; detect() and score()
\* judge the session on that count.
CountPrior(s) ==
  /\ pc[s] = "count"
  /\ pc' = [pc EXCEPT ![s] = "select"]
  /\ LET n    == Cardinality(CountedRows(s))
         risk == Assess(capture[s].evidence, n, is_malicious(ip(s)), txn[s].geo)
     IN  txn' = [txn EXCEPT ![s].prior = n, ![s].score = risk.score,
                            ![s].techniques = risk.techniques]
  /\ UNCHANGED <<clock, proc, capture, attacks, incidents, published, known>>

\* A SELECT without its source filter, and one that only knows "open".
OpenIncidents_AnySource(i) ==
  {n \in DOMAIN incidents : incidents[n].status # "closed"}

OpenIncidents_NotTriaged(i) ==
  {n \in DOMAIN incidents : incidents[n].source_ip = i /\ incidents[n].status = "open"}

OpenIncidents(i) ==
  {n \in DOMAIN incidents : incidents[n].source_ip = i /\ incidents[n].status # "closed"}

\* An incident object built without its explicit zero.
NewIncident_NoCount(s) ==
  [ source_ip |-> ip(s), country |-> Country(s),
    first_seen |-> ts(s), last_seen |-> ts(s),
    attempt_count |-> None, max_risk_score |-> 0, status |-> "open", techniques |-> {} ]

NewIncident(s) ==
  [ source_ip |-> ip(s), country |-> Country(s),
    first_seen |-> ts(s), last_seen |-> ts(s),
    attempt_count |-> 0, max_risk_score |-> 0, status |-> "open", techniques |-> {} ]

\* Aggregates that are overwritten instead of merged ...
Correlated_Unmerged(row, s) ==
  [row EXCEPT
     !.last_seen = ts(s),
     !.attempt_count = @ + Attempts(capture[s].evidence.auth_attempts),
     !.max_risk_score = txn[s].score,
     !.techniques = txn[s].techniques]

\* ... dated by the time of processing ...
Correlated_Now(row, s) ==
  [row EXCEPT
     !.last_seen = clock,
     !.attempt_count = @ + Attempts(capture[s].evidence.auth_attempts),
     !.max_risk_score = Max2(@, txn[s].score),
     !.techniques = @ \cup txn[s].techniques]

\* ... or that put a triaged incident back to open.
Correlated_Reopens(row, s) ==
  [row EXCEPT
     !.last_seen = ts(s),
     !.attempt_count = @ + Attempts(capture[s].evidence.auth_attempts),
     !.max_risk_score = Max2(@, txn[s].score),
     !.techniques = @ \cup txn[s].techniques,
     !.status = "open"]

\* An incident whose last_seen is not moved.
Correlated_Undated(row, s) ==
  [row EXCEPT
     !.attempt_count = @ + Attempts(capture[s].evidence.auth_attempts),
     !.max_risk_score = Max2(@, txn[s].score),
     !.country = IF @ = NoCountry THEN Country(s) ELSE @,
     !.techniques = @ \cup txn[s].techniques]

\* The aggregates of the incident object after correlate().
Correlated(row, s) ==
  [row EXCEPT
     !.last_seen = ts(s),
     !.attempt_count = @ + Attempts(capture[s].evidence.auth_attempts),
     !.max_risk_score = Max2(@, txn[s].score),
     !.country = IF @ = NoCountry THEN Country(s) ELSE @,
     !.techniques = @ \cup txn[s].techniques]

\* The SELECT of correlate(): the open incident of the address seen last, or
\* a new Incident object.  txn[s].row keeps the object as it was loaded.
SelectIncident(s) ==
  /\ pc[s] = "select"
  /\ pc' = [pc EXCEPT ![s] = "flush"]
  /\ \/ /\ OpenIncidents(ip(s)) = {}
        /\ txn' = [txn EXCEPT ![s].found = None, ![s].row = NewIncident(s)]
     \/ \E n \in OpenIncidents(ip(s)) :
          /\ \A m \in OpenIncidents(ip(s)) :
               incidents[m].last_seen <= incidents[n].last_seen
          /\ txn' = [txn EXCEPT ![s].found = n, ![s].row = incidents[n]]
  /\ UNCHANGED <<clock, proc, capture, attacks, incidents, published, known>>

IncidentId(s) == IF txn[s].found = None THEN s ELSE txn[s].found

AttackRow(s) ==
  [ session_id    |-> s,
    source_ip     |-> ip(s),
    timestamp     |-> ts(s),
    auth_attempts |-> capture[s].evidence.auth_attempts,
    risk_score    |-> txn[s].score,
    techniques    |-> txn[s].techniques,
    incident_id   |-> IncidentId(s) ]

\* The row lock an UPDATE holds until its transaction ends.
Locked(n) == \E t \in Sessions : pc[t] = "commit" /\ txn[t].found = n

\* A callback that runs before the commit.
Flush_PublishesEarly(s) ==
  /\ pc[s] = "flush"
  /\ txn[s].found = None \/ ~Locked(txn[s].found)
  /\ pc' = [pc EXCEPT ![s] = "commit"]
  /\ published' = published \cup {AttackRow(s)}
  /\ UNCHANGED <<clock, proc, capture, txn, attacks, incidents, known>>

\* session.flush() writes the incident, then the attack.  An INSERT of a new
\* incident waits for nobody; an UPDATE waits for the row lock.
Flush(s) ==
  /\ pc[s] = "flush"
  /\ txn[s].found = None \/ ~Locked(txn[s].found)
  /\ pc' = [pc EXCEPT ![s] = "commit"]
  /\ UNCHANGED <<clock, proc, capture, txn, attacks, incidents, published, known>>

\* SQLAlchemy's UPDATE sets the columns whose value changed since the load,
\* to the value computed from the load; the other columns keep what they have.
Column(current, loaded, computed) == IF computed # loaded THEN computed ELSE current

UpdatedRow(current, loaded, computed) ==
  [ source_ip      |-> Column(current.source_ip, loaded.source_ip, computed.source_ip),
    country        |-> Column(current.country, loaded.country, computed.country),
    first_seen     |-> Column(current.first_seen, loaded.first_seen, computed.first_seen),
    last_seen      |-> Column(current.last_seen, loaded.last_seen, computed.last_seen),
    attempt_count  |-> Column(current.attempt_count, loaded.attempt_count, computed.attempt_count),
    max_risk_score |-> Column(current.max_risk_score, loaded.max_risk_score, computed.max_risk_score),
    status         |-> Column(current.status, loaded.status, computed.status),
    techniques     |-> Column(current.techniques, loaded.techniques, computed.techniques) ]

IncidentWrite(s) ==
  LET computed == Correlated(txn[s].row, s) IN
    IF txn[s].found = None THEN computed
    ELSE UpdatedRow(incidents[txn[s].found], txn[s].row, computed)

\* What COMMIT makes visible.
Apply(s) ==
  /\ attacks' = attacks \cup {AttackRow(s)}
  /\ incidents' = [n \in DOMAIN incidents \cup {IncidentId(s)} |->
       IF n = IncidentId(s) THEN IncidentWrite(s) ELSE incidents[n]]

Commit(s) ==
  /\ pc[s] = "commit"
  /\ Apply(s)
  /\ pc' = [pc EXCEPT ![s] = "publish"]
  /\ UNCHANGED <<clock, proc, capture, txn, published, known>>

\* COMMIT succeeds in the database, the client sees an error: session_scope
\* re-raises, MultiSink swallows it and nothing is published.
CommitUnacknowledged(s) ==
  /\ pc[s] = "commit"
  /\ Apply(s)
  /\ EndThread(s, "failed")
  /\ UNCHANGED <<clock, proc, published>>

\* A statement raises: rollback, and MultiSink swallows the exception.
Rollback(s) ==
  /\ pc[s] \in InTransaction
  /\ EndThread(s, "failed")
  /\ UNCHANGED <<clock, proc, attacks, incidents, published>>

\* The on_processed callback: the backend gets the snapshot ...
Publish(s) ==
  /\ pc[s] = "publish"
  /\ published' = published \cup {AttackRow(s)}
  /\ EndThread(s, "done")
  /\ UNCHANGED <<clock, proc, attacks, incidents>>

\* ... or the request fails or times out, is logged and not repeated.
PublishFails(s) ==
  /\ pc[s] = "publish"
  /\ EndThread(s, "done")
  /\ UNCHANGED <<clock, proc, attacks, incidents, published>>

---------------------------------------------------------------------------
(* The process.                                                            *)

\* SIGTERM: the accept loop ends and _shutdown closes the sinks, and with
\* them the GeoIP readers, while the session threads go on.
Shutdown ==
  /\ proc = "up"
  /\ proc' = "closing"
  /\ UNCHANGED <<clock, pc, capture, txn, attacks, incidents, published, known>>

\* The process ends, after _shutdown or by a crash: the daemon threads die
\* with it and the database rolls their transactions back.
Exit ==
  /\ proc # "down"
  /\ proc' = "down"
  /\ pc' = [s \in Sessions |-> IF pc[s] \in Running THEN "lost" ELSE pc[s]]
  /\ capture' = [s \in Sessions |-> None]
  /\ txn' = [s \in Sessions |-> None]
  /\ UNCHANGED <<clock, attacks, incidents, published, known>>

\* docker compose: restart: unless-stopped.
Restart ==
  /\ proc = "down"
  /\ proc' = "up"
  /\ UNCHANGED <<clock, pc, capture, txn, attacks, incidents, published, known>>

---------------------------------------------------------------------------
Progress(s) ==
  \/ CountPrior(s)
  \/ SelectIncident(s)
  \/ Flush(s)
  \/ Commit(s)
  \/ Publish(s)
  \/ PublishFails(s)

Worker(s) == Progress(s) \/ CommitUnacknowledged(s) \/ Rollback(s)

Next ==
  \/ Tick
  \/ \E s \in Sessions :
       \/ \E i \in IPs : Connect(s, i)
       \/ \E e \in Inputs : StartIngest(s, e)
       \/ Worker(s)
  \/ Shutdown
  \/ Exit
  \/ Restart

Spec == Init /\ [][Next]_vars

---------------------------------------------------------------------------
(* Properties.                                                             *)

Capture == [source_ip : IPs, timestamp : Nat, evidence : Evidence]

Geo == [country : Countries, is_private : BOOLEAN]

Incident ==
  [ source_ip : IPs, country : Countries, first_seen : Nat, last_seen : Nat,
    attempt_count : Nat, max_risk_score : RiskScores, status : Statuses,
    techniques : SUBSET Techniques ]

Attack ==
  [ session_id : RowIds, source_ip : IPs, timestamp : Nat, auth_attempts : Nat,
    risk_score : RiskScores, techniques : SUBSET Techniques, incident_id : RowIds ]

Txn ==
  [ geo : Geo, prior : Nat, score : RiskScores, techniques : SUBSET Techniques,
    found : RowIds \cup {None}, row : Incident \cup {None} ]

\* The types; a thread has the locals that its place in process() needs.
TypeOK ==
  /\ clock \in Nat
  /\ proc \in {"up", "closing", "down"}
  /\ pc \in [Sessions -> PCs]
  /\ capture \in [Sessions -> Capture \cup {None}]
  /\ txn \in [Sessions -> Txn \cup {None}]
  /\ \A s \in Sessions :
       /\ pc[s] \in Running => capture[s] \in Capture
       /\ pc[s] \in InTransaction \cup {"publish"} => txn[s] \in Txn
       /\ pc[s] \in {"flush", "commit", "publish"} => txn[s].row \in Incident
  /\ attacks \subseteq Attack
  /\ DOMAIN incidents \subseteq RowIds
  /\ \A n \in DOMAIN incidents : incidents[n] \in Incident
  /\ published \subseteq Attack
  /\ known \in [Sessions -> SUBSET Attack]

Linked(n) == {a \in attacks : a.incident_id = n}

\* Every stored attack belongs to an incident of its own source address:
\* what correlate() returned is what attack.incident_id was set to.
AttacksGroupedBySource ==
  \A a \in attacks : /\ a.incident_id \in DOMAIN incidents
                     /\ incidents[a.incident_id].source_ip = a.source_ip

LinkedAttempts(n) == MapThenSumSet(LAMBDA a : Attempts(a.auth_attempts), Linked(n))

\* The dates, the maximal risk and the techniques of an incident each come from
\* an attack that is stored and linked to it.
EvidenceBacked ==
  \A n \in DOMAIN incidents :
    /\ \E a \in Linked(n) : a.timestamp = incidents[n].first_seen
    /\ \E a \in Linked(n) : a.timestamp = incidents[n].last_seen
    /\ incidents[n].max_risk_score # 0 =>
         \E a \in Linked(n) : a.risk_score = incidents[n].max_risk_score
    /\ \A t \in incidents[n].techniques : \E a \in Linked(n) : t \in a.techniques

AttemptsBacked ==
  \A n \in DOMAIN incidents : incidents[n].attempt_count <= LinkedAttempts(n)

\* An incident never claims what its attacks did not show, however the
\* transactions that wrote it interleaved (correlate()): lost updates may lose
\* attempts but never invent any.
IncidentsBacked == EvidenceBacked /\ AttemptsBacked

\* The history a session is scored with (_count_prior_attempts): every attack
\* in the window that was stored when the session connected is counted, and
\* nothing is counted that is not stored.
PriorCountBounds ==
  \A s \in Sessions :
    pc[s] \in {"select", "flush", "commit", "publish"} =>
      /\ Cardinality(PriorRows(known[s], ip(s), ts(s))) <= txn[s].prior
      /\ txn[s].prior <= Cardinality(PriorRows(attacks, ip(s), ts(s)))

\* The dashboard is only told about attacks that are in the database, with
\* the score and the incident stored there, and a finished session is stored.
PublishedIsStored ==
  /\ published \subseteq attacks
  /\ \A s \in Sessions : pc[s] \in {"publish", "done"} =>
       \E a \in attacks : a.session_id = s

\* An incident stays what it was opened as: no interleaving of writers
\* changes its source, first sighting, status or known country, and a closed
\* incident is not written at all.
IncidentIdentityStable ==
  [][\A n \in DOMAIN incidents :
       /\ n \in DOMAIN incidents'
       /\ incidents'[n].source_ip = incidents[n].source_ip
       /\ incidents'[n].first_seen = incidents[n].first_seen
       /\ incidents'[n].status = incidents[n].status
       /\ incidents[n].country # NoCountry => incidents'[n].country = incidents[n].country
       /\ incidents[n].status = "closed" => incidents'[n] = incidents[n]]_vars

\* correlate() groups the attacks of an address into a single open incident.
SingleOpenIncident ==
  \A m, n \in DOMAIN incidents :
    (/\ incidents[m].source_ip = incidents[n].source_ip
     /\ incidents[m].status # "closed" /\ incidents[n].status # "closed") => m = n

\* No attack linked to an incident is worse, or shows more, than the incident.
CoverageComplete ==
  \A n \in DOMAIN incidents :
    \A a \in Linked(n) : /\ a.risk_score <= incidents[n].max_risk_score
                          /\ a.techniques \subseteq incidents[n].techniques

AttemptsExact ==
  \A n \in DOMAIN incidents : incidents[n].attempt_count = LinkedAttempts(n)

\* correlate() updates running aggregates: attempt count, maximal risk and
\* MITRE coverage of an incident are those of the attacks linked to it.
AggregatesExact == CoverageComplete /\ AttemptsExact

\* Sessions were open at the same time: neither was stored when the other
\* connected.  Seeded attacks are older than every session.
KnownTo(a) == IF a.session_id \in Sessions THEN known[a.session_id] ELSE {}

Together(a, b) == a # b /\ a \notin KnownTo(b) /\ b \notin KnownTo(a)

\* correlate() dates an incident by the session it stores, whichever ends
\* last: an attack lies outside the dates of its incident only if another
\* session of that incident was open together with it.
DatesMissOnlyOverlapping ==
  \A n \in DOMAIN incidents :
    \A a \in Linked(n) :
      a.timestamp \in incidents[n].first_seen..incidents[n].last_seen
        \/ \E b \in Linked(n) : Together(a, b)

---------------------------------------------------------------------------
(* Inductive invariants.                                                   *)

FoundIsStored ==
  \A s \in Sessions :
    pc[s] \in {"flush", "commit", "publish"} /\ txn[s].found # None
      => txn[s].found \in DOMAIN incidents

TypeInv == TypeOK /\ IsFiniteSet(attacks) /\ FoundIsStored

\* A session writes only rows of its own source, and no row is named after a
\* session that has not committed.
SourceInv ==
  /\ AttacksGroupedBySource
  /\ \A s \in Sessions : pc[s] \in Loaded =>
       /\ txn[s].row.source_ip = ip(s)
       /\ txn[s].found # None => incidents[txn[s].found].source_ip = ip(s)
  /\ \A s \in Sessions : pc[s] \in Unstored =>
       /\ s \notin DOMAIN incidents
       /\ \A a \in attacks : a.session_id # s

\* What an address resolves to, if it resolves at all, is the same for every
\* thread: a thread that found no country in its incident may find another
\* one's country there when it writes, which is its own.  The incident it
\* found was not closed and is not closed.
Resolved(i) == {NoCountry, enrich(i, TRUE).country}

IdentityInv ==
  /\ \A s \in Sessions : pc[s] \in InTransaction => Country(s) \in Resolved(ip(s))
  /\ \A s \in Sessions : pc[s] \in Loaded /\ txn[s].found # None =>
       /\ incidents[txn[s].found].status # "closed"
       /\ txn[s].row.country = NoCountry =>
            incidents[txn[s].found].country \in Resolved(ip(s))

\* What a thread is about to publish is stored as it was committed.
StoredInv ==
  /\ PublishedIsStored
  /\ \A s \in Sessions : pc[s] = "publish" => AttackRow(s) \in attacks

\* What was stored when a session connected is stored still.
HistoryInv ==
  /\ PriorCountBounds
  /\ \A s \in Sessions : known[s] \subseteq attacks

\* A thread that writes techniques it loaded loaded what attacks of that
\* incident had shown, and a new incident claims nothing but this session.
LoadedBacked(s) ==
  /\ txn[s].found = None => /\ txn[s].row.first_seen = ts(s)
                            /\ txn[s].row.max_risk_score = 0
                            /\ txn[s].row.techniques = {}
  /\ txn[s].found # None =>
       \A t \in txn[s].row.techniques : \E a \in Linked(txn[s].found) : t \in a.techniques

BackedInv ==
  /\ EvidenceBacked
  /\ \A s \in Sessions : pc[s] \in {"flush", "commit"} => LoadedBacked(s)

\* A thread adds its attempts to no more than the linked attacks made.
AttemptsInv ==
  /\ AttemptsBacked
  /\ \A s \in Sessions : pc[s] \in {"flush", "commit"} =>
       txn[s].row.attempt_count <=
         IF txn[s].found = None THEN 0 ELSE LinkedAttempts(txn[s].found)

\* Nothing is dated after now, and what was stored when a session connected
\* is not dated after it.
TimesInv ==
  /\ \A a \in attacks : a.timestamp <= clock
  /\ \A s \in Sessions : pc[s] \in Running =>
       ts(s) <= clock /\ \A a \in known[s] : a.timestamp <= ts(s)

\* A thread whose incident is not dated any more as it was loaded has an
\* attack there that was stored after it connected.
LoadedDated(s) ==
  txn[s].found # None /\ incidents[txn[s].found].last_seen # txn[s].row.last_seen
    => \E b \in Linked(txn[s].found) : b \notin known[s]

DatesInv ==
  /\ DatesMissOnlyOverlapping
  /\ TimesInv
  /\ \A s \in Sessions : pc[s] \in {"flush", "commit"} => LoadedDated(s)

IInv ==
  /\ TypeInv /\ SourceInv /\ IdentityInv /\ StoredInv
  /\ HistoryInv /\ BackedInv /\ AttemptsInv /\ DatesInv

\* With one ingest at a time per address, an object loaded by correlate() is
\* still what the database holds when it is written back.
SerialInv ==
  /\ \A s, t \in Sessions :
       pc[s] \in InTransaction /\ pc[t] \in InTransaction /\ ip(s) = ip(t) => s = t
  /\ \A s \in Sessions : pc[s] \in {"flush", "commit"} =>
       IF txn[s].found = None
       THEN OpenIncidents(ip(s)) = {} /\ txn[s].row = NewIncident(s)
       ELSE /\ incidents[txn[s].found] = txn[s].row
            /\ txn[s].row.status # "closed"
  /\ SingleOpenIncident

---------------------------------------------------------------------------
(* Refinement.                                                             *)

\* Ingested one at a time per address, the sessions produce the ledger of
\* IncidentLedger: the statements between two commits do not show.
Ledger == INSTANCE IncidentLedger
            WITH attacks <- attacks, incidents <- incidents, published <- published

RefinesLedger == Ledger!Spec
=============================================================================
