--------------------------- MODULE IncidentLedger ---------------------------
(***************************************************************************)
(* What the ingest pipeline promises, without threads, transactions or a   *)
(* process that can stop: a log of attacks, one card per adversary over    *)
(* it, and announcements of what is in the log.  Recording an attack and   *)
(* bringing its incident up to date is one step.                           *)
(***************************************************************************)
EXTENDS Integers

VARIABLES
  attacks,    \* the rows recorded so far
  incidents,  \* incident id -> row
  published   \* the rows announced so far

vars == <<attacks, incidents, published>>

Open(i) ==
  {n \in DOMAIN incidents : incidents[n].source_ip = i /\ incidents[n].status # "closed"}

Counted(a) == IF a.auth_attempts > 1 THEN a.auth_attempts ELSE 1

\* Row `new' is row `old' with attack a added to it.
Absorbs(old, new, a) ==
  /\ new.source_ip = old.source_ip /\ a.source_ip = old.source_ip
  /\ new.first_seen = old.first_seen
  /\ new.last_seen = a.timestamp
  /\ new.attempt_count = old.attempt_count + Counted(a)
  /\ new.max_risk_score = IF a.risk_score > old.max_risk_score
                            THEN a.risk_score ELSE old.max_risk_score
  /\ new.techniques = old.techniques \cup a.techniques
  /\ new.status = old.status

\* Row `new' is the incident that attack a opens.
Opens(new, a) ==
  /\ new.source_ip = a.source_ip
  /\ new.first_seen = a.timestamp /\ new.last_seen = a.timestamp
  /\ new.attempt_count = Counted(a)
  /\ new.max_risk_score = a.risk_score
  /\ new.techniques = a.techniques
  /\ new.status = "open"

\* At the start each source has at most one incident, open or closed.
Init ==
  /\ \A m, n \in DOMAIN incidents :
       incidents[m].source_ip = incidents[n].source_ip => m = n
  /\ \A a \in attacks : a.incident_id \in DOMAIN incidents
  /\ published = {}

Record(a) ==
  /\ a \notin attacks
  /\ attacks' = attacks \cup {a}
  /\ LET n == a.incident_id IN
       /\ DOMAIN incidents' = DOMAIN incidents \cup {n}
       /\ \A m \in DOMAIN incidents \ {n} : incidents'[m] = incidents[m]
       /\ \/ n \in Open(a.source_ip) /\ Absorbs(incidents[n], incidents'[n], a)
          \/ /\ Open(a.source_ip) = {} /\ n \notin DOMAIN incidents
             /\ Opens(incidents'[n], a)
  /\ UNCHANGED published

Announce(a) ==
  /\ a \in attacks
  /\ published' = published \cup {a}
  /\ UNCHANGED <<attacks, incidents>>

Next == (\E a \in attacks' : Record(a)) \/ (\E a \in published' : Announce(a))

Spec == Init /\ [][Next]_vars

\* correlate(): the attacks of a source are grouped into a single open incident.
SingleOpen ==
  \A m, n \in DOMAIN incidents :
    (/\ incidents[m].source_ip = incidents[n].source_ip
     /\ incidents[m].status # "closed" /\ incidents[n].status # "closed") => m = n
=============================================================================
