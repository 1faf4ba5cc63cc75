------------------------------- MODULE Reseed -------------------------------
(***************************************************************************)
(* Demo data scripts next to a running honeypot, on PostgreSQL at READ     *)
(* COMMITTED.  seed_if_empty() fills an empty table (at the backend's      *)
(* start, or scripts/seed_demo.py), --force fills any, and                 *)
(* scripts/seed_demo_large.py --reset deletes everything and builds a new  *)
(* set.  Each is one transaction; so is each session's ingest.             *)
(*                                                                         *)
(* A statement sees what is committed when it starts.  It waits for the    *)
(* row locks of the rows it writes.  Deleting an incident sets the         *)
(* incident_id of its attacks to NULL.  Commands come and go with their    *)
(* attack, and an incident's aggregates are Ingest's subject: both are     *)
(* left out, and so are closed incidents, which no ingest looks at.        *)
(*                                                                         *)
(* A row is named by the transaction that inserted it and by its source    *)
(* address.                                                                *)
(***************************************************************************)
EXTENDS FiniteSets

CONSTANTS
  Sessions,  \* sessions that are ingested
  Scripts,   \* runs of a seeding
  IPs,       \* source addresses
  DemoIPs,   \* those of the demo data
  None       \* no incident

Transactions == Sessions \cup Scripts
Rows == Transactions \X IPs

ASSUME TransactionsAssumption == Sessions \cap Scripts = {} /\ IsFiniteSet(Transactions)
ASSUME SourcesAssumption == DemoIPs \subseteq IPs
ASSUME NoneAssumption == None \notin Rows \cup IPs

VARIABLES
  pc,         \* where each transaction is
  source,     \* the address of a session
  found,      \* the incident a session found
  mode,       \* what a script was asked to do
  deleted,    \* what the DELETE statements of a reset apply to
  locked,     \* the incidents a reset has locked so far
  attacks,    \* committed attacks, and the incident each is linked to
  incidents,  \* committed incidents
  met         \* observer: per transaction, those that were open while it was

localVars == <<source, found, mode, deleted, locked>>
tables == <<attacks, incidents>>
vars == <<pc, localVars, tables, met>>

---------------------------------------------------------------------------
By(row) == row[1]
SourceOf(row) == row[2]

Modes == {"if_empty", "force", "reset"}
SessionPCs == {"select", "flush", "commit"}
ScriptPCs == {"check", "delete_attacks", "delete_incidents", "locking", "insert"}
Open == SessionPCs \cup ScriptPCs
Ended == {"done", "stale", "aborted"}

Nothing == [attacks |-> {}, incidents |-> {}]

Init ==
  /\ pc = [t \in Transactions |-> "idle"]
  /\ source = [s \in Sessions |-> None]
  /\ found = [s \in Sessions |-> None]
  /\ mode = [p \in Scripts |-> None]
  /\ deleted = [p \in Scripts |-> Nothing]
  /\ locked = [p \in Scripts |-> {}]
  /\ attacks = <<>>
  /\ incidents = {}
  /\ met = [t \in Transactions |-> {}]

Goto(t, l) == pc' = [pc EXCEPT ![t] = l]

\* Transaction t begins at label l.
Begin(t, l) ==
  /\ pc[t] = "idle"
  /\ Goto(t, l)
  /\ LET others == {u \in Transactions : pc[u] \in Open} IN
       met' = [u \in Transactions |->
                 IF u = t THEN others
                 ELSE IF u \in others THEN met[u] \cup {t} ELSE met[u]]

\* Transaction t ends: its locals and its locks are gone.
End(t, l) ==
  /\ Goto(t, l)
  /\ source' = [s \in Sessions |-> IF s = t THEN None ELSE source[s]]
  /\ found' = [s \in Sessions |-> IF s = t THEN None ELSE found[s]]
  /\ deleted' = [p \in Scripts |-> IF p = t THEN Nothing ELSE deleted[p]]
  /\ locked' = [p \in Scripts |-> IF p = t THEN {} ELSE locked[p]]
  /\ UNCHANGED mode

\* The row lock of incident n: an UPDATE or DELETE of it has not committed.
Locked(n) ==
  \/ \E s \in Sessions : pc[s] = "commit" /\ found[s] = n /\ n # None
  \/ \E p \in Scripts : n \in locked[p]

---------------------------------------------------------------------------
(* The ingest of a session: IngestPipeline.process.                        *)

Ingest(s, i) ==
  /\ Begin(s, "select")
  /\ source' = [source EXCEPT ![s] = i]
  /\ UNCHANGED <<found, mode, deleted, locked, tables>>

\* correlate(): an incident of the address, or none.
SelectIncident(s) ==
  /\ pc[s] = "select"
  /\ LET own == {n \in incidents : SourceOf(n) = source[s]} IN
       \E n \in IF own = {} THEN {None} ELSE own : found' = [found EXCEPT ![s] = n]
  /\ Goto(s, "flush")
  /\ UNCHANGED <<source, mode, deleted, locked, tables, met>>

\* The first flush: INSERT of a new incident, which waits for nobody, or UPDATE
\* of the one found.  If that is gone no row matches: StaleDataError, and the
\* session is not stored.
FlushIncident(s) ==
  /\ pc[s] = "flush"
  /\ ~Locked(found[s])
  /\ IF found[s] \in incidents \cup {None}
     THEN Goto(s, "commit") /\ UNCHANGED localVars
     ELSE End(s, "stale")
  /\ UNCHANGED <<tables, met>>

IncidentId(s) == IF found[s] = None THEN <<s, source[s]>> ELSE found[s]

\* The INSERT waits for a TRUNCATE of the table.
Commit_WaitsForTruncate(s) ==
  /\ pc[s] = "commit"
  /\ \A p \in Scripts : pc[p] \notin {"delete_incidents", "locking", "insert"}
  /\ attacks' = [a \in DOMAIN attacks \cup {<<s, source[s]>>} |->
       IF a = <<s, source[s]>> THEN IncidentId(s) ELSE attacks[a]]
  /\ incidents' = incidents \cup {IncidentId(s)}
  /\ End(s, "done")
  /\ UNCHANGED met

\* The INSERT of the attack, and COMMIT.
Commit(s) ==
  /\ pc[s] = "commit"
  /\ attacks' = [a \in DOMAIN attacks \cup {<<s, source[s]>>} |->
       IF a = <<s, source[s]>> THEN IncidentId(s) ELSE attacks[a]]
  /\ incidents' = incidents \cup {IncidentId(s)}
  /\ End(s, "done")
  /\ UNCHANGED met

---------------------------------------------------------------------------
(* The scripts.                                                            *)

FirstStatement(m) ==
  CASE m = "if_empty" -> "check"
    [] m = "force"    -> "insert"
    [] m = "reset"    -> "delete_attacks"

\* An operator does not run two resets at once.
Run(p, m) ==
  /\ Begin(p, FirstStatement(m))
  /\ m = "reset" => \A q \in Scripts : mode[q] = "reset" => pc[q] \in Ended
  /\ mode' = [mode EXCEPT ![p] = m]
  /\ UNCHANGED <<source, found, deleted, locked, tables>>

\* seed_if_empty that looks for its own rows only.
CheckEmpty_OwnRows(p) ==
  /\ pc[p] = "check"
  /\ Goto(p, IF \E a \in DOMAIN attacks : By(a) \in Scripts THEN "done" ELSE "insert")
  /\ UNCHANGED <<localVars, tables, met>>

\* seed_if_empty returns 0, generate() exits, when there is an attack.
CheckEmpty(p) ==
  /\ pc[p] = "check"
  /\ Goto(p, IF DOMAIN attacks = {} THEN "insert" ELSE "done")
  /\ UNCHANGED <<localVars, tables, met>>

\* Attacks found through their incident ...
DeleteAttacks_Linked(p) ==
  /\ pc[p] = "delete_attacks"
  /\ deleted' = [deleted EXCEPT ![p] =
       [attacks |-> {a \in DOMAIN attacks : attacks[a] # None}, incidents |-> {}]]
  /\ Goto(p, "delete_incidents")
  /\ UNCHANGED <<source, found, mode, locked, tables, met>>

\* ... and a reset that leaves them to a cascade the schema does not have.
DeleteAttacks_Forgotten(p) ==
  /\ pc[p] = "delete_attacks"
  /\ Goto(p, "delete_incidents")
  /\ UNCHANGED <<localVars, tables, met>>

\* _reset: DELETE of attacks.  No other transaction locks an attack.
DeleteAttacks(p) ==
  /\ pc[p] = "delete_attacks"
  /\ deleted' = [deleted EXCEPT ![p] = [attacks |-> DOMAIN attacks, incidents |-> {}]]
  /\ Goto(p, "delete_incidents")
  /\ UNCHANGED <<source, found, mode, locked, tables, met>>

\* _reset: DELETE of incidents, a statement that sees more than the first ...
DeleteIncidents(p) ==
  /\ pc[p] = "delete_incidents"
  /\ deleted' = [deleted EXCEPT ![p] = [attacks |-> deleted[p].attacks, incidents |-> incidents]]
  /\ Goto(p, "locking")
  /\ UNCHANGED <<source, found, mode, locked, tables, met>>

\* ... that locks one row after the other, waiting for an ingest that has
\* updated it while it holds those before ...
LockIncident(p) ==
  /\ pc[p] = "locking"
  /\ \E n \in deleted[p].incidents : ~Locked(n) /\ locked' = [locked EXCEPT ![p] = @ \cup {n}]
  /\ UNCHANGED <<pc, source, found, mode, deleted, tables, met>>

\* ... and that returns when it has them all.
DeleteReturns(p) ==
  /\ pc[p] = "locking"
  /\ deleted[p].incidents \subseteq locked[p]
  /\ Goto(p, "insert")
  /\ UNCHANGED <<localVars, tables, met>>

DemoRows(p) == {p} \X DemoIPs

\* A foreign key without ON DELETE SET NULL, not enforced.
Kept_Dangling(p) == [a \in DOMAIN attacks \ deleted[p].attacks |-> attacks[a]]

\* What the table of attacks holds when the deletions are committed:
\* attacks that the first statement did not see lose their incident.
Kept(p) ==
  [a \in DOMAIN attacks \ deleted[p].attacks |->
     IF attacks[a] \in deleted[p].incidents THEN None ELSE attacks[a]]

\* The demo incidents and attacks are inserted, and COMMIT.
InsertDemo(p) ==
  /\ pc[p] = "insert"
  /\ attacks' = [a \in DOMAIN Kept(p) \cup DemoRows(p) |->
                   IF a \in DemoRows(p) THEN a ELSE Kept(p)[a]]
  /\ incidents' = (incidents \ deleted[p].incidents) \cup DemoRows(p)
  /\ End(p, "done")
  /\ UNCHANGED met

---------------------------------------------------------------------------
\* A statement fails or the process dies: the database rolls back.
Abort(t) ==
  /\ pc[t] \in Open
  /\ End(t, "aborted")
  /\ UNCHANGED <<tables, met>>

IngestStep(s) == SelectIncident(s) \/ FlushIncident(s) \/ Commit(s)

ScriptStep(p) ==
  \/ CheckEmpty(p)
  \/ DeleteAttacks(p)
  \/ DeleteIncidents(p)
  \/ LockIncident(p)
  \/ DeleteReturns(p)
  \/ InsertDemo(p)

Next ==
  \/ \E s \in Sessions : (\E i \in IPs : Ingest(s, i)) \/ IngestStep(s)
  \/ \E p \in Scripts : (\E m \in Modes : Run(p, m)) \/ ScriptStep(p)
  \/ \E t \in Transactions : Abort(t)

Spec == Init /\ [][Next]_vars

\* Statements return unless they wait for a row lock.
FairSpec ==
  /\ Spec
  /\ \A s \in Sessions : WF_vars(IngestStep(s))
  /\ \A p \in Scripts : WF_vars(ScriptStep(p))

---------------------------------------------------------------------------
(* Properties.                                                             *)

\* The types, among them the foreign key of an attack.
TypeOK ==
  /\ pc \in [Transactions -> {"idle"} \cup Open \cup Ended]
  /\ source \in [Sessions -> IPs \cup {None}]
  /\ found \in [Sessions -> Rows \cup {None}]
  /\ mode \in [Scripts -> Modes \cup {None}]
  /\ deleted \in [Scripts -> [attacks : SUBSET Rows, incidents : SUBSET Rows]]
  /\ locked \in [Scripts -> SUBSET Rows]
  /\ incidents \subseteq Rows
  /\ DOMAIN attacks \subseteq Rows
  /\ \A a \in DOMAIN attacks : attacks[a] \in incidents \cup {None}
  /\ met \in [Transactions -> SUBSET Transactions]

ResetsMet(t) == {p \in met[t] \cap Scripts : mode[p] = "reset"}

\* A reset does harm only to those that run into it: a session fails on an
\* incident that is gone, and an attack is without its incident, only if a
\* reset was open during the transaction.
ResetHarmsOnlyOverlapping ==
  /\ \A s \in Sessions : pc[s] = "stale" => ResetsMet(s) # {}
  /\ \A a \in DOMAIN attacks :
       attacks[a] \notin incidents => ResetsMet(By(a)) # {}

\* --reset wipes the existing rows first: what is in the tables when it
\* commits is its own or of a transaction that it met.
ResetWipes ==
  [][\A p \in Scripts :
       (mode[p] = "reset" /\ pc[p] = "insert" /\ pc'[p] = "done") =>
         \A r \in DOMAIN attacks' \cup incidents' : By(r) \in met[p] \cup {p}]_vars

\* seed_if_empty adds demo data to attacks of others only if they were stored
\* while it ran: it never adds to what was there before.
SeedsOnlyIntoEmpty ==
  \A p \in Scripts :
    (mode[p] = "if_empty" /\ pc[p] = "insert") =>
      \A a \in DOMAIN attacks : By(a) \in met[p]

\* Row locks keep nobody waiting for ever: ingests that want one incident, and
\* a reset that wants all of them, get through.
AllSettle == \A t \in Transactions : pc[t] \in Open ~> pc[t] \in Ended
=============================================================================
