------------------------------ MODULE Startup ------------------------------
(***************************************************************************)
(* How the stack comes up and survives crashes.  The backend container     *)
(* (backend/entrypoint.sh) waits for PostgreSQL, creates the schema and    *)
(* the admin user, and serves; its application factory seeds demo data     *)
(* into an empty database.  An operator may run scripts/create_user.py     *)
(* for the same user at any time.  The honeypot container starts once the  *)
(* backend container has been started, ready or not: it loads or creates   *)
(* its host key and writes each ended session to the JSONL file and to the *)
(* database.  Containers that exit or crash are started again.             *)
(*                                                                         *)
(* A transaction is split where two processes can race: between what it    *)
(* reads and its commit.  Everything not committed or written to a file is *)
(* gone after a crash.                                                     *)
(***************************************************************************)
EXTENDS Naturals, FiniteSets

CONSTANTS
  Sessions,     \* sessions of attackers
  DEMO_MODE,    \* the backend seeds demo data
  DemoCount,    \* demo attacks of one seeding
  MaxCrashes,   \* bound: crashes of the backend and the honeypot
  MaxFaults,    \* bound: writes of the JSONL file that fail or are cut short
  MaxOutages    \* bound: outages of the database

ASSUME DemoAssumption == DEMO_MODE \in BOOLEAN /\ DemoCount \in Nat \ {0}
ASSUME BoundsAssumption ==
  MaxCrashes \in Nat /\ MaxFaults \in Nat /\ MaxOutages \in Nat

VARIABLES
  db,         \* the database accepts connections
  outages,    \* outages so far
  schema,     \* the tables exist
  users,      \* the creators of the rows of the admin's username
  demo,       \* demo attacks in the database
  stored,     \* captured sessions in the database
  pc,         \* where each creator of schema and users is
  started,    \* the backend container has been started
  honeypot,   \* where the honeypot process is
  keyfile,    \* the host key file: number of its key, or its state
  key,        \* the host key the honeypot process holds, 0 if none
  generated,  \* host keys generated so far
  presented,  \* observer: host keys clients have seen
  session,    \* where the thread of a session is
  jsonl,      \* sessions with a line of their own in the JSONL file
  torn,       \* the file ends in the middle of a line
  faults,     \* writes of the file that failed or were cut short so far
  crashes     \* crashes so far

databaseVars == <<db, outages, schema, users, demo, stored>>
starterVars == <<pc, started>>
fileVars == <<jsonl, torn, faults>>
honeypotVars == <<honeypot, keyfile, key, generated, presented, session, fileVars>>
vars == <<databaseVars, starterVars, honeypotVars, crashes>>

---------------------------------------------------------------------------
Creators == {"backend", "script"}

PCs == {"down", "wait", "tables", "create_all", "user", "insert_user",
        "seed", "insert_demo", "serving"}
HoneypotPCs == {"never", "down", "load", "generated", "opened", "listening",
                 "closing"}
Threads == {"none", "open", "ended", "logged", "done", "lost"}

Absent == 0
MaxKeys == MaxCrashes + 1
Partial == MaxKeys + 1

Init ==
  /\ db = FALSE /\ outages = 0
  /\ schema = FALSE /\ users = {} /\ demo = 0 /\ stored = {}
  /\ pc = [c \in Creators |-> "down"] /\ started = FALSE
  /\ honeypot = "never" /\ keyfile = Absent /\ key = 0 /\ generated = 0
  /\ presented = {}
  /\ session = [s \in Sessions |-> "none"]
  /\ jsonl = {} /\ torn = FALSE /\ faults = 0
  /\ crashes = 0

Goto(c, l) == pc' = [pc EXCEPT ![c] = l]

---------------------------------------------------------------------------
(* The database service.                                                   *)

DatabaseUp ==
  /\ ~db
  /\ db' = TRUE
  /\ UNCHANGED <<outages, schema, users, demo, stored, starterVars, honeypotVars, crashes>>

\* Where a process goes when a statement of its transaction fails: it ends
\* (only ValueError is caught, and set -e), except that create_app catches
\* whatever seeding raises.
Failed(c) == IF pc[c] \in {"seed", "insert_demo"} THEN "serving" ELSE "down"

\* Transactions that are open lose their connection and are rolled back.
DatabaseDown ==
  /\ db
  /\ outages < MaxOutages
  /\ db' = FALSE
  /\ outages' = outages + 1
  /\ pc' = [c \in Creators |->
       IF pc[c] \in {"create_all", "insert_user", "insert_demo"} THEN Failed(c) ELSE pc[c]]
  /\ UNCHANGED <<schema, users, demo, stored, started, honeypotVars, crashes>>

---------------------------------------------------------------------------
(* The backend's start, and the script that shares its steps.              *)

\* The container starts (first when the database is healthy), or the operator
\* runs create_user.py, which does not wait.
Start(c) ==
  /\ pc[c] = "down"
  /\ c = "backend" => (started \/ db)
  /\ c = "script" => started
  /\ Goto(c, IF c = "backend" THEN "wait" ELSE "tables")
  /\ started' = TRUE
  /\ UNCHANGED <<databaseVars, honeypotVars, crashes>>

\* The loop of 60 tries ends with a connection or with exit 1.
WaitForDatabase ==
  /\ pc["backend"] = "wait"
  /\ Goto("backend", IF db THEN "tables" ELSE "down")
  /\ UNCHANGED <<databaseVars, started, honeypotVars, crashes>>

\* No connection for the first statement of a transaction.
DatabaseError(c) ==
  /\ pc[c] \in {"tables", "user", "seed"}
  /\ ~db
  /\ Goto(c, Failed(c))
  /\ UNCHANGED <<databaseVars, started, honeypotVars, crashes>>

\* create_all looks which tables are missing ...
InitDb(c) ==
  /\ pc[c] = "tables"
  /\ db
  /\ Goto(c, IF schema THEN "user" ELSE "create_all")
  /\ UNCHANGED <<databaseVars, started, honeypotVars, crashes>>

\* ... and creates them; a table created meanwhile is an error.
CreateAll(c) ==
  /\ pc[c] = "create_all"
  /\ db
  /\ schema' = TRUE
  /\ Goto(c, IF schema THEN "down" ELSE "user")
  /\ UNCHANGED <<db, outages, users, demo, stored, started, honeypotVars, crashes>>

AfterUser(c) ==
  IF c = "script" THEN "down" ELSE IF DEMO_MODE THEN "seed" ELSE "serving"

\* create_user that gives up when the user exists.
CheckUser_Fatal(c) ==
  /\ pc[c] = "user"
  /\ db
  /\ Goto(c, IF users # {} THEN "down" ELSE "insert_user")
  /\ UNCHANGED <<databaseVars, started, honeypotVars, crashes>>

\* create_user: the SELECT; ValueError if the user exists is caught.
CheckUser(c) ==
  /\ pc[c] = "user"
  /\ db
  /\ Goto(c, IF users # {} THEN AfterUser(c) ELSE "insert_user")
  /\ UNCHANGED <<databaseVars, started, honeypotVars, crashes>>

\* create_user: INSERT and commit; a row inserted meanwhile is an
\* IntegrityError, which ends the process.
InsertUser(c) ==
  /\ pc[c] = "insert_user"
  /\ db
  /\ users' = IF users = {} THEN {c} ELSE users
  /\ Goto(c, IF users = {} THEN AfterUser(c) ELSE "down")
  /\ UNCHANGED <<db, outages, schema, demo, stored, started, honeypotVars, crashes>>

\* seed_if_empty(force=True).
CheckEmpty_Forced ==
  /\ pc["backend"] = "seed"
  /\ db
  /\ Goto("backend", "insert_demo")
  /\ UNCHANGED <<databaseVars, started, honeypotVars, crashes>>

\* seed_if_empty: the SELECT.
CheckEmpty ==
  /\ pc["backend"] = "seed"
  /\ db
  /\ Goto("backend", IF demo > 0 \/ stored # {} THEN "serving" ELSE "insert_demo")
  /\ UNCHANGED <<databaseVars, started, honeypotVars, crashes>>

\* A commit per attack.
InsertDemo_RowByRow ==
  /\ pc["backend"] = "insert_demo"
  /\ db
  /\ demo' = demo + 1
  /\ Goto("backend", IF demo' < DemoCount THEN "insert_demo" ELSE "serving")
  /\ UNCHANGED <<db, outages, schema, users, stored, started, honeypotVars, crashes>>

\* seed_if_empty: all rows in one commit.
InsertDemo ==
  /\ pc["backend"] = "insert_demo"
  /\ db
  /\ demo' = demo + DemoCount
  /\ Goto("backend", "serving")
  /\ UNCHANGED <<db, outages, schema, users, stored, started, honeypotVars, crashes>>

Crash(c) ==
  /\ pc[c] # "down"
  /\ crashes < MaxCrashes
  /\ crashes' = crashes + 1
  /\ Goto(c, "down")
  /\ UNCHANGED <<databaseVars, started, honeypotVars>>

---------------------------------------------------------------------------
(* The honeypot.                                                           *)

\* A honeypot container that is not restarted.
StartHoneypot_Once ==
  /\ db /\ started
  /\ honeypot = "never"
  /\ honeypot' = "load"
  /\ UNCHANGED <<databaseVars, starterVars, keyfile, key, generated, presented,
                 session, fileVars, crashes>>

\* depends_on: the database healthy and the backend started, the first time.
StartHoneypot ==
  /\ honeypot = "never" => db /\ started
  /\ honeypot \in {"never", "down"}
  /\ honeypot' = "load"
  /\ UNCHANGED <<databaseVars, starterVars, keyfile, key, generated, presented,
                 session, fileVars, crashes>>

\* load_or_create_host_key with an existing file: a truncated one raises.
LoadHostKey ==
  /\ honeypot = "load"
  /\ keyfile # Absent
  /\ IF keyfile = Partial
     THEN honeypot' = "down" /\ key' = 0
     ELSE honeypot' = "listening" /\ key' = keyfile
  /\ UNCHANGED <<databaseVars, starterVars, keyfile, generated, presented,
                 session, fileVars, crashes>>

\* A key that is served before it is kept.
OpenKeyFile_ServesFirst ==
  /\ honeypot = "generated"
  /\ honeypot' = "listening"
  /\ UNCHANGED <<databaseVars, starterVars, keyfile, key, generated, presented,
                 session, fileVars, crashes>>

\* load_or_create_host_key without one ...
GenerateHostKey ==
  /\ honeypot = "load"
  /\ keyfile = Absent
  /\ honeypot' = "generated"
  /\ generated' = generated + 1
  /\ key' = generated + 1
  /\ UNCHANGED <<databaseVars, starterVars, keyfile, presented, session, fileVars, crashes>>

\* ... opens the file ...
OpenKeyFile ==
  /\ honeypot = "generated"
  /\ keyfile' = Partial
  /\ honeypot' = "opened"
  /\ UNCHANGED <<databaseVars, starterVars, key, generated, presented, session, fileVars, crashes>>

\* ... and writes it.
WriteKeyFile ==
  /\ honeypot = "opened"
  /\ keyfile' = key
  /\ honeypot' = "listening"
  /\ UNCHANGED <<databaseVars, starterVars, key, generated, presented, session, fileVars, crashes>>

\* _accept_loop: a client connects and is shown the key ...
Accept(s) ==
  /\ honeypot = "listening"
  /\ session[s] = "none"
  /\ session' = [session EXCEPT ![s] = "open"]
  /\ presented' = presented \cup {key}
  /\ UNCHANGED <<databaseVars, starterVars, honeypot, keyfile, key, generated, fileVars, crashes>>

\* ... and its session ends, in a thread that does not care about the loop.
EndSession(s) ==
  /\ session[s] = "open"
  /\ session' = [session EXCEPT ![s] = "ended"]
  /\ UNCHANGED <<databaseVars, starterVars, honeypot, keyfile, key, generated, presented,
                 fileVars, crashes>>

\* accept() raises OSError, as when the open connections have used up the
\* descriptors: the loop ends and _shutdown closes the socket and the sinks.
AcceptFails ==
  /\ honeypot = "listening"
  /\ \E s \in Sessions : session[s] = "open"
  /\ honeypot' = "closing"
  /\ UNCHANGED <<databaseVars, starterVars, keyfile, key, generated, presented, session,
                 fileVars, crashes>>

\* The database sink first in the list.
WriteJsonl_Last(s) ==
  /\ session[s] = "ended"
  /\ session' = [session EXCEPT ![s] = "logged"]
  /\ stored' = IF db /\ schema THEN stored \cup {s} ELSE stored
  /\ UNCHANGED <<db, outages, schema, users, demo, starterVars, honeypot, keyfile, key,
                 generated, presented, fileVars, crashes>>

\* JSONLSink.write appends a line; to a line that was torn it is a part of it.
WriteJsonl(s) ==
  /\ session[s] = "ended"
  /\ session' = [session EXCEPT ![s] = "logged"]
  /\ jsonl' = IF torn THEN jsonl ELSE jsonl \cup {s}
  /\ torn' = FALSE
  /\ UNCHANGED <<databaseVars, starterVars, honeypot, keyfile, key, generated, presented,
                 faults, crashes>>

\* The disk is full: a part of the line is written, or nothing, and MultiSink
\* goes on to the next sink.
WriteJsonlFails(s) ==
  /\ session[s] = "ended"
  /\ faults < MaxFaults
  /\ faults' = faults + 1
  /\ session' = [session EXCEPT ![s] = "logged"]
  /\ torn' \in {torn, TRUE}
  /\ UNCHANGED <<databaseVars, starterVars, honeypot, keyfile, key, generated, presented,
                 jsonl, crashes>>

\* PipelineSink.write: without database or tables it raises, and MultiSink
\* logs that.  Nothing writes the session again.
WriteDatabase(s) ==
  /\ session[s] = "logged"
  /\ session' = [session EXCEPT ![s] = "done"]
  /\ stored' = IF db /\ schema THEN stored \cup {s} ELSE stored
  /\ UNCHANGED <<db, outages, schema, users, demo, starterVars, honeypot, keyfile, key,
                 generated, presented, fileVars, crashes>>

\* The process ends while one of its threads writes a line.
CutShort ==
  /\ \E s \in Sessions : session[s] = "ended"
  /\ faults < MaxFaults
  /\ faults' = faults + 1
  /\ torn' = TRUE

\* The process is gone, and its daemon threads with it, wherever they are.
Die ==
  /\ honeypot' = "down"
  /\ key' = 0
  /\ session' = [s \in Sessions |->
       IF session[s] \in {"open", "ended", "logged"} THEN "lost" ELSE session[s]]
  /\ CutShort \/ UNCHANGED <<torn, faults>>
  /\ UNCHANGED <<databaseVars, starterVars, keyfile, generated, presented, jsonl>>

\* main() returns, whatever the threads are doing.
ExitHoneypot ==
  /\ honeypot = "closing"
  /\ Die
  /\ UNCHANGED crashes

CrashHoneypot ==
  /\ honeypot \notin {"never", "down"}
  /\ crashes < MaxCrashes
  /\ crashes' = crashes + 1
  /\ Die

---------------------------------------------------------------------------
Setup(c) ==
  \/ InitDb(c)
  \/ CreateAll(c)
  \/ CheckUser(c)
  \/ InsertUser(c)
  \/ DatabaseError(c)

Backend == Start("backend") \/ WaitForDatabase \/ Setup("backend") \/ CheckEmpty \/ InsertDemo

Honeypot ==
  \/ StartHoneypot
  \/ LoadHostKey
  \/ GenerateHostKey
  \/ OpenKeyFile
  \/ WriteKeyFile
  \/ ExitHoneypot
  \/ \E s \in Sessions : WriteJsonl(s) \/ WriteDatabase(s)

Next ==
  \/ DatabaseUp
  \/ DatabaseDown
  \/ Backend
  \/ Start("script")
  \/ Setup("script")
  \/ \E c \in Creators : Crash(c)
  \/ Honeypot
  \/ \E s \in Sessions : Accept(s) \/ EndSession(s) \/ WriteJsonlFails(s)
  \/ AcceptFails
  \/ CrashHoneypot

Spec == Init /\ [][Next]_vars

\* Outages and crashes end (their bounds), containers are restarted and run;
\* whether the operator runs the script, or attackers come, is open.
FairSpec ==
  /\ Spec
  /\ WF_vars(DatabaseUp)
  /\ WF_vars(Backend)
  /\ WF_vars(Setup("script"))
  /\ WF_vars(Honeypot)

---------------------------------------------------------------------------
(* Properties.                                                             *)

\* The types, among them the unique row of the admin's username.
TypeOK ==
  /\ db \in BOOLEAN /\ schema \in BOOLEAN /\ started \in BOOLEAN
  /\ outages \in 0..MaxOutages /\ crashes \in 0..MaxCrashes
  /\ users \subseteq Creators /\ Cardinality(users) <= 1
  /\ demo \in 0..DemoCount
  /\ stored \subseteq Sessions /\ jsonl \subseteq Sessions
  /\ torn \in BOOLEAN /\ faults \in 0..MaxFaults
  /\ pc \in [Creators -> PCs]
  /\ pc["script"] \in {"down", "tables", "create_all", "user", "insert_user"}
  /\ honeypot \in HoneypotPCs
  /\ keyfile \in 0..Partial
  /\ key \in 0..MaxKeys /\ generated \in 0..MaxKeys
  /\ presented \subseteq 1..MaxKeys
  /\ session \in [Sessions -> Threads]

\* Restarts neither seed twice nor leave a part of the demo data.
DemoAllOrNothing == demo \in {0, DemoCount}

\* The JSONL file, written first, has what the database has and what it missed
\* (no database, no tables: nobody writes the session again).  A write that
\* failed, or that the end of the process cut short, costs the file two sessions
\* at most: its own, and the next one if that is written onto the torn line.
Written == {s \in Sessions : session[s] = "done" \/ s \in stored}

CapturesLogged == Cardinality(Written \ jsonl) <= 2 * faults

\* No attacker ever sees the host key change.
HostKeyStable == Cardinality(presented) <= 1

\* The backend serves in the end, with tables and a user who can log in: a
\* failed start or a lost race is made up for by the next start, and an existing
\* admin or failed seeding does not stop it.
BackendServes == <>[](pc["backend"] = "serving" /\ schema /\ users # {})

\* The honeypot listens in the end, though connections may have used up what
\* accept() needs, unless a crash truncated its key file.
HoneypotListens == <>[](honeypot = "listening" \/ keyfile = Partial)
=============================================================================
