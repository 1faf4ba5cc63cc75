---------------------------- MODULE StartupProofs ----------------------------
(***************************************************************************)
(* What survives crashes, outages and races of the start, for any number   *)
(* of them: the demo data, the host key, and what the JSONL file lacks.    *)
(***************************************************************************)
EXTENDS Startup, Integers, FiniteSetTheorems, TLAPS

ScriptPCs == {"down", "tables", "create_all", "user", "insert_user"}

\* Where the creators are.
PcInv == pc \in [Creators -> PCs] /\ pc["script"] \in ScriptPCs

\* Only the backend seeds, and it seeds at most once.
DemoInv ==
  /\ demo \in {0, DemoCount}
  /\ pc["backend"] = "insert_demo" => demo = 0

\* The rest of what the backend container and the script can change.
StarterInv ==
  /\ db \in BOOLEAN /\ schema \in BOOLEAN /\ started \in BOOLEAN
  /\ outages \in 0..MaxOutages /\ crashes \in 0..MaxCrashes
  /\ users = {} \/ \E c \in Creators : users = {c}

\* A host key is generated anew only if a crash came before the last one
\* reached its file; clients see no key but the one in the file.
KeyInv ==
  /\ honeypot \in HoneypotPCs
  /\ generated \in Nat /\ generated <= crashes + 1
  /\ keyfile \in 0..Partial /\ key \in 0..MaxKeys
  /\ keyfile = Absent /\ honeypot # "generated" => generated <= crashes
  /\ honeypot = "generated" => keyfile = Absent /\ key \in 1..MaxKeys
  /\ honeypot = "opened" => keyfile = Partial /\ key \in 1..MaxKeys
  /\ honeypot \in {"listening", "closing"} => key = keyfile /\ keyfile \in 1..MaxKeys
  /\ \A k \in presented : k = keyfile /\ keyfile \in 1..MaxKeys

\* The sessions past the JSONL file without a line of their own in it.
unlogged == {s \in Sessions : session[s] \in {"logged", "done"} /\ s \notin jsonl}

\* Each write that failed or was cut short accounts for two of them: its own
\* session, and the next one while the line is torn.
FileInv ==
  /\ session \in [Sessions -> Threads]
  /\ stored \subseteq Sessions /\ jsonl \subseteq Sessions
  /\ \A s \in stored : session[s] = "done"
  /\ torn \in BOOLEAN /\ faults \in 0..MaxFaults
  /\ IsFiniteSet(unlogged)
  /\ torn => Cardinality(unlogged) + 1 <= 2 * faults
  /\ Cardinality(unlogged) <= 2 * faults

\* The inductive invariant.
IInv == PcInv /\ DemoInv /\ StarterInv /\ KeyInv /\ FileInv

---------------------------------------------------------------------------
(* The steps, sorted by what they can touch.                               *)

BackendSide ==
  \/ DatabaseUp \/ DatabaseDown \/ WaitForDatabase \/ CheckEmpty \/ InsertDemo
  \/ \E c \in Creators : Start(c) \/ Setup(c) \/ Crash(c)

HoneypotSide ==
  \/ Honeypot \/ AcceptFails \/ CrashHoneypot
  \/ \E s \in Sessions : Accept(s) \/ EndSession(s) \/ WriteJsonlFails(s)

LEMMA NextSides == Next => BackendSide \/ HoneypotSide
BY DEF Next, Backend, BackendSide, HoneypotSide, Creators

LEMMA BoundsNat == /\ MaxCrashes \in Nat /\ MaxFaults \in Nat /\ MaxOutages \in Nat
                   /\ DemoCount \in Nat \ {0}
<1>1. MaxCrashes \in Nat /\ MaxFaults \in Nat /\ MaxOutages \in Nat
  BY BoundsAssumption, Zenon DEF BoundsAssumption
<1> QED
  BY <1>1, DemoAssumption DEF DemoAssumption

LEMMA BackendSideLeaves ==
  ASSUME BackendSide
  PROVE  /\ UNCHANGED <<honeypotVars, stored>>
         /\ crashes' = crashes \/ (crashes < MaxCrashes /\ crashes' = crashes + 1)
<1>1. CASE DatabaseUp \/ DatabaseDown \/ WaitForDatabase \/ CheckEmpty \/ InsertDemo
  BY <1>1 DEF DatabaseUp, DatabaseDown, WaitForDatabase, CheckEmpty, InsertDemo, databaseVars
<1>2. ASSUME NEW c \in Creators, Start(c) \/ Setup(c) \/ Crash(c)
      PROVE  /\ UNCHANGED <<honeypotVars, stored>>
             /\ crashes' = crashes \/ (crashes < MaxCrashes /\ crashes' = crashes + 1)
  BY <1>2 DEF Start, Setup, Crash, InitDb, CreateAll, CheckUser, InsertUser,
       DatabaseError, databaseVars
<1> QED
  BY ONLY <1>1, <1>2, BackendSide DEF BackendSide

LEMMA HoneypotSideLeaves ==
  ASSUME HoneypotSide
  PROVE  /\ UNCHANGED <<db, outages, schema, users, demo, starterVars>>
         /\ crashes' = crashes \/ (crashes < MaxCrashes /\ crashes' = crashes + 1)
<1>1. CASE \/ StartHoneypot \/ LoadHostKey \/ GenerateHostKey \/ OpenKeyFile
           \/ WriteKeyFile \/ AcceptFails
  BY <1>1 DEF AcceptFails, StartHoneypot, LoadHostKey, GenerateHostKey, OpenKeyFile,
       WriteKeyFile, databaseVars
<1>2. CASE ExitHoneypot \/ CrashHoneypot
  BY <1>2 DEF ExitHoneypot, CrashHoneypot, Die, databaseVars
<1>3. ASSUME NEW s \in Sessions,
             \/ Accept(s) \/ EndSession(s) \/ WriteJsonlFails(s)
             \/ WriteJsonl(s) \/ WriteDatabase(s)
      PROVE  /\ UNCHANGED <<db, outages, schema, users, demo, starterVars>>
             /\ crashes' = crashes
  BY <1>3 DEF Accept, EndSession, WriteJsonlFails, WriteJsonl, WriteDatabase, databaseVars
<1> QED
  BY ONLY <1>1, <1>2, <1>3, HoneypotSide DEF HoneypotSide, Honeypot

---------------------------------------------------------------------------
(* The creators.                                                           *)

LEMMA AfterUserValue ==
  /\ AfterUser("script") = "down"
  /\ AfterUser("backend") \in {"seed", "serving"}
BY DEF AfterUser

\* A creator goes on to a place of its own.
LEMMA GotoPlace ==
  ASSUME PcInv, NEW c \in Creators, NEW l \in PCs, Goto(c, l),
         c = "script" => l \in ScriptPCs
  PROVE  /\ PcInv'
         /\ l # "insert_demo" =>
              (pc'["backend"] = "insert_demo" => pc["backend"] = "insert_demo")
BY DEF PcInv, Goto, Creators

\* Where each step of a creator leads to, and that it does not seed.
LEMMA SetupStep ==
  ASSUME PcInv, NEW c \in Creators, Start(c) \/ Setup(c) \/ Crash(c)
  PROVE  /\ PcInv'
         /\ pc'["backend"] = "insert_demo" => pc["backend"] = "insert_demo"
<1> DEFINE Place(l) == /\ Goto(c, l) /\ l \in PCs \ {"insert_demo"}
                       /\ c = "script" => l \in ScriptPCs
<1> SUFFICES \E l : Place(l)
  BY GotoPlace
<1>1. c = "backend" \/ c = "script"
  BY DEF Creators
<1>2. CASE Start(c)
  BY <1>1, <1>2 DEF Start, PCs, ScriptPCs
<1>3. CASE InitDb(c)
  BY <1>3 DEF InitDb, PCs, ScriptPCs
<1>4. CASE CreateAll(c)
  BY <1>4 DEF CreateAll, PCs, ScriptPCs
<1>5. CASE CheckUser(c)
  BY <1>1, <1>5, AfterUserValue DEF CheckUser, PCs, ScriptPCs
<1>6. CASE InsertUser(c)
  BY <1>1, <1>6, AfterUserValue DEF InsertUser, PCs, ScriptPCs
<1>7. CASE DatabaseError(c)
  BY <1>1, <1>7 DEF DatabaseError, Failed, PcInv, PCs, ScriptPCs
<1>8. CASE Crash(c)
  BY <1>8 DEF Crash, PCs, ScriptPCs
<1> QED
  BY <1>2, <1>3, <1>4, <1>5, <1>6, <1>7, <1>8 DEF Setup

LEMMA PcDemoStep ==
  ASSUME PcInv, DemoInv, [Next]_vars
  PROVE  PcInv' /\ DemoInv'
<1>1. CASE HoneypotSide \/ UNCHANGED vars
  BY <1>1, HoneypotSideLeaves DEF PcInv, DemoInv, vars, starterVars, databaseVars
<1>2. ASSUME NEW c \in Creators, Start(c) \/ Setup(c) \/ Crash(c)
      PROVE  PcInv' /\ DemoInv'
  <2>1. demo' = demo
    BY <1>2 DEF Start, Setup, Crash, InitDb, CreateAll, CheckUser, InsertUser,
         DatabaseError, databaseVars
  <2> QED
    BY <1>2, <2>1, SetupStep DEF DemoInv
<1>3. CASE DatabaseUp
  BY <1>3 DEF DatabaseUp, PcInv, DemoInv, starterVars
<1>4. CASE DatabaseDown
  <2>1. demo' = demo
    BY <1>4 DEF DatabaseDown
  <2>2. \A c \in Creators : /\ Failed(c) \in {"serving", "down"}
                            /\ pc[c] # "insert_demo" /\ pc[c] # "seed" => Failed(c) = "down"
    BY DEF Failed
  <2>3. /\ pc' \in [Creators -> PCs]
        /\ \A c \in Creators : pc'[c] = pc[c] \/ pc'[c] = Failed(c)
    BY <1>4, <2>2 DEF DatabaseDown, PcInv, PCs
  <2>4. "script" \in Creators /\ "backend" \in Creators
    BY DEF Creators
  <2>5. pc'["script"] \in ScriptPCs
    BY <2>2, <2>3, <2>4 DEF PcInv, ScriptPCs
  <2> QED
    BY <2>1, <2>2, <2>3, <2>4, <2>5 DEF PcInv, DemoInv
<1>5. CASE WaitForDatabase
  BY <1>5, GotoPlace DEF WaitForDatabase, DemoInv, databaseVars, Creators, PCs
<1>6. CASE CheckEmpty
  <2>1. CASE demo > 0 \/ stored # {}
    BY <1>6, <2>1, GotoPlace DEF CheckEmpty, DemoInv, databaseVars, Creators, PCs
  <2>2. CASE ~(demo > 0 \/ stored # {})
    <3>1. demo = 0 /\ demo' = demo
      BY <1>6, <2>2, BoundsNat DEF CheckEmpty, DemoInv, databaseVars
    <3>2. Goto("backend", "insert_demo")
      BY <1>6, <2>2 DEF CheckEmpty
    <3> QED
      BY <3>1, <3>2, GotoPlace DEF DemoInv, Creators, PCs
  <2> QED
    BY <2>1, <2>2
<1>7. CASE InsertDemo
  <2>1. demo' = DemoCount
    BY <1>7, BoundsNat DEF InsertDemo, DemoInv
  <2>2. PcInv' /\ pc'["backend"] = "serving"
    BY <1>7, GotoPlace DEF InsertDemo, Creators, PCs, Goto, PcInv
  <2> QED
    BY <2>1, <2>2 DEF DemoInv
<1> QED
  BY <1>1, <1>2, <1>3, <1>4, <1>5, <1>6, <1>7, NextSides DEF BackendSide

LEMMA StarterStep ==
  ASSUME StarterInv, [Next]_vars
  PROVE  StarterInv'
<1> USE BoundsNat DEF StarterInv
<1>1. CASE HoneypotSide
  BY <1>1, HoneypotSideLeaves DEF starterVars
<1>2. CASE UNCHANGED vars
  BY <1>2 DEF vars, starterVars, databaseVars
<1>3. CASE DatabaseDown
  <2>1. outages' \in 0..MaxOutages
    BY <1>3 DEF DatabaseDown
  <2> QED
    BY ONLY <1>3, <2>1, StarterInv, Zenon DEF DatabaseDown, StarterInv
<1>4. CASE DatabaseUp \/ WaitForDatabase \/ CheckEmpty \/ InsertDemo
  BY <1>4 DEF DatabaseUp, WaitForDatabase, CheckEmpty, InsertDemo, starterVars, databaseVars
<1>5. ASSUME NEW c \in Creators,
             Start(c) \/ Crash(c) \/ InitDb(c) \/ CheckUser(c) \/ DatabaseError(c)
      PROVE  StarterInv'
  <2>1. /\ UNCHANGED databaseVars
        /\ started' = started \/ started' = TRUE
        /\ crashes' \in 0..MaxCrashes
    BY <1>5 DEF Start, Crash, InitDb, CheckUser, DatabaseError
  <2> QED
    BY ONLY <2>1, StarterInv DEF databaseVars, StarterInv
<1>6. ASSUME NEW c \in Creators, CreateAll(c)
      PROVE  StarterInv'
  BY <1>6 DEF CreateAll
<1>7. ASSUME NEW c \in Creators, InsertUser(c)
      PROVE  StarterInv'
  BY <1>7 DEF InsertUser
<1> QED
  BY <1>1, <1>2, <1>3, <1>4, <1>5, <1>6, <1>7, NextSides DEF BackendSide, Setup

---------------------------------------------------------------------------
(* The host key.                                                           *)

LEMMA KeyStep ==
  ASSUME KeyInv, StarterInv, [Next]_vars
  PROVE  KeyInv'
<1> USE BoundsNat DEF Absent, Partial, MaxKeys
<1>1. crashes \in Nat /\ crashes <= MaxCrashes
  BY DEF StarterInv
\* Steps that leave the key, its file and the process alone.
<1>2. ASSUME UNCHANGED <<honeypot, keyfile, key, generated, presented>>,
             crashes' = crashes \/ crashes' = crashes + 1
      PROVE  KeyInv'
  BY <1>1, <1>2 DEF KeyInv
<1>3. CASE BackendSide
  BY <1>2, <1>3, BackendSideLeaves DEF honeypotVars
<1>4. CASE UNCHANGED vars
  BY <1>2, <1>4 DEF vars, honeypotVars
<1>5. ASSUME NEW s \in Sessions,
             EndSession(s) \/ WriteJsonl(s) \/ WriteJsonlFails(s) \/ WriteDatabase(s)
      PROVE  KeyInv'
  BY <1>2, <1>5 DEF EndSession, WriteJsonl, WriteJsonlFails, WriteDatabase
<1>6. CASE StartHoneypot
  BY <1>1, <1>6 DEF StartHoneypot, KeyInv, HoneypotPCs
<1>7. CASE LoadHostKey
  BY <1>1, <1>7 DEF LoadHostKey, KeyInv, HoneypotPCs
<1>8. CASE GenerateHostKey
  BY <1>1, <1>8 DEF GenerateHostKey, KeyInv, HoneypotPCs
<1>9. CASE OpenKeyFile
  BY <1>1, <1>9 DEF OpenKeyFile, KeyInv, HoneypotPCs
<1>10. CASE WriteKeyFile
  BY <1>1, <1>10 DEF WriteKeyFile, KeyInv, HoneypotPCs
<1>11. CASE AcceptFails
  BY <1>1, <1>11 DEF AcceptFails, KeyInv, HoneypotPCs
<1>12. CASE ExitHoneypot \/ CrashHoneypot
  BY <1>1, <1>12 DEF ExitHoneypot, CrashHoneypot, Die, KeyInv, HoneypotPCs
<1>13. ASSUME NEW s \in Sessions, Accept(s)
       PROVE  KeyInv'
  BY <1>1, <1>13 DEF Accept, KeyInv, HoneypotPCs
<1> QED
  BY <1>3, <1>4, <1>5, <1>6, <1>7, <1>8, <1>9, <1>10, <1>11, <1>12, <1>13, NextSides
     DEF HoneypotSide, Honeypot

---------------------------------------------------------------------------
(* The JSONL file.                                                         *)

\* Nobody new is unlogged.
LEMMA NoneUnlogged ==
  ASSUME FileInv, unlogged' \subseteq unlogged
  PROVE  IsFiniteSet(unlogged') /\ Cardinality(unlogged') <= Cardinality(unlogged)
         /\ Cardinality(unlogged') \in Nat /\ Cardinality(unlogged) \in Nat
BY FS_Subset, FS_CardinalityType DEF FileInv

\* One session more is unlogged.
LEMMA OneUnlogged ==
  ASSUME FileInv, NEW s, unlogged' \subseteq unlogged \cup {s}
  PROVE  IsFiniteSet(unlogged') /\ Cardinality(unlogged') <= Cardinality(unlogged) + 1
         /\ Cardinality(unlogged') \in Nat /\ Cardinality(unlogged) \in Nat
<1>1. IsFiniteSet(unlogged \cup {s})
      /\ Cardinality(unlogged \cup {s}) \in {Cardinality(unlogged), Cardinality(unlogged) + 1}
      /\ Cardinality(unlogged) \in Nat
  BY FS_AddElement, FS_CardinalityType DEF FileInv
<1>2. IsFiniteSet(unlogged')
      /\ Cardinality(unlogged') <= Cardinality(unlogged \cup {s})
      /\ Cardinality(unlogged') \in Nat
  BY <1>1, FS_Subset, FS_CardinalityType
<1> QED
  BY <1>1, <1>2

LEMMA FileStep ==
  ASSUME FileInv, [Next]_vars
  PROVE  FileInv'
<1>1. faults \in Nat /\ MaxFaults \in Nat
  BY BoundsNat DEF FileInv
<1>2. CASE BackendSide
  BY <1>2, BackendSideLeaves DEF FileInv, unlogged, honeypotVars, fileVars
<1>3. CASE UNCHANGED vars
  BY <1>3 DEF FileInv, unlogged, vars, databaseVars, honeypotVars, fileVars
<1>4. CASE StartHoneypot \/ LoadHostKey \/ GenerateHostKey \/ OpenKeyFile
           \/ WriteKeyFile \/ AcceptFails
  <2>1. UNCHANGED <<session, stored, jsonl, torn, faults>>
    BY <1>4 DEF StartHoneypot, LoadHostKey, GenerateHostKey, OpenKeyFile, WriteKeyFile,
         AcceptFails, databaseVars, fileVars
  <2> QED
    BY <2>1 DEF FileInv, unlogged
\* What is left to show of a step that writes no line.
<1>5. ASSUME UNCHANGED <<jsonl, torn, faults>>,
             session' \in [Sessions -> Threads], stored' \subseteq Sessions,
             \A s \in stored' : session'[s] = "done",
             unlogged' \subseteq unlogged
      PROVE  FileInv'
  BY <1>1, <1>5, NoneUnlogged DEF FileInv
<1>6. CASE ExitHoneypot \/ CrashHoneypot
  <2>1. /\ session' = [s \in Sessions |->
             IF session[s] \in {"open", "ended", "logged"} THEN "lost" ELSE session[s]]
        /\ UNCHANGED <<jsonl, stored>>
        /\ UNCHANGED <<torn, faults>> \/ CutShort
    BY <1>6 DEF ExitHoneypot, CrashHoneypot, Die, databaseVars
  <2>2. session' \in [Sessions -> Threads]
        /\ \A s \in Sessions : session'[s] = "lost" \/ session'[s] = session[s]
    BY <2>1 DEF FileInv, Threads
  <2>3. \A s \in stored : s \in Sessions /\ session'[s] = "done"
    BY <2>1 DEF FileInv
  <2>4. unlogged' \subseteq unlogged
    BY <2>1, <2>2 DEF unlogged
  <2>5. CASE UNCHANGED <<torn, faults>>
    BY <1>5, <2>1, <2>2, <2>3, <2>4, <2>5 DEF FileInv
  <2>6. CASE CutShort
    <3>1. faults' \in 0..MaxFaults /\ faults' = faults + 1 /\ torn' = TRUE
      BY <1>1, <2>6 DEF CutShort
    <3>2. /\ IsFiniteSet(unlogged') /\ Cardinality(unlogged') <= Cardinality(unlogged)
          /\ Cardinality(unlogged') \in Nat /\ Cardinality(unlogged) \in Nat
      BY <2>4, NoneUnlogged
    <3>3. Cardinality(unlogged) <= 2 * faults
      BY DEF FileInv
    <3>4. Cardinality(unlogged') + 1 <= 2 * faults' /\ Cardinality(unlogged') <= 2 * faults'
      BY ONLY <1>1, <3>1, <3>2, <3>3
    <3> QED
      BY <2>1, <2>2, <2>3, <3>1, <3>2, <3>4 DEF FileInv
  <2> QED
    BY <2>1, <2>5, <2>6
<1>7. ASSUME NEW s \in Sessions, Accept(s) \/ EndSession(s)
      PROVE  FileInv'
  <2>1. /\ session[s] \in {"none", "open"}
        /\ session' = [session EXCEPT ![s] = "open"] \/ session' = [session EXCEPT ![s] = "ended"]
        /\ UNCHANGED <<jsonl, torn, faults, stored>>
    BY <1>7 DEF Accept, EndSession, fileVars, databaseVars
  <2>2. session' \in [Sessions -> Threads]
        /\ session'[s] \in {"open", "ended"}
        /\ \A q \in Sessions : q # s => session'[q] = session[q]
    BY <2>1 DEF FileInv, Threads
  <2>3. \A q \in stored : session'[q] = "done"
    BY <2>1, <2>2 DEF FileInv
  <2>4. unlogged' \subseteq unlogged
    BY <2>1, <2>2 DEF unlogged
  <2> QED
    BY <1>5, <2>1, <2>2, <2>3, <2>4 DEF FileInv
<1>8. ASSUME NEW s \in Sessions, WriteDatabase(s)
      PROVE  FileInv'
  <2>1. /\ session[s] = "logged"
        /\ session' = [session EXCEPT ![s] = "done"]
        /\ UNCHANGED <<jsonl, torn, faults>>
        /\ stored' = stored \/ stored' = stored \cup {s}
    BY <1>8 DEF WriteDatabase, fileVars
  <2>2. session' \in [Sessions -> Threads]
        /\ session'[s] = "done"
        /\ \A q \in Sessions : q # s => session'[q] = session[q]
    BY <2>1 DEF FileInv, Threads
  <2>3. stored' \subseteq Sessions /\ \A q \in stored' : session'[q] = "done"
    BY <2>1, <2>2 DEF FileInv
  <2>4. unlogged' \subseteq unlogged
    BY <2>1, <2>2 DEF unlogged
  <2> QED
    BY <1>5, <2>1, <2>2, <2>3, <2>4
\* A session passes the JSONL file.
<1>9. ASSUME NEW s \in Sessions, session[s] = "ended",
             session' = [session EXCEPT ![s] = "logged"], stored' = stored,
             jsonl \subseteq jsonl'
      PROVE  /\ session' \in [Sessions -> Threads]
             /\ \A q \in stored' : session'[q] = "done"
             /\ unlogged' \subseteq unlogged \cup {s}
  <2>1. session' \in [Sessions -> Threads]
        /\ session'[s] = "logged"
        /\ \A q \in Sessions : q # s => session'[q] = session[q]
    BY <1>9 DEF FileInv, Threads
  <2>2. \A q \in stored' : session'[q] = "done"
    BY <1>9, <2>1 DEF FileInv
  <2>3. unlogged' \subseteq unlogged \cup {s}
    BY <1>9, <2>1 DEF unlogged
  <2> QED
    BY <2>1, <2>2, <2>3
<1>10. ASSUME NEW s \in Sessions, WriteJsonl(s)
       PROVE  FileInv'
  <2>1. /\ session[s] = "ended" /\ session' = [session EXCEPT ![s] = "logged"]
        /\ jsonl' = IF torn THEN jsonl ELSE jsonl \cup {s}
        /\ torn' = FALSE
        /\ UNCHANGED <<stored, faults>>
    BY <1>10 DEF WriteJsonl, databaseVars
  <2>2. jsonl \subseteq jsonl' /\ jsonl' \subseteq Sessions
    BY <2>1 DEF FileInv
  <2>3. /\ session' \in [Sessions -> Threads]
        /\ \A q \in stored' : session'[q] = "done"
        /\ unlogged' \subseteq unlogged \cup {s}
    BY ONLY <1>9, <2>1, <2>2
  <2>4. IsFiniteSet(unlogged') /\ Cardinality(unlogged') <= 2 * faults
    <3>1. CASE torn
      BY <1>1, <2>3, <3>1, OneUnlogged DEF FileInv
    <3>2. CASE ~torn
      <4>1. s \in jsonl'
        BY <2>1, <3>2
      <4>2. s \notin unlogged'
        BY <4>1 DEF unlogged
      <4>3. unlogged' \subseteq unlogged
        BY <2>3, <4>2
      <4> QED
        BY <1>1, <4>3, NoneUnlogged DEF FileInv
    <3> QED
      BY <3>1, <3>2
  <2> QED
    BY <2>1, <2>2, <2>3, <2>4 DEF FileInv
<1>11. ASSUME NEW s \in Sessions, WriteJsonlFails(s)
       PROVE  FileInv'
  <2>1. /\ session[s] = "ended" /\ session' = [session EXCEPT ![s] = "logged"]
        /\ UNCHANGED <<stored, jsonl>>
        /\ faults < MaxFaults /\ faults' = faults + 1
        /\ torn' = torn \/ torn' = TRUE
    BY <1>11 DEF WriteJsonlFails, databaseVars
  <2>2. /\ session' \in [Sessions -> Threads]
        /\ \A q \in stored' : session'[q] = "done"
        /\ unlogged' \subseteq unlogged \cup {s}
    BY ONLY <1>9, <2>1
  <2>3. /\ IsFiniteSet(unlogged') /\ Cardinality(unlogged') + 1 <= 2 * faults'
        /\ Cardinality(unlogged') <= 2 * faults'
    <3>1. /\ IsFiniteSet(unlogged') /\ Cardinality(unlogged') <= Cardinality(unlogged) + 1
          /\ Cardinality(unlogged') \in Nat /\ Cardinality(unlogged) \in Nat
      BY <2>2, OneUnlogged
    <3>2. Cardinality(unlogged) <= 2 * faults
      BY DEF FileInv
    <3> QED
      BY ONLY <1>1, <2>1, <3>1, <3>2
  <2>4. faults' \in 0..MaxFaults
    BY <1>1, <2>1
  <2>5. torn' \in BOOLEAN
    BY <2>1, Zenon DEF FileInv
  <2> QED
    BY <2>1, <2>2, <2>3, <2>4, <2>5 DEF FileInv
<1> QED
  BY <1>2, <1>3, <1>4, <1>6, <1>7, <1>8, <1>10, <1>11, NextSides DEF HoneypotSide, Honeypot

---------------------------------------------------------------------------
(* The theorems.                                                           *)

LEMMA InitInv == Init => IInv
<1> SUFFICES ASSUME Init PROVE IInv
  OBVIOUS
<1>1. PcInv /\ DemoInv
  BY DEF Init, PcInv, DemoInv, Creators, PCs, ScriptPCs
<1>2. StarterInv
  <2>1. outages \in 0..MaxOutages /\ crashes \in 0..MaxCrashes
    BY BoundsNat DEF Init
  <2> QED
    BY <2>1 DEF Init, StarterInv
<1>3. KeyInv
  BY BoundsNat DEF Init, KeyInv, HoneypotPCs, Absent, Partial, MaxKeys
<1>4. FileInv
  <2>1. unlogged = {}
    BY DEF Init, unlogged
  <2>2. IsFiniteSet(unlogged) /\ Cardinality(unlogged) = 0
    BY <2>1, FS_EmptySet
  <2>3. faults \in 0..MaxFaults /\ Cardinality(unlogged) <= 2 * faults
    BY <2>2, BoundsNat DEF Init
  <2>4. session \in [Sessions -> Threads]
    BY DEF Init, Threads
  <2> QED
    BY <2>2, <2>3, <2>4 DEF Init, FileInv
<1> QED
  BY <1>1, <1>2, <1>3, <1>4 DEF IInv

LEMMA StepInv == IInv /\ [Next]_vars => IInv'
BY PcDemoStep, StarterStep, KeyStep, FileStep DEF IInv

\* What crashes, outages and races leave intact: the inductive invariant.
THEOREM Inductive == Spec => []IInv
BY InitInv, StepInv, PTL DEF Spec

\* The types, and a single row for the admin's username whoever creates it.
THEOREM TypeCorrect == Spec => []TypeOK
<1>1. IInv => TypeOK
  <2> SUFFICES ASSUME IInv PROVE TypeOK
    OBVIOUS
  <2>1. users \subseteq Creators /\ Cardinality(users) <= 1
    <3>1. users = {} \/ \E c \in Creators : users = {c}
      BY DEF IInv, StarterInv
    <3>2. CASE users = {}
      BY <3>2, FS_EmptySet
    <3>3. ASSUME NEW c \in Creators, users = {c}
          PROVE  users \subseteq Creators /\ Cardinality(users) <= 1
      <4>1. Cardinality({c}) = 1
        BY FS_Singleton
      <4> QED
        BY <3>3, <4>1
    <3> QED
      BY <3>1, <3>2, <3>3
  <2>2. demo \in 0..DemoCount
    BY BoundsNat DEF IInv, DemoInv
  <2>3. generated \in 0..MaxKeys /\ presented \subseteq 1..MaxKeys
    BY BoundsNat DEF IInv, KeyInv, StarterInv, MaxKeys
  <2> QED
    BY <2>1, <2>2, <2>3 DEF TypeOK, IInv, PcInv, StarterInv, KeyInv, FileInv, ScriptPCs
<1> QED
  BY <1>1, Inductive, PTL

\* No crash, outage or restart seeds twice or leaves a part of the demo data.
THEOREM SeededOnce == Spec => []DemoAllOrNothing
<1>1. IInv => DemoAllOrNothing
  BY DEF IInv, DemoInv, DemoAllOrNothing
<1> QED
  BY <1>1, Inductive, PTL

\* Clients see one host key, however often the honeypot crashes around writing it.
THEOREM OneHostKey == Spec => []HostKeyStable
<1>1. IInv => HostKeyStable
  <2> SUFFICES ASSUME IInv PROVE HostKeyStable
    OBVIOUS
  <2>1. \A k \in presented : k = keyfile
    BY DEF IInv, KeyInv
  <2>2. presented = {} \/ presented = {keyfile}
    BY <2>1
  <2>3. Cardinality({keyfile}) = 1 /\ Cardinality({}) = 0
    BY FS_Singleton, FS_EmptySet
  <2> QED
    BY <2>2, <2>3 DEF HostKeyStable
<1> QED
  BY <1>1, Inductive, PTL

\* The JSONL file lacks at most two sessions, stored or missed by the database,
\* for each write that failed or was cut short.
THEOREM LoggedBeforeStored == Spec => []CapturesLogged
<1>1. IInv => CapturesLogged
  <2> SUFFICES ASSUME IInv PROVE CapturesLogged
    OBVIOUS
  <2>1. Written \ jsonl \subseteq unlogged
    BY DEF IInv, FileInv, unlogged, Written
  <2>2. /\ IsFiniteSet(unlogged) /\ Cardinality(unlogged) \in Nat
        /\ Cardinality(unlogged) <= 2 * faults /\ faults \in Nat
    BY FS_CardinalityType DEF IInv, FileInv
  <2>3. Cardinality(Written \ jsonl) <= Cardinality(unlogged) /\ Cardinality(Written \ jsonl) \in Nat
    BY <2>1, <2>2, FS_Subset, FS_CardinalityType
  <2> QED
    BY <2>2, <2>3 DEF CapturesLogged
<1> QED
  BY <1>1, Inductive, PTL
=============================================================================
