---------------------------- MODULE ReseedProofs ----------------------------
(***************************************************************************)
(* The safety of seeding and resetting next to running ingests, for every  *)
(* set of sessions, scripts and addresses.                                 *)
(*                                                                         *)
(* The arguments go through met: two transactions that are open at the     *)
(* same time have met, and what they have met they keep.  A row that       *)
(* appears belongs to a transaction that is open, a row that disappears    *)
(* was deleted by a reset that is open, and an incident that a session has *)
(* updated and not committed cannot disappear.                             *)
(***************************************************************************)
EXTENDS Reseed, TLAPS

\* TypeOK, with where sessions and scripts can be.
TypeInv ==
  /\ TypeOK
  /\ \A s \in Sessions :
       /\ pc[s] \in {"idle"} \cup SessionPCs \cup Ended
       /\ pc[s] \in SessionPCs => source[s] \in IPs
  /\ \A p \in Scripts : pc[p] \in {"idle"} \cup ScriptPCs \cup Ended

\* Only a reset deletes, and where it is says what it has decided to delete.
ModeInv ==
  \A p \in Scripts :
    /\ pc[p] = "check" => mode[p] = "if_empty"
    /\ pc[p] \in {"delete_attacks", "delete_incidents", "locking"} => mode[p] = "reset"
    /\ pc[p] \in {"idle", "check", "delete_attacks"} => deleted[p] = Nothing
    /\ deleted[p] # Nothing => mode[p] = "reset" /\ pc[p] \in ScriptPCs
    /\ pc[p] = "delete_incidents" => deleted[p].incidents = {}
    /\ pc[p] = "insert" => deleted[p].incidents \subseteq locked[p]

\* To have met is symmetric, and transactions that are open together have.
MetInv ==
  /\ \A t, u \in Transactions : u \in met[t] => t \in met[u] /\ pc[u] # "idle"
  /\ \A t, u \in Transactions :
       t # u /\ pc[t] \in Open /\ pc[u] \in Open => u \in met[t]

\* An incident that a session has updated is there until the session commits:
\* no reset gets its row lock, and a reset deletes what it has locked.
HeldInv ==
  \A s \in Sessions :
    pc[s] = "commit" /\ found[s] # None =>
      /\ found[s] \in incidents
      /\ \A p \in Scripts : found[s] \notin locked[p]

\* A session that is about to fail has met the reset that made it fail.
HarmInv ==
  /\ ResetHarmsOnlyOverlapping
  /\ \A s \in Sessions :
       pc[s] = "flush" /\ found[s] \notin incidents \cup {None} => ResetsMet(s) # {}

\* What a reset will leave was stored by transactions that it met.
WipeInv ==
  \A p \in Scripts : mode[p] = "reset" =>
    /\ pc[p] \in {"delete_incidents", "locking", "insert"} =>
         \A a \in DOMAIN attacks \ deleted[p].attacks : By(a) \in met[p]
    /\ pc[p] \in {"locking", "insert"} =>
         \A n \in incidents \ deleted[p].incidents : By(n) \in met[p]

\* The inductive invariant.
IInv == TypeInv /\ ModeInv /\ MetInv /\ HeldInv /\ HarmInv /\ WipeInv /\ SeedsOnlyIntoEmpty

---------------------------------------------------------------------------
(* Types.                                                                  *)

\* What End leaves behind has its type, whatever l the transaction goes to.
LEMMA EndType ==
  ASSUME TypeInv, NEW t \in Transactions, NEW l \in Ended, End(t, l)
  PROVE  /\ pc' \in [Transactions -> {"idle"} \cup Open \cup Ended]
         /\ source' \in [Sessions -> IPs \cup {None}]
         /\ found' \in [Sessions -> Rows \cup {None}]
         /\ mode' = mode
         /\ deleted' \in [Scripts -> [attacks : SUBSET Rows, incidents : SUBSET Rows]]
         /\ locked' \in [Scripts -> SUBSET Rows]
         /\ pc'[t] = l
         /\ \A u \in Transactions \ {t} : pc'[u] = pc[u]
         /\ \A s \in Sessions \ {t} : source'[s] = source[s] /\ found'[s] = found[s]
         /\ \A p \in Scripts \ {t} : deleted'[p] = deleted[p] /\ locked'[p] = locked[p]
         /\ t \in Sessions => found'[t] = None
         /\ t \in Scripts => deleted'[t] = Nothing /\ locked'[t] = {}
BY DEF End, Goto, TypeInv, TypeOK, Transactions, Nothing, Ended

LEMMA BeginType ==
  ASSUME TypeInv, NEW t \in Transactions, NEW l \in Open, Begin(t, l)
  PROVE  /\ pc' \in [Transactions -> {"idle"} \cup Open \cup Ended]
         /\ met' \in [Transactions -> SUBSET Transactions]
         /\ pc[t] = "idle" /\ pc'[t] = l
         /\ \A u \in Transactions \ {t} : pc'[u] = pc[u]
         /\ met'[t] = {u \in Transactions : pc[u] \in Open}
         /\ \A u \in Transactions \ {t} :
              met'[u] = IF pc[u] \in Open THEN met[u] \cup {t} ELSE met[u]
BY DEF Begin, Goto, TypeInv, TypeOK

\* A row that a transaction names with itself.
LEMMA RowType ==
  ASSUME NEW t \in Transactions, NEW i \in IPs
  PROVE  <<t, i>> \in Rows /\ By(<<t, i>>) = t /\ <<t, i>> # None
BY NoneAssumption DEF Rows, By

LEMMA IngestType ==
  ASSUME TypeInv, NEW s \in Sessions, NEW i \in IPs, Ingest(s, i)
  PROVE  TypeInv'
<1>1. s \in Transactions /\ "select" \in Open /\ Begin(s, "select")
  BY DEF Ingest, Transactions, Open, SessionPCs
<1>2. TypeOK'
  <2>1. source' \in [Sessions -> IPs \cup {None}]
    BY DEF TypeInv, TypeOK, Ingest
  <2>2. UNCHANGED <<found, mode, deleted, locked, attacks, incidents>>
    BY DEF Ingest, tables
  <2>3. /\ pc' \in [Transactions -> {"idle"} \cup Open \cup Ended]
        /\ met' \in [Transactions -> SUBSET Transactions]
    BY <1>1, BeginType
  <2> QED
    BY <2>1, <2>2, <2>3 DEF TypeInv, TypeOK
<1>3. source'[s] \in IPs /\ \A u \in Sessions \ {s} : source'[u] = source[u]
  BY DEF TypeInv, TypeOK, Ingest
<1>4. pc'[s] = "select" /\ \A u \in Transactions \ {s} : pc'[u] = pc[u]
  BY <1>1, BeginType
<1> QED
  BY <1>2, <1>3, <1>4, TransactionsAssumption DEF TypeInv, Transactions, SessionPCs

LEMMA SelectIncidentType ==
  ASSUME TypeInv, NEW s \in Sessions, SelectIncident(s)
  PROVE  TypeInv'
<1>1. found' \in [Sessions -> Rows \cup {None}]
  BY DEF TypeInv, TypeOK, SelectIncident
<1>2. /\ pc' \in [Transactions -> {"idle"} \cup Open \cup Ended]
      /\ pc[s] = "select" /\ pc'[s] = "flush"
      /\ \A u \in Transactions \ {s} : pc'[u] = pc[u]
  BY DEF TypeInv, TypeOK, SelectIncident, Goto, Transactions, Open, SessionPCs
<1>3. TypeOK'
  BY <1>1, <1>2 DEF TypeInv, TypeOK, SelectIncident, tables
<1> QED
  BY <1>2, <1>3, TransactionsAssumption
  DEF TypeInv, SelectIncident, Transactions, SessionPCs

LEMMA FlushIncidentType ==
  ASSUME TypeInv, NEW s \in Sessions, FlushIncident(s)
  PROVE  TypeInv'
<1>1. CASE Goto(s, "commit") /\ UNCHANGED localVars
  <2>1. /\ pc' \in [Transactions -> {"idle"} \cup Open \cup Ended]
        /\ pc[s] = "flush" /\ pc'[s] = "commit"
        /\ \A u \in Transactions \ {s} : pc'[u] = pc[u]
    BY <1>1 DEF TypeInv, TypeOK, FlushIncident, Goto, Transactions, Open, SessionPCs
  <2>2. TypeOK'
    BY <1>1, <2>1 DEF TypeInv, TypeOK, FlushIncident, localVars, tables
  <2> QED
    BY <1>1, <2>1, <2>2, TransactionsAssumption
    DEF TypeInv, localVars, Transactions, SessionPCs
<1>2. CASE End(s, "stale")
  <2>1. s \in Transactions /\ "stale" \in Ended
    BY DEF Transactions, Ended
  <2>2. TypeOK'
    BY <1>2, <2>1, EndType DEF TypeInv, TypeOK, FlushIncident, tables
  <2> QED
    BY <1>2, <2>1, <2>2, EndType, TransactionsAssumption
    DEF TypeInv, Transactions, SessionPCs, Ended
<1> QED
  BY <1>1, <1>2 DEF FlushIncident

LEMMA CommitType ==
  ASSUME TypeInv, NEW s \in Sessions, Commit(s)
  PROVE  TypeInv'
<1>1. s \in Transactions /\ "done" \in Ended /\ End(s, "done") /\ source[s] \in IPs
  BY DEF Commit, Transactions, Ended, SessionPCs, TypeInv
<1>2. <<s, source[s]>> \in Rows /\ IncidentId(s) \in Rows
  BY <1>1, RowType DEF IncidentId, TypeInv, TypeOK
<1>3. /\ incidents' \subseteq Rows
      /\ DOMAIN attacks' \subseteq Rows
      /\ \A a \in DOMAIN attacks' : attacks'[a] \in incidents' \cup {None}
  BY <1>2 DEF Commit, TypeInv, TypeOK
<1>4. TypeOK'
  BY <1>1, <1>3, EndType DEF TypeInv, TypeOK, Commit
<1> QED
  BY <1>1, <1>4, EndType, TransactionsAssumption DEF TypeInv, Transactions, SessionPCs, Ended

LEMMA RunType ==
  ASSUME TypeInv, NEW p \in Scripts, NEW m \in Modes, Run(p, m)
  PROVE  TypeInv'
<1>1. p \in Transactions /\ FirstStatement(m) \in ScriptPCs /\ FirstStatement(m) \in Open
  BY DEF Transactions, FirstStatement, Modes, ScriptPCs, Open
<1>2. TypeOK'
  BY <1>1, BeginType DEF TypeInv, TypeOK, Run, tables
<1> QED
  BY <1>1, <1>2, BeginType, TransactionsAssumption DEF TypeInv, Run, Transactions

\* The statements of a script that change nothing but it.
LEMMA ScriptType ==
  ASSUME TypeInv, NEW p \in Scripts,
         \/ CheckEmpty(p) \/ DeleteAttacks(p) \/ DeleteIncidents(p)
         \/ LockIncident(p) \/ DeleteReturns(p)
  PROVE  TypeInv'
<1>1. /\ pc' \in [Transactions -> {"idle"} \cup Open \cup Ended]
      /\ pc'[p] \in ScriptPCs \cup Ended
      /\ \A u \in Transactions \ {p} : pc'[u] = pc[u]
  BY DEF TypeInv, TypeOK, CheckEmpty, DeleteAttacks, DeleteIncidents, LockIncident,
         DeleteReturns, Goto, Transactions, Open, ScriptPCs, Ended
<1>2. /\ deleted' \in [Scripts -> [attacks : SUBSET Rows, incidents : SUBSET Rows]]
      /\ locked' \in [Scripts -> SUBSET Rows]
  <2> USE DEF TypeInv, TypeOK
  <2>1. CASE CheckEmpty(p)
    BY <2>1 DEF CheckEmpty, localVars
  <2>2. CASE DeleteAttacks(p)
    BY <2>2 DEF DeleteAttacks
  <2>3. CASE DeleteIncidents(p)
    BY <2>3 DEF DeleteIncidents
  <2>4. CASE LockIncident(p)
    BY <2>4 DEF LockIncident
  <2>5. CASE DeleteReturns(p)
    BY <2>5 DEF DeleteReturns, localVars
  <2> QED
    BY <2>1, <2>2, <2>3, <2>4, <2>5
<1>3. UNCHANGED <<source, found, mode, attacks, incidents, met>>
  BY DEF CheckEmpty, DeleteAttacks, DeleteIncidents, LockIncident, DeleteReturns, localVars,
         tables
<1>4. TypeOK'
  BY <1>1, <1>2, <1>3 DEF TypeInv, TypeOK
<1> QED
  BY <1>1, <1>3, <1>4, TransactionsAssumption DEF TypeInv, Transactions

LEMMA InsertDemoType ==
  ASSUME TypeInv, NEW p \in Scripts, InsertDemo(p)
  PROVE  TypeInv'
<1>1. p \in Transactions /\ "done" \in Ended /\ End(p, "done")
  BY DEF InsertDemo, Transactions, Ended
<1>2. DemoRows(p) \subseteq Rows
  BY <1>1, SourcesAssumption DEF DemoRows, Rows
<1>3. /\ incidents' \subseteq Rows
      /\ DOMAIN attacks' \subseteq Rows
      /\ \A a \in DOMAIN attacks' : attacks'[a] \in incidents' \cup {None}
  BY <1>2 DEF InsertDemo, Kept, TypeInv, TypeOK
<1>4. TypeOK'
  BY <1>1, <1>3, EndType DEF TypeInv, TypeOK, InsertDemo
<1> QED
  BY <1>1, <1>4, EndType, TransactionsAssumption DEF TypeInv, Transactions, ScriptPCs, Ended

LEMMA AbortType ==
  ASSUME TypeInv, NEW t \in Transactions, Abort(t)
  PROVE  TypeInv'
<1>1. "aborted" \in Ended /\ End(t, "aborted")
  BY DEF Abort, Ended
<1>2. TypeOK'
  BY <1>1, EndType DEF TypeInv, TypeOK, Abort, tables
<1> QED
  BY <1>1, <1>2, EndType DEF TypeInv, Transactions, SessionPCs, Ended

LEMMA InitType == Init => TypeInv
BY TransactionsAssumption
DEF Init, TypeInv, TypeOK, Transactions, Nothing, Open, Ended, SessionPCs, ScriptPCs

LEMMA TypeStep == TypeInv /\ [Next]_vars => TypeInv'
<1> SUFFICES ASSUME TypeInv, [Next]_vars PROVE TypeInv'
  OBVIOUS
<1>1. CASE UNCHANGED vars
  BY <1>1 DEF vars, localVars, tables, TypeInv, TypeOK
<1> QED
  BY <1>1, IngestType, SelectIncidentType, FlushIncidentType, CommitType, RunType,
     ScriptType, InsertDemoType, AbortType DEF Next, IngestStep, ScriptStep

\* The types, for every set of sessions, scripts and addresses.
THEOREM TypeCorrect == Spec => []TypeOK
<1>1. TypeInv => TypeOK
  BY DEF TypeInv
<1> QED
  BY <1>1, InitType, TypeStep, PTL DEF Spec

---------------------------------------------------------------------------
(* Who has met whom.                                                       *)

\* A step that begins no transaction.
Silent ==
  /\ UNCHANGED <<met, mode>>
  /\ \A t \in Transactions : /\ pc'[t] \in Open => pc[t] \in Open
                             /\ pc[t] # "idle" => pc'[t] # "idle"

LEMMA SilentStep ==
  ASSUME TypeInv, [Next]_vars,
         ~ \E s \in Sessions, i \in IPs : Ingest(s, i),
         ~ \E p \in Scripts, m \in Modes : Run(p, m)
  PROVE  Silent
<1>1. CASE UNCHANGED vars
  BY <1>1 DEF Silent, vars, localVars
<1>2. ASSUME NEW t \in Transactions, NEW l \in Ended, End(t, l), pc[t] \in Open, UNCHANGED met
      PROVE  Silent
  BY <1>2, EndType DEF Silent, Open, SessionPCs, ScriptPCs, Ended
<1>3. ASSUME NEW t \in Transactions, NEW l, Goto(t, l), pc[t] \in Open, l # "idle",
             UNCHANGED <<met, mode>>
      PROVE  Silent
  BY <1>3 DEF Silent, Goto, TypeInv, TypeOK
<1>4. ASSUME NEW s \in Sessions, IngestStep(s)
      PROVE  Silent
  <2>1. s \in Transactions /\ SessionPCs \subseteq Open /\ {"stale", "done"} \subseteq Ended
    BY DEF Transactions, Open, Ended
  <2>2. CASE SelectIncident(s)
    BY <1>3, <2>1, <2>2 DEF SelectIncident, SessionPCs
  <2>3. CASE FlushIncident(s)
    BY <1>2, <1>3, <2>1, <2>3 DEF FlushIncident, SessionPCs, localVars
  <2>4. CASE Commit(s)
    BY <1>2, <2>1, <2>4 DEF Commit, SessionPCs
  <2> QED
    BY <1>4, <2>2, <2>3, <2>4 DEF IngestStep
<1>5. ASSUME NEW p \in Scripts, ScriptStep(p)
      PROVE  Silent
  <2>1. p \in Transactions /\ ScriptPCs \subseteq Open /\ "done" \in Ended
    BY DEF Transactions, Open, Ended
  <2>2. CASE CheckEmpty(p) \/ DeleteReturns(p)
    BY <1>3, <2>1, <2>2 DEF CheckEmpty, DeleteReturns, ScriptPCs, localVars
  <2>3. CASE DeleteAttacks(p) \/ DeleteIncidents(p)
    BY <1>3, <2>1, <2>3 DEF DeleteAttacks, DeleteIncidents, ScriptPCs
  <2>4. CASE InsertDemo(p)
    BY <1>2, <2>1, <2>4 DEF InsertDemo, ScriptPCs
  <2>5. CASE LockIncident(p)
    BY <2>5 DEF LockIncident, Silent
  <2> QED
    BY <1>5, <2>2, <2>3, <2>4, <2>5 DEF ScriptStep
<1>6. ASSUME NEW t \in Transactions, Abort(t)
      PROVE  Silent
  BY <1>2, <1>6 DEF Abort, Ended
<1> QED
  BY <1>1, <1>4, <1>5, <1>6 DEF Next

LEMMA MetSilent ==
  ASSUME MetInv, Silent
  PROVE  MetInv'
BY DEF MetInv, Silent

LEMMA MetBegin ==
  ASSUME TypeInv, MetInv, NEW t \in Transactions, NEW l \in Open, Begin(t, l)
  PROVE  MetInv'
<1>1. l # "idle"
  BY DEF Open, SessionPCs, ScriptPCs
<1>2. "idle" \notin Open
  BY DEF Open, SessionPCs, ScriptPCs
<1> DEFINE others == {u \in Transactions : pc[u] \in Open}
<1>a. /\ pc[t] = "idle" /\ pc'[t] = l
      /\ \A u \in Transactions \ {t} : pc'[u] = pc[u]
      /\ met'[t] = others
      /\ \A u \in others \ {t} : met'[u] = met[u] \cup {t}
      /\ \A u \in Transactions \ (others \cup {t}) : met'[u] = met[u]
  BY BeginType
<1>b. t \notin others /\ met[t] = {} /\ \A u \in Transactions : t \notin met[u]
  BY <1>2, <1>a DEF MetInv, TypeInv, TypeOK
<1> HIDE DEF others
<1>c. others \subseteq Transactions /\ \A u \in Transactions : u \in others <=> pc[u] \in Open
  BY DEF others
<1>3. ASSUME NEW u \in Transactions, NEW v \in Transactions, u \in met'[v]
      PROVE  v \in met'[u] /\ pc'[u] # "idle"
  <2>1. CASE v = t
    BY <1>2, <1>3, <1>a, <1>b, <1>c, <2>1
  <2>2. CASE v # t /\ u = t
    BY <1>1, <1>3, <1>a, <1>b, <1>c, <2>2
  <2>3. CASE v # t /\ u # t
    <3>1. u \in met[v]
      BY <1>3, <1>a, <2>3
    <3> QED
      BY <1>a, <2>3, <3>1 DEF MetInv
  <2> QED
    BY <2>1, <2>2, <2>3
<1>4. ASSUME NEW u \in Transactions, NEW v \in Transactions,
             u # v, pc'[u] \in Open, pc'[v] \in Open
      PROVE  v \in met'[u]
  <2>1. CASE u = t
    BY <1>4, <1>a, <1>c, <2>1
  <2>2. CASE v = t
    BY <1>4, <1>a, <1>c, <2>2
  <2>3. CASE u # t /\ v # t
    BY <1>4, <1>a, <1>c, <2>3 DEF MetInv
  <2> QED
    BY <2>1, <2>2, <2>3
<1> QED
  BY <1>3, <1>4 DEF MetInv

\* The labels at which transactions begin.
LEMMA FirstLabels ==
  /\ "select" \in Open
  /\ \A m \in Modes : FirstStatement(m) \in Open
  /\ Sessions \subseteq Transactions /\ Scripts \subseteq Transactions
BY DEF Open, SessionPCs, ScriptPCs, FirstStatement, Modes, Transactions

LEMMA MetStep == TypeInv /\ MetInv /\ [Next]_vars => MetInv'
<1>1. ASSUME TypeInv, MetInv, NEW s \in Sessions, NEW i \in IPs, Ingest(s, i)
      PROVE  MetInv'
  BY <1>1, MetBegin, FirstLabels DEF Ingest
<1>2. ASSUME TypeInv, MetInv, NEW p \in Scripts, NEW m \in Modes, Run(p, m)
      PROVE  MetInv'
  BY <1>2, MetBegin, FirstLabels DEF Run
<1> QED
  BY <1>1, <1>2, SilentStep, MetSilent

\* A reset that a transaction has met stays a reset that it has met.
LEMMA ResetsMetGrow ==
  ASSUME TypeInv, MetInv, [Next]_vars, NEW t \in Transactions
  PROVE  ResetsMet(t) \subseteq ResetsMet(t)'
<1>1. ASSUME NEW s \in Sessions, NEW i \in IPs, Ingest(s, i)
      PROVE  ResetsMet(t) \subseteq ResetsMet(t)'
  <2>1. s \in Transactions /\ "select" \in Open /\ Begin(s, "select") /\ mode' = mode
    BY <1>1, FirstLabels DEF Ingest
  <2>2. met[s] = {}
    BY <2>1, BeginType DEF MetInv, TypeInv, TypeOK
  <2>3. met[t] \subseteq met'[t]
    <3>1. CASE t = s
      BY <2>2, <3>1
    <3>2. CASE t # s
      <4>1. met'[t] = IF pc[t] \in Open THEN met[t] \cup {s} ELSE met[t]
        BY <2>1, <3>2, BeginType
      <4> QED
        BY <4>1
    <3> QED
      BY <3>1, <3>2
  <2> QED
    BY <2>1, <2>3 DEF ResetsMet
<1>2. ASSUME NEW p \in Scripts, NEW m \in Modes, Run(p, m)
      PROVE  ResetsMet(t) \subseteq ResetsMet(t)'
  <2>1. p \in Transactions /\ FirstStatement(m) \in Open /\ Begin(p, FirstStatement(m))
    BY <1>2, FirstLabels DEF Run
  <2>2. p \notin met[t] /\ met[p] = {}
    BY <2>1, BeginType DEF MetInv, TypeInv, TypeOK
  <2>3. \A q \in Scripts \ {p} : mode'[q] = mode[q]
    BY <1>2 DEF Run, TypeInv, TypeOK
  <2>4. CASE t = p
    BY <2>2, <2>4 DEF ResetsMet
  <2>5. CASE t # p
    <3>1. met'[t] = IF pc[t] \in Open THEN met[t] \cup {p} ELSE met[t]
      BY <2>1, <2>5, BeginType
    <3>2. met[t] \subseteq met'[t]
      BY <3>1
    <3> QED
      BY <2>2, <2>3, <3>2 DEF ResetsMet
  <2> QED
    BY <2>4, <2>5
<1>3. CASE Silent
  BY <1>3 DEF Silent, ResetsMet
<1> QED
  BY <1>1, <1>2, <1>3, SilentStep

---------------------------------------------------------------------------
(* What scripts were asked to do, and what they have deleted.              *)

LEMMA ModeStep == TypeInv /\ ModeInv /\ [Next]_vars => ModeInv'
<1> SUFFICES ASSUME TypeInv, ModeInv, [Next]_vars PROVE ModeInv'
  OBVIOUS
<1>1. CASE UNCHANGED vars
  BY <1>1 DEF vars, localVars, ModeInv
<1>2. ASSUME NEW t \in Transactions, NEW l \in Ended, End(t, l)
      PROVE  ModeInv'
  BY <1>2, EndType, FirstLabels DEF ModeInv, ScriptPCs, Ended
<1>3. ASSUME NEW s \in Sessions, NEW l, Goto(s, l), UNCHANGED <<mode, deleted, locked>>
      PROVE  ModeInv'
  <2>1. \A p \in Scripts : pc'[p] = pc[p]
    BY <1>3, TransactionsAssumption DEF Goto, TypeInv, TypeOK, Transactions
  <2> QED
    BY <1>3, <2>1 DEF ModeInv
<1>4. ASSUME NEW s \in Sessions, NEW i \in IPs, Ingest(s, i)
      PROVE  ModeInv'
  BY <1>3, <1>4 DEF Ingest, Begin
<1>5. ASSUME NEW s \in Sessions, IngestStep(s)
      PROVE  ModeInv'
  BY <1>2, <1>3, <1>5, FirstLabels
  DEF IngestStep, SelectIncident, FlushIncident, Commit, localVars, Ended
<1>6. ASSUME NEW p \in Scripts, NEW m \in Modes, Run(p, m)
      PROVE  ModeInv'
  <2>1. /\ \A q \in Scripts \ {p} : pc'[q] = pc[q] /\ mode'[q] = mode[q]
        /\ mode'[p] = m /\ pc[p] = "idle" /\ pc'[p] = FirstStatement(m)
        /\ deleted' = deleted /\ locked' = locked
    BY <1>6, FirstLabels DEF Run, Begin, Goto, TypeInv, TypeOK
  <2>2. /\ FirstStatement(m) \in {"check", "insert", "delete_attacks"}
        /\ FirstStatement(m) = "delete_attacks" => m = "reset"
        /\ FirstStatement(m) = "check" => m = "if_empty"
    BY DEF FirstStatement, Modes
  <2>3. deleted'[p].incidents = {}
    BY <2>1 DEF ModeInv, Nothing
  <2> QED
    BY <2>1, <2>2, <2>3 DEF ModeInv
<1>7. ASSUME NEW p \in Scripts, ScriptStep(p)
      PROVE  ModeInv'
  <2>1. CASE CheckEmpty(p) \/ DeleteReturns(p)
    <3>1. /\ \A q \in Scripts \ {p} : pc'[q] = pc[q]
          /\ UNCHANGED <<mode, deleted, locked>>
      BY <2>1, FirstLabels DEF CheckEmpty, DeleteReturns, Goto, localVars, TypeInv, TypeOK
    <3>2. CASE DeleteReturns(p)
      <4>1. /\ pc[p] = "locking" /\ pc'[p] = "insert"
            /\ deleted[p].incidents \subseteq locked[p]
        BY <3>2, FirstLabels DEF DeleteReturns, Goto, TypeInv, TypeOK
      <4> QED
        BY <3>1, <4>1 DEF ModeInv, ScriptPCs
    <3>3. CASE CheckEmpty(p)
      <4>1. pc[p] = "check" /\ pc'[p] \in {"insert", "done"} /\ deleted[p] = Nothing
        BY <3>3, FirstLabels DEF CheckEmpty, Goto, TypeInv, TypeOK, ModeInv
      <4>2. deleted[p].incidents = {}
        BY <4>1 DEF Nothing
      <4> QED
        BY <3>1, <4>1, <4>2 DEF ModeInv
    <3> QED
      BY <2>1, <3>2, <3>3
  <2>4. CASE LockIncident(p)
    <3>1. /\ UNCHANGED <<pc, mode, deleted>> /\ pc[p] = "locking"
          /\ \A q \in Scripts \ {p} : locked'[q] = locked[q]
      BY <2>4 DEF LockIncident, TypeInv, TypeOK
    <3> QED
      BY <3>1 DEF ModeInv
  <2>2. CASE DeleteAttacks(p) \/ DeleteIncidents(p)
    <3>1. /\ \A q \in Scripts \ {p} : pc'[q] = pc[q] /\ deleted'[q] = deleted[q]
          /\ mode' = mode /\ locked' = locked /\ mode[p] = "reset"
      BY <2>2, FirstLabels
      DEF DeleteAttacks, DeleteIncidents, Goto, ModeInv, TypeInv, TypeOK
    <3>2. \/ pc'[p] = "delete_incidents" /\ deleted'[p].incidents = {}
          \/ pc'[p] = "locking"
      BY <2>2, FirstLabels
      DEF DeleteAttacks, DeleteIncidents, Goto, ModeInv, TypeInv, TypeOK
    <3> QED
      BY <3>1, <3>2 DEF ModeInv, ScriptPCs
  <2>3. CASE InsertDemo(p)
    BY <1>2, <2>3, FirstLabels DEF InsertDemo, Ended
  <2> QED
    BY <1>7, <2>1, <2>2, <2>3, <2>4 DEF ScriptStep
<1>8. ASSUME NEW t \in Transactions, Abort(t)
      PROVE  ModeInv'
  BY <1>2, <1>8 DEF Abort, Ended
<1> QED
  BY <1>1, <1>4, <1>5, <1>6, <1>7, <1>8 DEF Next

---------------------------------------------------------------------------
(* Row locks.                                                              *)

\* A transaction that ends without deleting what a session holds.
LEMMA HeldEnd ==
  ASSUME TypeInv, HeldInv, NEW t \in Transactions, NEW l \in Ended, End(t, l),
         \A n \in incidents \ incidents' : \E p \in Scripts : n \in locked[p]
  PROVE  HeldInv'
<1> SUFFICES ASSUME NEW s \in Sessions, pc'[s] = "commit", found'[s] # None
             PROVE  /\ found'[s] \in incidents'
                    /\ \A p \in Scripts : found'[s] \notin locked'[p]
  BY DEF HeldInv
<1>1. s # t /\ pc[s] = "commit" /\ found'[s] = found[s]
  BY EndType, FirstLabels DEF Ended
<1>2. found[s] \in incidents /\ \A p \in Scripts : found[s] \notin locked[p]
  BY <1>1 DEF HeldInv
<1>3. \A p \in Scripts : locked'[p] = locked[p] \/ locked'[p] = {}
  BY EndType, FirstLabels
<1> QED
  BY <1>1, <1>2, <1>3

LEMMA HeldStep == TypeInv /\ ModeInv /\ HeldInv /\ [Next]_vars => HeldInv'
<1> SUFFICES ASSUME TypeInv, ModeInv, HeldInv, [Next]_vars PROVE HeldInv'
  OBVIOUS
<1>1. CASE UNCHANGED vars
  BY <1>1 DEF vars, localVars, tables, HeldInv
<1>2. ASSUME NEW s \in Sessions, SelectIncident(s) \/ \E i \in IPs : Ingest(s, i)
      PROVE  HeldInv'
  <2>1. /\ pc'[s] # "commit" /\ locked' = locked /\ incidents' = incidents
        /\ \A t \in Transactions \ {s} : pc'[t] = pc[t]
        /\ \A u \in Sessions \ {s} : found'[u] = found[u]
    BY <1>2, FirstLabels DEF SelectIncident, Ingest, Begin, Goto, TypeInv, TypeOK, tables
  <2> QED
    BY <2>1, FirstLabels, TransactionsAssumption DEF HeldInv
<1>3. ASSUME NEW s \in Sessions, FlushIncident(s)
      PROVE  HeldInv'
  <2>1. CASE End(s, "stale")
    BY <1>3, <2>1, HeldEnd, FirstLabels DEF FlushIncident, Ended, tables
  <2>2. CASE /\ found[s] \in incidents \cup {None}
             /\ Goto(s, "commit") /\ UNCHANGED localVars
    <3>1. \A p \in Scripts : found[s] \notin locked[p]
      BY <1>3 DEF FlushIncident, Locked
    <3>2. \A t \in Transactions \ {s} : pc'[t] = pc[t]
      BY <2>2 DEF Goto, TypeInv, TypeOK
    <3>3. UNCHANGED <<found, locked, incidents>>
      BY <1>3, <2>2 DEF FlushIncident, localVars, tables
    <3> QED
      BY <2>2, <3>1, <3>2, <3>3, FirstLabels, TransactionsAssumption DEF HeldInv
  <2> QED
    BY <1>3, <2>1, <2>2 DEF FlushIncident
<1>4. ASSUME NEW s \in Sessions, Commit(s)
      PROVE  HeldInv'
  BY <1>4, HeldEnd, FirstLabels DEF Commit, Ended
<1>5. ASSUME NEW p \in Scripts,
             \/ CheckEmpty(p) \/ DeleteAttacks(p) \/ DeleteIncidents(p) \/ DeleteReturns(p)
             \/ \E m \in Modes : Run(p, m)
      PROVE  HeldInv'
  <2>1. UNCHANGED <<found, locked, incidents>>
    BY <1>5
    DEF CheckEmpty, DeleteAttacks, DeleteIncidents, DeleteReturns, Run, localVars, tables
  <2>2. \A t \in Transactions \ {p} : pc'[t] = pc[t]
    BY <1>5, FirstLabels
    DEF CheckEmpty, DeleteAttacks, DeleteIncidents, DeleteReturns, Run, Begin, Goto, TypeInv,
        TypeOK
  <2> QED
    BY <2>1, <2>2, FirstLabels, TransactionsAssumption DEF HeldInv
<1>6. ASSUME NEW p \in Scripts, LockIncident(p)
      PROVE  HeldInv'
  <2>1. UNCHANGED <<pc, found, incidents>>
    BY <1>6 DEF LockIncident, tables
  <2>2. PICK n : ~Locked(n) /\ locked' = [locked EXCEPT ![p] = @ \cup {n}]
    BY <1>6 DEF LockIncident
  <2>3. \A q \in Scripts : locked'[q] \subseteq locked[q] \cup {n}
    BY <2>2 DEF TypeInv, TypeOK
  <2>4. \A s \in Sessions : pc[s] = "commit" /\ found[s] # None => found[s] # n
    BY <2>2 DEF Locked
  <2> QED
    BY <2>1, <2>3, <2>4 DEF HeldInv
<1>7. ASSUME NEW p \in Scripts, InsertDemo(p)
      PROVE  HeldInv'
  <2>1. \A n \in incidents \ incidents' : n \in locked[p]
    BY <1>7 DEF InsertDemo, ModeInv
  <2> QED
    BY <1>7, <2>1, HeldEnd, FirstLabels DEF InsertDemo, Ended
<1>8. ASSUME NEW t \in Transactions, Abort(t)
      PROVE  HeldInv'
  BY <1>8, HeldEnd DEF Abort, Ended, tables
<1> QED
  BY <1>1, <1>2, <1>3, <1>4, <1>5, <1>6, <1>7, <1>8 DEF Next, IngestStep, ScriptStep

---------------------------------------------------------------------------
(* The tables.                                                             *)

\* The steps that write a table.
LEMMA TableSteps ==
  ASSUME [Next]_vars
  PROVE  \/ UNCHANGED tables
         \/ \E s \in Sessions : Commit(s)
         \/ \E p \in Scripts : InsertDemo(p)
BY DEF Next, IngestStep, ScriptStep, Ingest, SelectIncident, FlushIncident, Run, CheckEmpty,
       DeleteAttacks, DeleteIncidents, LockIncident, DeleteReturns, Abort, vars, tables

\* A row that appears is of a transaction that was open and has committed.
LEMMA RowsAppear ==
  ASSUME TypeInv, HeldInv, [Next]_vars,
         NEW r \in (DOMAIN attacks' \ DOMAIN attacks) \cup (incidents' \ incidents)
  PROVE  By(r) \in Transactions /\ pc[By(r)] \in Open /\ pc'[By(r)] = "done"
<1>1. ASSUME NEW s \in Sessions, Commit(s)
      PROVE  By(r) = s /\ pc[s] \in Open /\ pc'[s] = "done"
  <2>1. r = <<s, source[s]>>
    BY <1>1 DEF Commit, IncidentId, HeldInv
  <2>2. pc'[s] = "done"
    BY <1>1, EndType, FirstLabels DEF Commit, Ended
  <2> QED
    BY <1>1, <2>1, <2>2 DEF By, Commit, Open, SessionPCs
<1>2. ASSUME NEW p \in Scripts, InsertDemo(p)
      PROVE  By(r) = p /\ pc[p] \in Open /\ pc'[p] = "done"
  <2>1. r \in DemoRows(p)
    BY <1>2 DEF InsertDemo, Kept
  <2>2. pc'[p] = "done"
    BY <1>2, EndType, FirstLabels DEF InsertDemo, Ended
  <2> QED
    BY <1>2, <2>1, <2>2 DEF By, DemoRows, InsertDemo, Open, ScriptPCs
<1> QED
  BY <1>1, <1>2, TableSteps, FirstLabels DEF tables

\* An incident that disappears was deleted by a reset that was open.
LEMMA IncidentsVanish ==
  ASSUME ModeInv, [Next]_vars, NEW n \in incidents, n \notin incidents'
  PROVE  \E p \in Scripts : mode[p] = "reset" /\ pc[p] = "insert" /\ n \in deleted[p].incidents
<1>1. PICK p \in Scripts : InsertDemo(p)
  BY TableSteps DEF Commit, tables
<1>2. n \in deleted[p].incidents /\ pc[p] = "insert"
  BY <1>1 DEF InsertDemo
<1>3. deleted[p] # Nothing
  BY <1>2 DEF Nothing
<1> QED
  BY <1>2, <1>3 DEF ModeInv

---------------------------------------------------------------------------
(* Whom a reset harms.                                                     *)

\* What a step can do to a session, whoever takes it.
LEMMA SessionSteps ==
  ASSUME TypeInv, [Next]_vars, NEW s \in Sessions
  PROVE  \/ pc'[s] = pc[s] /\ found'[s] = found[s]
         \/ pc'[s] \in {"select", "commit", "done", "aborted"}
         \/ SelectIncident(s) /\ pc'[s] = "flush"
         \/ pc[s] = "flush" /\ found[s] \notin incidents \cup {None} /\ pc'[s] = "stale"
<1> DEFINE same == pc'[s] = pc[s] /\ found'[s] = found[s]
<1>1. CASE UNCHANGED vars
  BY <1>1 DEF vars, localVars
<1>2. ASSUME NEW t \in Transactions, NEW l \in Ended, End(t, l)
      PROVE  pc'[s] = l \/ same
  BY <1>2, EndType, FirstLabels
<1>3. ASSUME NEW p \in Scripts, ScriptStep(p) \/ \E m \in Modes : Run(p, m)
      PROVE  same \/ pc'[s] = "done"
  <2>1. CASE InsertDemo(p)
    BY <1>2, <2>1, FirstLabels DEF InsertDemo, Ended
  <2>2. CASE ~ InsertDemo(p)
    BY <1>3, <2>2, FirstLabels, TransactionsAssumption
    DEF ScriptStep, CheckEmpty, DeleteAttacks, DeleteIncidents, LockIncident, DeleteReturns, Run,
        Begin, Goto, localVars, TypeInv, TypeOK
  <2> QED
    BY <2>1, <2>2
<1>4. ASSUME NEW t \in Transactions, Abort(t)
      PROVE  same \/ pc'[s] = "aborted"
  BY <1>2, <1>4 DEF Abort, Ended
<1>5. ASSUME NEW t \in Sessions, t # s, IngestStep(t) \/ \E i \in IPs : Ingest(t, i)
      PROVE  same
  <2>1. CASE End(t, "stale") \/ End(t, "done")
    BY <1>5, <2>1, EndType, FirstLabels DEF Ended
  <2>2. CASE ~ (End(t, "stale") \/ End(t, "done"))
    BY <1>5, <2>2, FirstLabels
    DEF IngestStep, SelectIncident, FlushIncident, Commit, Ingest, Begin, Goto, localVars,
        TypeInv, TypeOK
  <2> QED
    BY <2>1, <2>2
<1>6. CASE \E i \in IPs : Ingest(s, i)
  BY <1>6, FirstLabels DEF Ingest, Begin, Goto, TypeInv, TypeOK
<1>7. CASE SelectIncident(s)
  BY <1>7, FirstLabels DEF SelectIncident, Goto, TypeInv, TypeOK
<1>8. CASE FlushIncident(s)
  <2>1. CASE End(s, "stale") /\ found[s] \notin incidents \cup {None}
    BY <1>8, <2>1, EndType, FirstLabels DEF FlushIncident, Ended
  <2>2. CASE Goto(s, "commit")
    BY <2>2, FirstLabels DEF Goto, TypeInv, TypeOK
  <2> QED
    BY <1>8, <2>1, <2>2 DEF FlushIncident
<1>9. CASE Commit(s)
  BY <1>9, EndType, FirstLabels DEF Commit, Ended
<1> HIDE DEF same
<1> QED
  BY <1>1, <1>3, <1>4, <1>5, <1>6, <1>7, <1>8, <1>9 DEF Next, IngestStep, same

\* A session fails only after its incident was deleted under it.
LEMMA StaleStep ==
  ASSUME TypeInv, ModeInv, MetInv, HarmInv, [Next]_vars, NEW s \in Sessions,
         \/ pc'[s] = "stale"
         \/ pc'[s] = "flush" /\ found'[s] \notin incidents' \cup {None}
  PROVE  ResetsMet(s)' # {}
<1> DEFINE lost == pc[s] = "flush" /\ found[s] \notin incidents \cup {None}
<1>1. ResetsMet(s) \subseteq ResetsMet(s)'
  BY ResetsMetGrow, FirstLabels
<1>2. CASE pc[s] = "stale" \/ lost
  BY <1>1, <1>2 DEF HarmInv, ResetHarmsOnlyOverlapping
<1>3. CASE pc[s] = "flush" /\ found[s] \in incidents /\ found[s] \notin incidents'
  <2>1. PICK p \in Scripts : mode[p] = "reset" /\ pc[p] = "insert"
    BY <1>3, IncidentsVanish
  <2>2. p # s /\ pc[p] \in Open /\ pc[s] \in Open
    BY <1>3, <2>1, TransactionsAssumption DEF Open, ScriptPCs, SessionPCs
  <2>3. p \in ResetsMet(s)
    BY <2>1, <2>2, FirstLabels DEF MetInv, ResetsMet
  <2> QED
    BY <1>1, <2>3
<1>4. ASSUME SelectIncident(s)
      PROVE  FALSE
  <2>1. pc'[s] = "flush" /\ incidents' = incidents
    BY <1>4, FirstLabels DEF SelectIncident, Goto, TypeInv, TypeOK, tables
  <2>2. PICK n \in incidents \cup {None} : found' = [found EXCEPT ![s] = n]
    BY <1>4 DEF SelectIncident
  <2>3. found'[s] = n
    BY <2>2 DEF TypeInv, TypeOK
  <2> QED
    BY <2>1, <2>2, <2>3
<1>5. \/ pc[s] = "stale" \/ lost
      \/ pc[s] = "flush" /\ found[s] \in incidents /\ found[s] \notin incidents'
  BY <1>4, SessionSteps
<1> QED
  BY <1>2, <1>3, <1>5

\* An attack loses its incident only to a reset that its transaction has met.
LEMMA OrphanStep ==
  ASSUME TypeInv, ModeInv, MetInv, HarmInv, WipeInv, [Next]_vars,
         NEW a \in DOMAIN attacks', attacks'[a] \notin incidents'
  PROVE  ResetsMet(By(a))' # {}
<1>1. ASSUME a \in DOMAIN attacks, ResetsMet(By(a)) # {}
      PROVE  ResetsMet(By(a))' # {}
  <2>1. By(a) \in Transactions
    BY <1>1 DEF TypeInv, TypeOK, Rows, By
  <2>2. ResetsMet(By(a)) \subseteq ResetsMet(By(a))'
    BY <2>1, ResetsMetGrow
  <2> QED
    BY <1>1, <2>2
<1>2. CASE a \in DOMAIN attacks /\ attacks[a] \notin incidents
  BY <1>1, <1>2 DEF HarmInv, ResetHarmsOnlyOverlapping
<1>3. CASE UNCHANGED tables
  BY <1>2, <1>3 DEF tables
<1>4. ASSUME NEW s \in Sessions, Commit(s)
      PROVE  a \in DOMAIN attacks /\ attacks[a] \notin incidents
  BY <1>4 DEF Commit
<1>5. ASSUME NEW p \in Scripts, InsertDemo(p),
             ~ (a \in DOMAIN attacks /\ attacks[a] \notin incidents)
      PROVE  ResetsMet(By(a))' # {}
  <2>1. a \notin DemoRows(p)
    BY <1>5 DEF InsertDemo
  <2>2. /\ a \in DOMAIN attacks \ deleted[p].attacks
        /\ attacks[a] \in deleted[p].incidents
    BY <1>5, <2>1 DEF InsertDemo, Kept
  <2>3. mode[p] = "reset" /\ pc[p] = "insert"
    BY <1>5, <2>2 DEF ModeInv, Nothing, InsertDemo
  <2>4. By(a) \in met[p] /\ By(a) \in Transactions
    BY <2>2, <2>3 DEF WipeInv, TypeInv, TypeOK, Rows, By
  <2>5. p \in ResetsMet(By(a))
    BY <2>3, <2>4, FirstLabels DEF MetInv, ResetsMet
  <2> QED
    BY <1>1, <2>2, <2>5
<1> QED
  BY <1>1, <1>2, <1>3, <1>4, <1>5, TableSteps

LEMMA HarmStep ==
  TypeInv /\ ModeInv /\ MetInv /\ HarmInv /\ WipeInv /\ [Next]_vars => HarmInv'
<1> SUFFICES ASSUME TypeInv, ModeInv, MetInv, HarmInv, WipeInv, [Next]_vars
             PROVE  HarmInv'
  OBVIOUS
<1>1. \A s \in Sessions : pc'[s] = "stale" => ResetsMet(s)' # {}
  BY StaleStep
<1>2. \A s \in Sessions :
        pc'[s] = "flush" /\ found'[s] \notin incidents' \cup {None} => ResetsMet(s)' # {}
  BY StaleStep
<1>3. \A a \in DOMAIN attacks' : attacks'[a] \notin incidents' => ResetsMet(By(a))' # {}
  BY OrphanStep
<1> QED
  BY <1>1, <1>2, <1>3 DEF HarmInv, ResetHarmsOnlyOverlapping

---------------------------------------------------------------------------
(* What seedings and resets leave in the tables.                           *)

\* What a script that stays open has met, and the rows that appear meanwhile.
LEMMA NewRowsMet ==
  ASSUME TypeInv, MetInv, HeldInv, [Next]_vars,
         NEW p \in Scripts, pc[p] \in Open, pc'[p] # "done",
         NEW r \in (DOMAIN attacks' \ DOMAIN attacks) \cup (incidents' \ incidents)
  PROVE  By(r) \in met[p]
<1>1. By(r) \in Transactions /\ pc[By(r)] \in Open /\ By(r) # p
  BY RowsAppear
<1> QED
  BY <1>1, FirstLabels DEF MetInv

LEMMA MetGrow ==
  ASSUME TypeInv, MetInv, [Next]_vars, NEW t \in Transactions, pc[t] # "idle"
  PROVE  met[t] \subseteq met'[t]
<1>1. ASSUME NEW u \in Transactions, NEW l \in Open, Begin(u, l)
      PROVE  met[t] \subseteq met'[t]
  <2>1. t # u /\ met'[t] = IF pc[t] \in Open THEN met[t] \cup {u} ELSE met[t]
    BY <1>1, BeginType
  <2> QED
    BY <2>1
<1>2. CASE Silent
  BY <1>2 DEF Silent
<1> QED
  BY <1>1, <1>2, SilentStep, FirstLabels DEF Ingest, Run

\* What a step can do to a script, whoever takes it.
LEMMA ScriptSteps ==
  ASSUME TypeInv, [Next]_vars, NEW p \in Scripts
  PROVE  \/ pc'[p] = pc[p] /\ mode'[p] = mode[p] /\ deleted'[p] = deleted[p]
         \/ \E m \in Modes : pc[p] = "idle" /\ pc'[p] = FirstStatement(m) /\ mode'[p] = m
         \/ CheckEmpty(p) \/ DeleteAttacks(p) \/ DeleteIncidents(p)
         \/ LockIncident(p) \/ DeleteReturns(p)
         \/ pc'[p] \in Ended
<1> DEFINE same == pc'[p] = pc[p] /\ mode'[p] = mode[p] /\ deleted'[p] = deleted[p]
<1>1. CASE UNCHANGED vars
  BY <1>1 DEF vars, localVars
<1>2. ASSUME NEW t \in Transactions, NEW l \in Ended, End(t, l)
      PROVE  pc'[p] = l \/ same
  BY <1>2, EndType, FirstLabels
<1>3. ASSUME NEW s \in Sessions, IngestStep(s) \/ \E i \in IPs : Ingest(s, i)
      PROVE  same
  <2>1. CASE End(s, "stale") \/ End(s, "done")
    BY <2>1, EndType, FirstLabels, TransactionsAssumption DEF Ended
  <2>2. CASE ~ (End(s, "stale") \/ End(s, "done"))
    BY <1>3, <2>2, FirstLabels, TransactionsAssumption
    DEF IngestStep, SelectIncident, FlushIncident, Commit, Ingest, Begin, Goto, localVars,
        TypeInv, TypeOK
  <2> QED
    BY <2>1, <2>2
<1>4. ASSUME NEW t \in Transactions, Abort(t)
      PROVE  same \/ pc'[p] \in Ended
  BY <1>2, <1>4 DEF Abort, Ended
<1>5. ASSUME NEW q \in Scripts, q # p, ScriptStep(q) \/ \E m \in Modes : Run(q, m)
      PROVE  same
  <2>1. CASE InsertDemo(q)
    BY <1>5, <2>1, EndType, FirstLabels DEF InsertDemo, Ended
  <2>2. CASE ~ InsertDemo(q)
    BY <1>5, <2>2, FirstLabels
    DEF ScriptStep, CheckEmpty, DeleteAttacks, DeleteIncidents, LockIncident, DeleteReturns, Run,
        Begin, Goto, localVars, TypeInv, TypeOK
  <2> QED
    BY <2>1, <2>2
<1>6. ASSUME NEW m \in Modes, Run(p, m)
      PROVE  pc[p] = "idle" /\ pc'[p] = FirstStatement(m) /\ mode'[p] = m
  BY <1>6, FirstLabels DEF Run, Begin, Goto, TypeInv, TypeOK
<1>7. CASE InsertDemo(p)
  BY <1>7, EndType, FirstLabels DEF InsertDemo, Ended
<1> HIDE DEF same
<1> QED
  BY <1>1, <1>3, <1>4, <1>5, <1>6, <1>7 DEF Next, ScriptStep, same

\* The labels of a script that has begun and not ended.
LEMMA ScriptOpen ==
  /\ ScriptPCs \subseteq Open
  /\ \A l \in Ended : l \notin ScriptPCs
BY DEF Open, ScriptPCs, Ended

LEMMA SeedStep ==
  TypeInv /\ ModeInv /\ MetInv /\ HeldInv /\ SeedsOnlyIntoEmpty /\ [Next]_vars
    => SeedsOnlyIntoEmpty'
<1> SUFFICES ASSUME TypeInv, ModeInv, MetInv, HeldInv, SeedsOnlyIntoEmpty, [Next]_vars,
                    NEW p \in Scripts, mode'[p] = "if_empty", pc'[p] = "insert",
                    NEW a \in DOMAIN attacks'
             PROVE  By(a) \in met'[p]
  BY DEF SeedsOnlyIntoEmpty
<1>1. CASE CheckEmpty(p)
  BY <1>1, FirstLabels DEF CheckEmpty, Goto, TypeInv, TypeOK, tables
<1>2. CASE pc[p] = "insert" /\ mode[p] = "if_empty"
  <2>1. pc[p] \in Open /\ pc[p] # "idle"
    BY <1>2, ScriptOpen DEF ScriptPCs
  <2>2. met[p] \subseteq met'[p]
    BY <2>1, MetGrow, FirstLabels
  <2>3. a \in DOMAIN attacks => By(a) \in met[p]
    BY <1>2 DEF SeedsOnlyIntoEmpty
  <2>4. a \notin DOMAIN attacks => By(a) \in met[p]
    BY <2>1, NewRowsMet
  <2> QED
    BY <2>2, <2>3, <2>4
<1>3. ~ \E m \in Modes : pc'[p] = FirstStatement(m) /\ mode'[p] = m
  BY DEF FirstStatement, Modes
<1>4. ~ (DeleteAttacks(p) \/ DeleteIncidents(p) \/ LockIncident(p) \/ DeleteReturns(p))
  BY FirstLabels
  DEF DeleteAttacks, DeleteIncidents, LockIncident, DeleteReturns, Goto, ModeInv, TypeInv, TypeOK, localVars
<1> QED
  BY <1>1, <1>2, <1>3, <1>4, ScriptSteps DEF Ended

LEMMA WipeStep ==
  TypeInv /\ ModeInv /\ MetInv /\ HeldInv /\ WipeInv /\ [Next]_vars => WipeInv'
<1> SUFFICES ASSUME TypeInv, ModeInv, MetInv, HeldInv, WipeInv, [Next]_vars,
                    NEW p \in Scripts, mode'[p] = "reset",
                    pc'[p] \in {"delete_incidents", "locking", "insert"}
             PROVE  /\ \A a \in DOMAIN attacks' \ deleted'[p].attacks : By(a) \in met'[p]
                    /\ pc'[p] \in {"locking", "insert"} =>
                         \A n \in incidents' \ deleted'[p].incidents : By(n) \in met'[p]
  BY DEF WipeInv
<1>1. CASE DeleteAttacks(p) \/ DeleteIncidents(p) \/ LockIncident(p) \/ DeleteReturns(p)
  <2>1. pc[p] # "idle" /\ mode[p] = "reset"
    BY <1>1 DEF DeleteAttacks, DeleteIncidents, LockIncident, DeleteReturns, ModeInv
  <2>2. met[p] = met'[p] /\ UNCHANGED <<attacks, incidents>>
    BY <1>1 DEF DeleteAttacks, DeleteIncidents, LockIncident, DeleteReturns, tables
  <2>3. CASE DeleteAttacks(p)
    BY <2>2, <2>3, FirstLabels DEF DeleteAttacks, Goto, TypeInv, TypeOK
  <2>4. CASE DeleteIncidents(p)
    BY <2>1, <2>2, <2>4, FirstLabels DEF DeleteIncidents, Goto, TypeInv, TypeOK, WipeInv
  <2>5. CASE LockIncident(p) \/ DeleteReturns(p)
    BY <2>1, <2>2, <2>5 DEF LockIncident, DeleteReturns, localVars, WipeInv
  <2> QED
    BY <1>1, <2>3, <2>4, <2>5
<1>2. CASE pc'[p] = pc[p] /\ mode'[p] = mode[p] /\ deleted'[p] = deleted[p]
  <2>1. pc[p] \in Open /\ pc[p] # "idle" /\ pc'[p] # "done"
    BY <1>2, ScriptOpen DEF ScriptPCs
  <2>2. met[p] \subseteq met'[p]
    BY <2>1, MetGrow, FirstLabels
  <2>3. \A r \in (DOMAIN attacks' \ DOMAIN attacks) \cup (incidents' \ incidents) :
          By(r) \in met[p]
    BY <2>1, NewRowsMet
  <2> QED
    BY <1>2, <2>2, <2>3 DEF WipeInv
<1>3. ~ \E m \in Modes : pc'[p] = FirstStatement(m) /\ mode'[p] = m
  BY DEF FirstStatement, Modes
<1>4. ~ CheckEmpty(p)
  BY DEF CheckEmpty, ModeInv, localVars
<1> QED
  BY <1>1, <1>2, <1>3, <1>4, ScriptSteps DEF Ended

\* Only InsertDemo commits a script that inserts.
LEMMA InsertsDemo ==
  ASSUME TypeInv, [Next]_vars, NEW p \in Scripts, pc[p] = "insert", pc'[p] = "done"
  PROVE  InsertDemo(p)
<1>1. ASSUME NEW t \in Transactions, NEW l \in Ended, End(t, l), pc'[p] # pc[p]
      PROVE  t = p
  BY <1>1, EndType, FirstLabels
<1>2. ~ \E s \in Sessions : IngestStep(s) \/ \E i \in IPs : Ingest(s, i)
  <2>1. ~ \E s \in Sessions : End(s, "stale") \/ End(s, "done")
    BY <1>1, FirstLabels, TransactionsAssumption DEF Ended
  <2> QED
    BY <2>1, FirstLabels, TransactionsAssumption
    DEF IngestStep, SelectIncident, FlushIncident, Commit, Ingest, Begin, Goto, TypeInv, TypeOK
<1>3. ~ \E t \in Transactions : Abort(t)
  BY <1>1, EndType, FirstLabels DEF Abort, Ended
<1>4. ASSUME NEW q \in Scripts, InsertDemo(q)
      PROVE  q = p
  BY <1>1, <1>4, FirstLabels DEF InsertDemo, Ended
<1>5. ~ \E q \in Scripts : \/ CheckEmpty(q) \/ DeleteAttacks(q) \/ DeleteIncidents(q)
                           \/ LockIncident(q) \/ DeleteReturns(q) \/ \E m \in Modes : Run(q, m)
  BY FirstLabels
  DEF CheckEmpty, DeleteAttacks, DeleteIncidents, LockIncident, DeleteReturns, Run, Begin,
      Goto, TypeInv, TypeOK
<1> QED
  BY <1>2, <1>3, <1>4, <1>5 DEF Next, ScriptStep, vars

---------------------------------------------------------------------------
LEMMA InitInv == Init => IInv
<1> SUFFICES ASSUME Init PROVE IInv
  OBVIOUS
<1>1. /\ \A t \in Transactions : pc[t] = "idle" /\ met[t] = {}
      /\ \A p \in Scripts : mode[p] = None /\ deleted[p] = Nothing
      /\ DOMAIN attacks = {}
  BY DEF Init
<1>2. ModeInv /\ MetInv /\ HeldInv /\ HarmInv /\ WipeInv /\ SeedsOnlyIntoEmpty
  BY <1>1, FirstLabels
  DEF ModeInv, MetInv, HeldInv, HarmInv, WipeInv, SeedsOnlyIntoEmpty,
      ResetHarmsOnlyOverlapping, Open, SessionPCs, ScriptPCs
<1> QED
  BY <1>2, InitType DEF IInv

LEMMA InvStep == IInv /\ [Next]_vars => IInv'
BY TypeStep, ModeStep, MetStep, HeldStep, HarmStep, WipeStep, SeedStep DEF IInv

\* The conjunction that the theorems below rest on.
THEOREM Inductive == Spec => []IInv
BY InitInv, InvStep, PTL DEF Spec

\* A session fails on a vanished incident, and an attack is without its
\* incident, only if a reset was open during the transaction.
THEOREM HarmOnlyOverlapping == Spec => []ResetHarmsOnlyOverlapping
<1>1. IInv => ResetHarmsOnlyOverlapping
  BY DEF IInv, HarmInv
<1> QED
  BY <1>1, Inductive, PTL

\* seed_if_empty adds nothing to attacks that were there before it ran.
THEOREM SeedsEmpty == Spec => []SeedsOnlyIntoEmpty
<1>1. IInv => SeedsOnlyIntoEmpty
  BY DEF IInv
<1> QED
  BY <1>1, Inductive, PTL

\* When a reset commits, everything older than it is gone.
THEOREM WipesOlder == Spec => ResetWipes
<1>1. ASSUME IInv, [Next]_vars, NEW p \in Scripts,
             mode[p] = "reset", pc[p] = "insert", pc'[p] = "done",
             NEW r \in DOMAIN attacks' \cup incidents'
      PROVE  By(r) \in met[p] \cup {p}
  <2>1. InsertDemo(p)
    BY <1>1, InsertsDemo DEF IInv
  <2>2. CASE r \in DemoRows(p)
    BY <2>2 DEF DemoRows, By
  <2>3. CASE r \notin DemoRows(p)
    BY <1>1, <2>1, <2>3 DEF InsertDemo, Kept, IInv, WipeInv
  <2> QED
    BY <2>2, <2>3
<1>2. IInv /\ [Next]_vars =>
        (\A p \in Scripts :
           (mode[p] = "reset" /\ pc[p] = "insert" /\ pc'[p] = "done") =>
             \A r \in DOMAIN attacks' \cup incidents' : By(r) \in met[p] \cup {p})
  BY <1>1
<1> QED
  BY <1>2, Inductive, PTL DEF Spec, ResetWipes
=============================================================================
