----------------------------- MODULE ReadsProofs -----------------------------
(***************************************************************************)
(* What the answers of the REST API owe to the order of their statements,  *)
(* and what a walk through the pages of a list can miss, for any attacks   *)
(* and whatever is committed between two statements.                       *)
(***************************************************************************)
EXTENDS Reads, FiniteSetTheorems, SequenceTheorems, WellFoundedInduction, TLAPS

\* The tables: an incident is named by its first attack and counts some of
\* the attacks linked to it.
TablesInv ==
  /\ stored \subseteq used /\ used \subseteq Attacks
  /\ DOMAIN incidents \subseteq stored
  /\ \A a \in stored : incident_of[a] \in DOMAIN incidents
  /\ \A n \in DOMAIN incidents :
       /\ incidents[n].counted \subseteq Related(n) /\ incidents[n].counted # {}
       /\ incidents[n].last_seen \in Nat

AllNames ==
  {"top_country", "total_attacks", "total_incidents", "active_incidents", "critical_incidents",
   "high_risk_incidents", "unique_ips", "by_level", "by_bucket", "row", "related_attacks",
   "count", "rows"}

Names(t) == {Statements(t)[i] : i \in 1..Len(Statements(t))}

\* The statements to come and the answers are those of the task.
ClientInv ==
  /\ \/ task \in Tasks
     \/ task = None /\ todo = <<>> /\ answers = <<>> /\ ids = {}
  /\ todo \in Seq(AllNames)
  /\ \A i \in 1..Len(todo) : todo[i] \in Names(task)
  /\ \A s \in DOMAIN answers : s = "id" \/ s \in Names(task)

\* Statement x is executed before statement y.
InOrder(x, y) ==
  /\ y \in DOMAIN answers => \A k \in 1..Len(todo) : todo[k] # x
  /\ \A i, j \in 1..Len(todo) : todo[i] = y /\ todo[j] = x => j < i

OrderInv ==
  /\ InOrder("top_country", "total_attacks")
  /\ InOrder("total_attacks", "total_incidents")
  /\ InOrder("total_attacks", "unique_ips")
  /\ InOrder("critical_incidents", "high_risk_incidents")
  /\ InOrder("by_level", "by_bucket")
  /\ InOrder("row", "related_attacks")

---------------------------------------------------------------------------
(* Statements and pages.                                                   *)

LEMMA StatementsType ==
  ASSUME NEW t \in Tasks
  PROVE  Statements(t) \in Seq(AllNames)
<1>1. CASE t = "overview"
  BY <1>1 DEF Statements, Lists, AllNames
<1>2. CASE t = "risk_distribution"
  BY <1>2 DEF Statements, Lists, AllNames
<1>3. CASE t \in {"incident", "report"}
  <2>1. Statements(t) = <<"row", "related_attacks">>
    BY <1>3 DEF Statements, Lists
  <2>2. <<"row", "related_attacks">> \in Seq(AllNames)
    BY DEF AllNames
  <2> QED
    BY ONLY <2>1, <2>2
<1>4. CASE t \in Lists
  <2>1. Statements(t) = <<"count", "rows">>
    BY <1>4 DEF Statements, Lists
  <2>2. <<"count", "rows">> \in Seq(AllNames)
    BY DEF AllNames
  <2> QED
    BY ONLY <2>1, <2>2
<1> QED
  BY <1>1, <1>2, <1>3, <1>4 DEF Tasks, Lists

LEMMA StatementsOrder ==
  ASSUME NEW t \in Tasks
  PROVE  \A i, j \in 1..Len(Statements(t)) :
           /\ Statements(t)[i] = "total_attacks" /\ Statements(t)[j] = "top_country" => j < i
           /\ Statements(t)[i] = "total_incidents" /\ Statements(t)[j] = "total_attacks" => j < i
           /\ Statements(t)[i] = "unique_ips" /\ Statements(t)[j] = "total_attacks" => j < i
           /\ Statements(t)[i] = "high_risk_incidents" /\ Statements(t)[j] = "critical_incidents"
                => j < i
           /\ Statements(t)[i] = "by_bucket" /\ Statements(t)[j] = "by_level" => j < i
           /\ Statements(t)[i] = "related_attacks" /\ Statements(t)[j] = "row" => j < i
BY DEF Tasks, Statements, Lists

LEMMA ListNames ==
  ASSUME NEW t \in Tasks
  PROVE  /\ "rows" \in Names(t) => t \in Lists
         /\ t \in Lists => Names(t) = {"count", "rows"}
         /\ t \notin {"incident", "report"} => "row" \notin Names(t) /\ "related_attacks" \notin Names(t)
         /\ "id" \notin Names(t)
BY DEF Tasks, Statements, Lists, Names

\* The rows of a page are rows of the table.
LEMMA PagesRows ==
  ASSUME NEW rows, NEW sort, NEW order, NEW offset, NEW limit,
         NEW B \in Pages(rows, sort, order, offset, limit)
  PROVE  B \subseteq rows
BY DEF Pages, FirstRows

\* The largest of a set of scores.
LEMMA LargestScore ==
  ASSUME NEW T \in SUBSET (0..100), T # {}
  PROVE  Max(T) \in T /\ \A k \in T : Max(T) >= k
<1> DEFINE R == {100 - x : x \in T}
<1>1. R \in SUBSET Nat /\ R # {}
  <2>1. \A x \in T : x \in 0..100 /\ 100 - x \in Nat
    OBVIOUS
  <2> QED
    BY <2>1
<1>2. PICK m \in R : \A k \in R : ~(<<k, m>> \in OpToRel(<, Nat))
  BY <1>1, NatLessThanWellFounded, WFMin
<1>3. PICK x \in T : m = 100 - x
  OBVIOUS
<1>4. ASSUME NEW k \in T
      PROVE  x >= k
  <2>1. 100 - k \in R /\ 100 - k \in Nat /\ m \in Nat
    BY <1>1
  <2>2. ~(100 - k < m)
    BY <1>2, <2>1 DEF OpToRel
  <2>3. x \in 0..100 /\ k \in 0..100
    OBVIOUS
  <2> QED
    BY ONLY <1>3, <2>1, <2>2, <2>3
<1>5. \E y \in T : \A k \in T : y >= k
  BY <1>4
<1> QED
  BY <1>5 DEF Max

---------------------------------------------------------------------------
(* What a step can do.                                                     *)

Walks == [sort     : {None, "timestamp", "risk_score", "last_seen", "max_risk_score"},
          order    : {None, "asc", "desc"},
          per_page : Nat,
          page     : Nat \ {0},
          before   : SUBSET Attacks,
          seen     : SUBSET Attacks]

\* A walk at its beginning.
Starts(list, w) ==
  /\ w.sort \in Sorts(list) /\ w.order \in {"asc", "desc"} /\ w.per_page \in Nat \ {0}
  /\ w.page = 1 /\ w.before = Rows(list) /\ w.seen = {}

\* A new task.
Begins ==
  \E t \in Tasks, w \in Walks, n \in SUBSET DOMAIN incidents :
    /\ Begin(t, w, n)
    /\ t \in {"incident", "report"} => n # {}
    /\ t \in Lists => n = {} /\ Starts(t, w)

Commits ==
  \/ \E a \in Attacks : Store(a)
  \/ \E D \in SUBSET Attacks : D # {} /\ Wipe(D)

LEMMA NextCases ==
  ASSUME TablesInv, [Next]_vars
  PROVE  \/ Commits
         \/ Begins
         \/ \E n \in ids : LookUp(n)
         \/ Execute
         \/ FetchPage
         \/ UNCHANGED vars
<1>1. NoWalk \in Walks
  BY DEF NoWalk, Walks
<1>2. CASE AskNumbers
  <2>1. PICK t \in {"overview", "risk_distribution"} : Begin(t, NoWalk, {})
    BY <1>2 DEF AskNumbers
  <2> QED
    BY <1>1, <2>1 DEF Begins, Tasks, Lists
<1>3. CASE AskList
  <2>0. PICK list \in Lists, order \in {"asc", "desc"}, per_page \in PerPages :
          \E sort \in Sorts(list) :
            Begin(list, [sort |-> sort, order |-> order, per_page |-> per_page, page |-> 1,
                         before |-> Rows(list), seen |-> {}], {})
    BY <1>3 DEF AskList
  <2>1. PICK sort \in Sorts(list) :
          Begin(list, [sort |-> sort, order |-> order, per_page |-> per_page, page |-> 1,
                       before |-> Rows(list), seen |-> {}], {})
    BY <2>0
  <2>2. per_page \in Nat \ {0} /\ Rows(list) \subseteq Attacks
    BY LimitsAssumption DEF LimitsAssumption, Rows, TablesInv
  <2> DEFINE w == [sort |-> sort, order |-> order, per_page |-> per_page, page |-> 1,
                   before |-> Rows(list), seen |-> {}]
  <2>3. w \in Walks
    BY <2>2 DEF Walks, Sorts
  <2>4. Starts(list, w)
    BY <2>2 DEF Starts
  <2>5. list \in Tasks /\ list \notin {"incident", "report"}
    BY DEF Tasks, Lists
  <2> HIDE DEF w
  <2>6. Begin(list, w, {})
    BY <2>1 DEF w
  <2> QED
    BY <2>3, <2>4, <2>5, <2>6 DEF Begins
<1>4. CASE AskIncident
  <2>1. PICK n \in DOMAIN incidents : Begin("incident", NoWalk, {n})
    BY <1>4 DEF AskIncident
  <2> QED
    BY <1>1, <2>1 DEF Begins, Tasks, Lists
<1>5. CASE AskReport
  <2>1. PICK n \in Pages(DOMAIN incidents, "max_risk_score", "desc", 0, ReportLimit) \ {{}} :
          Begin("report", NoWalk, n)
    BY <1>5 DEF AskReport
  <2>2. n \in SUBSET DOMAIN incidents /\ n # {}
    BY <2>1, PagesRows
  <2> QED
    BY <1>1, <2>1, <2>2 DEF Begins, Tasks, Lists
<1> QED
  BY <1>2, <1>3, <1>4, <1>5 DEF Next, Commits

\* A commit leaves the client alone; the observer is told of it only while
\* the client is reading.
LEMMA CommitClient ==
  ASSUME Commits
  PROVE  UNCHANGED client /\ Reading' = Reading /\ (~Reading => during' = during)
BY DEF Commits, Store, Wipe, OpensIncident, JoinsIncident, Observe, client, Reading

LEMMA ExecuteEffect ==
  ASSUME ClientInv, Execute
  PROVE  /\ todo # <<>> /\ Head(todo) = todo[1] /\ 1 \in 1..Len(todo)
         /\ Head(todo) \in Names(task) /\ task \in Tasks
         /\ DOMAIN answers' = DOMAIN answers \cup {Head(todo)}
         /\ answers'[Head(todo)] = Result(Head(todo))
         /\ \A s \in DOMAIN answers : s # Head(todo) => answers'[s] = answers[s]
         /\ todo' \in {Tail(todo), <<>>} /\ ids' \in {ids, {}}
         /\ task' = task
<1>1. todo # <<>> /\ todo \in Seq(AllNames)
  BY DEF Execute, ClientInv
<1>2. Len(todo) >= 1 /\ Head(todo) = todo[1] /\ 1 \in 1..Len(todo)
  BY <1>1, EmptySeq
<1>3. Head(todo) \in Names(task) /\ task \in Tasks
  BY <1>1, <1>2 DEF ClientInv
<1>4. answers' = [s \in DOMAIN answers \cup {Head(todo)} |->
                    IF s = Head(todo) THEN Result(Head(todo)) ELSE answers[s]]
  BY DEF Execute
<1>5. /\ DOMAIN answers' = DOMAIN answers \cup {Head(todo)}
      /\ answers'[Head(todo)] = Result(Head(todo))
      /\ \A s \in DOMAIN answers : s # Head(todo) => answers'[s] = answers[s]
  BY ONLY <1>4
<1>6. todo' \in {Tail(todo), <<>>} /\ ids' \in {ids, {}} /\ task' = task
  BY DEF Execute
<1> QED
  BY <1>1, <1>2, <1>3, <1>5, <1>6

LEMMA TablesStep ==
  ASSUME TablesInv, [Next]_vars
  PROVE  TablesInv'
<1>1. ASSUME UNCHANGED tables
      PROVE  TablesInv'
  BY <1>1 DEF TablesInv, tables, Related, stored
<1>2. ASSUME NEW a \in Attacks, Store(a)
      PROVE  TablesInv'
  <2>1. a \notin stored /\ a \notin DOMAIN incidents /\ used' = used \cup {a}
    BY <1>2 DEF Store, TablesInv
  <2>2. Time[a] \in Nat
    BY ColumnsAssumption DEF ColumnsAssumption
  <2>3. CASE OpensIncident(a)
    <3>1. /\ stored' = stored \cup {a} /\ incident_of'[a] = a
          /\ \A b \in stored : incident_of'[b] = incident_of[b]
      BY <2>1, <2>3 DEF OpensIncident, stored
    <3>2. /\ DOMAIN incidents' = DOMAIN incidents \cup {a}
          /\ incidents'[a] = [counted |-> {a}, last_seen |-> Time[a]]
          /\ \A n \in DOMAIN incidents : incidents'[n] = incidents[n]
      BY <2>1, <2>3 DEF OpensIncident
    <3>3. \A n : Related(n) \subseteq Related(n)'
      BY <3>1 DEF Related
    <3>4. a \in Related(a)'
      BY <3>1 DEF Related
    <3>5. incidents'[a].counted = {a} /\ incidents'[a].last_seen = Time[a]
      BY <3>2
    <3> QED
      BY <2>1, <2>2, <3>1, <3>2, <3>3, <3>4, <3>5 DEF TablesInv
  <2>4. ASSUME NEW n \in DOMAIN incidents, NEW dropped, JoinsIncident(a, n, dropped)
        PROVE  TablesInv'
    <3>1. /\ stored' = stored \cup {a} /\ incident_of'[a] = n
          /\ \A b \in stored : incident_of'[b] = incident_of[b]
      BY <2>1, <2>4 DEF JoinsIncident, stored
    <3>2. /\ DOMAIN incidents' = DOMAIN incidents
          /\ incidents'[n] = [counted |-> (incidents[n].counted \ dropped) \cup {a},
                              last_seen |-> Time[a]]
          /\ \A m \in DOMAIN incidents : m # n => incidents'[m] = incidents[m]
      BY <2>4 DEF JoinsIncident
    <3>3. \A m : Related(m) \subseteq Related(m)'
      BY <3>1 DEF Related
    <3>4. a \in Related(n)'
      BY <3>1 DEF Related
    <3>5. /\ incidents'[n].counted = (incidents[n].counted \ dropped) \cup {a}
          /\ incidents'[n].last_seen = Time[a]
      BY <3>2
    <3>6. incidents'[n].counted \subseteq Related(n)' /\ incidents'[n].counted # {}
      BY <3>3, <3>4, <3>5 DEF TablesInv
    <3> QED
      BY <2>1, <2>2, <3>1, <3>2, <3>3, <3>5, <3>6 DEF TablesInv
  <2> QED
    BY <1>2, <2>3, <2>4 DEF Store
<1>3. ASSUME NEW D \in SUBSET Attacks, Wipe(D)
      PROVE  TablesInv'
  <2>1. /\ used' = used \cup D
        /\ incident_of' = [a \in D |-> a]
        /\ incidents' = [n \in D |-> [counted |-> {n}, last_seen |-> Time[n]]]
    BY <1>3 DEF Wipe
  <2>2. /\ stored' = D /\ \A a \in D : incident_of'[a] = a
        /\ DOMAIN incidents' = D
        /\ \A n \in D : incidents'[n].counted = {n} /\ incidents'[n].last_seen = Time[n]
    BY <2>1 DEF stored
  <2>3. \A n \in D : Time[n] \in Nat
    BY ColumnsAssumption DEF ColumnsAssumption
  <2>4. \A n \in D : n \in Related(n)'
    BY <2>2 DEF Related
  <2> QED
    BY <2>1, <2>2, <2>3, <2>4 DEF TablesInv
<1>4. Begins \/ (\E n \in ids : LookUp(n)) \/ Execute \/ FetchPage \/ UNCHANGED vars => UNCHANGED tables
  BY DEF Begins, Begin, LookUp, Execute, FetchPage, vars
<1> QED
  BY <1>1, <1>2, <1>3, <1>4, NextCases DEF Commits

LEMMA ClientStep ==
  ASSUME TablesInv, ClientInv, [Next]_vars
  PROVE  ClientInv'
<1>1. CASE UNCHANGED client
  BY <1>1 DEF ClientInv, client, Names
<1>2. CASE Begins
  <2>1. PICK t \in Tasks : /\ task' = t /\ todo' \in {Statements(t), <<>>} /\ answers' = <<>>
    BY <1>2 DEF Begins, Begin
  <2>2. Names(task)' = Names(t) /\ DOMAIN answers' = {}
    BY <2>1 DEF Names
  <2>3. CASE todo' = <<>>
    BY <2>1, <2>2, <2>3, EmptySeq DEF ClientInv
  <2>4. CASE todo' = Statements(t)
    <3>1. todo' \in Seq(AllNames)
      BY <2>4, StatementsType
    <3>2. \A i \in 1..Len(todo') : todo'[i] \in Names(t)
      BY <2>4 DEF Names
    <3> QED
      BY <2>1, <2>2, <3>1, <3>2 DEF ClientInv
  <2> QED
    BY <2>1, <2>3, <2>4
<1>3. ASSUME task \in Tasks, task' = task, todo' \in {Statements(task), <<>>},
             \A s \in DOMAIN answers' : s = "id" \/ s \in Names(task)
      PROVE  ClientInv'
  <2>1. Names(task)' = Names(task)
    BY <1>3 DEF Names
  <2>2. CASE todo' = <<>>
    BY <1>3, <2>1, <2>2, EmptySeq DEF ClientInv
  <2>3. CASE todo' = Statements(task)
    <3>1. todo' \in Seq(AllNames)
      BY <1>3, <2>3, StatementsType
    <3>2. \A i \in 1..Len(todo') : todo'[i] \in Names(task)
      BY <2>3 DEF Names
    <3> QED
      BY <1>3, <2>1, <3>1, <3>2 DEF ClientInv
  <2> QED
    BY <1>3, <2>2, <2>3
<1>4. ASSUME NEW n \in ids, LookUp(n)
      PROVE  ClientInv'
  <2>1. task \in Tasks /\ task' = task /\ todo' = Statements(task) /\ answers' = [id |-> n]
    BY <1>4 DEF ClientInv, LookUp
  <2>2. DOMAIN answers' = {"id"}
    BY <2>1
  <2> QED
    BY <1>3, <2>1, <2>2
<1>5. CASE FetchPage
  <2>1. todo = <<"rows">> /\ task' = task /\ answers' = answers /\ todo' \in {Statements(task), <<>>}
    BY <1>5 DEF FetchPage
  <2>2. task \in Tasks
    BY <2>1 DEF ClientInv
  <2> QED
    BY <1>3, <2>1, <2>2 DEF ClientInv
<1>6. CASE Execute
  <2>1. /\ todo # <<>> /\ task \in Tasks /\ task' = task /\ Head(todo) \in Names(task)
        /\ DOMAIN answers' = DOMAIN answers \cup {Head(todo)}
        /\ todo' \in {Tail(todo), <<>>}
    BY <1>6, ExecuteEffect
  <2>2. todo \in Seq(AllNames) /\ \A i \in 1..Len(todo) : todo[i] \in Names(task)
    BY DEF ClientInv
  <2>3. /\ Tail(todo) \in Seq(AllNames) /\ Len(Tail(todo)) = Len(todo) - 1
        /\ \A i \in 1..Len(Tail(todo)) : Tail(todo)[i] = todo[i + 1]
    BY ONLY <2>1, <2>2, HeadTailProperties
  <2>4. \A i \in 1..Len(Tail(todo)) : Tail(todo)[i] \in Names(task)
    BY <2>2, <2>3
  <2>5. Names(task)' = Names(task)
    BY <2>1 DEF Names
  <2>6. todo' \in Seq(AllNames) /\ \A i \in 1..Len(todo') : todo'[i] \in Names(task)
    <3>1. CASE todo' = <<>>
      BY <3>1, EmptySeq
    <3>2. CASE todo' = Tail(todo)
      BY ONLY <2>3, <2>4, <3>2
    <3> QED
      BY <2>1, <3>1, <3>2
  <2> QED
    BY <2>1, <2>5, <2>6 DEF ClientInv
<1> QED
  BY <1>1, <1>2, <1>4, <1>5, <1>6, NextCases, CommitClient DEF vars

\* Statements stay in their order, and answers come in that order.
LEMMA InOrderStep ==
  ASSUME TablesInv, ClientInv, [Next]_vars, NEW x, NEW y, y \notin {"id", "count", "rows"},
         \A t \in Tasks : \A i, j \in 1..Len(Statements(t)) :
           Statements(t)[i] = y /\ Statements(t)[j] = x => j < i,
         InOrder(x, y)
  PROVE  InOrder(x, y)'
<1>1. CASE UNCHANGED client
  BY <1>1 DEF InOrder, client
<1>2. ASSUME NEW t \in Tasks, todo' \in {Statements(t), <<>>}, y \notin DOMAIN answers'
      PROVE  InOrder(x, y)'
  BY <1>2 DEF InOrder
<1>3. CASE Begins
  <2>1. PICK t \in Tasks : todo' \in {Statements(t), <<>>} /\ answers' = <<>>
    BY <1>3 DEF Begins, Begin
  <2>2. DOMAIN answers' = {}
    BY <2>1
  <2> QED
    BY <1>2, <2>1, <2>2
<1>4. ASSUME NEW n \in ids, LookUp(n)
      PROVE  InOrder(x, y)'
  <2>1. task \in Tasks /\ todo' = Statements(task) /\ answers' = [id |-> n]
    BY <1>4 DEF ClientInv, LookUp
  <2>2. DOMAIN answers' = {"id"}
    BY <2>1
  <2> QED
    BY <1>2, <2>1, <2>2
<1>5. CASE FetchPage
  <2>1. todo = <<"rows">> /\ answers' = answers /\ todo' \in {Statements(task), <<>>}
    BY <1>5 DEF FetchPage
  <2>2. task \in Tasks /\ "rows" \in Names(task)
    BY <2>1 DEF ClientInv
  <2>3. Names(task) = {"count", "rows"}
    BY <2>2, ListNames
  <2> QED
    BY <1>2, <2>1, <2>2, <2>3 DEF ClientInv
<1>6. CASE Execute
  <2>1. /\ todo # <<>> /\ Head(todo) = todo[1] /\ 1 \in 1..Len(todo)
        /\ DOMAIN answers' = DOMAIN answers \cup {Head(todo)}
        /\ todo' \in {Tail(todo), <<>>}
    BY <1>6, ExecuteEffect
  <2>2. todo \in Seq(AllNames)
    BY DEF ClientInv
  <2>3. /\ Tail(todo) \in Seq(AllNames) /\ Len(Tail(todo)) = Len(todo) - 1
        /\ \A i \in 1..Len(Tail(todo)) : Tail(todo)[i] = todo[i + 1]
    BY ONLY <2>1, <2>2, HeadTailProperties
  <2>4. \A i \in 1..Len(Tail(todo)) : i + 1 \in 1..Len(todo) /\ i + 1 > 1
    BY <2>2, <2>3
  <2>5. /\ y \in DOMAIN answers => \A k \in 1..Len(todo) : todo[k] # x
        /\ \A i, j \in 1..Len(todo) : todo[i] = y /\ todo[j] = x => j < i
    BY DEF InOrder
  <2>6. CASE todo' = <<>>
    BY <2>6 DEF InOrder
  <2>7. CASE todo' = Tail(todo)
    <3>1. ASSUME y \in DOMAIN answers', NEW k \in 1..Len(todo')
          PROVE  todo'[k] # x
      BY <2>1, <2>3, <2>4, <2>5, <2>7, <3>1
    <3>2. ASSUME NEW i \in 1..Len(todo'), NEW j \in 1..Len(todo'), todo'[i] = y, todo'[j] = x
          PROVE  j < i
      <4>1. j + 1 < i + 1
        BY <2>3, <2>4, <2>5, <2>7, <3>2
      <4> QED
        BY <4>1
    <3> QED
      BY <3>1, <3>2 DEF InOrder
  <2> QED
    BY <2>1, <2>6, <2>7
<1> QED
  BY <1>1, <1>3, <1>4, <1>5, <1>6, NextCases, CommitClient DEF vars

LEMMA OrderStep ==
  ASSUME TablesInv, ClientInv, OrderInv, [Next]_vars
  PROVE  OrderInv'
<1>1. InOrder("top_country", "total_attacks")'
  BY StatementsOrder, InOrderStep DEF OrderInv
<1>2. InOrder("total_attacks", "total_incidents")'
  BY StatementsOrder, InOrderStep DEF OrderInv
<1>3. InOrder("total_attacks", "unique_ips")'
  BY StatementsOrder, InOrderStep DEF OrderInv
<1>4. InOrder("critical_incidents", "high_risk_incidents")'
  BY StatementsOrder, InOrderStep DEF OrderInv
<1>5. InOrder("by_level", "by_bucket")'
  BY StatementsOrder, InOrderStep DEF OrderInv
<1>6. InOrder("row", "related_attacks")'
  BY StatementsOrder, InOrderStep DEF OrderInv
<1> QED
  BY <1>1, <1>2, <1>3, <1>4, <1>5, <1>6 DEF OrderInv

---------------------------------------------------------------------------
(* Types.                                                                  *)

Counts == {"count", "total_attacks", "total_incidents", "active_incidents",
           "critical_incidents", "high_risk_incidents", "unique_ips"}

AnswersInv ==
  /\ "top_country" \in DOMAIN answers => answers["top_country"] \in BOOLEAN
  /\ \A s \in DOMAIN answers \cap Counts : answers[s] \in Nat
  /\ \A s \in DOMAIN answers \cap {"by_level", "by_bucket"} : answers[s] \in [Levels -> Nat]
  /\ "row" \in DOMAIN answers => answers["row"] \in (SUBSET Attacks) \cup {None}
  /\ "related_attacks" \in DOMAIN answers => answers["related_attacks"] \subseteq Attacks

WalkInv == walk \in Walks /\ ids \subseteq Attacks

DuringInv ==
  /\ DOMAIN during = {"moved", "late", "tied", "lost", "wiped"}
  /\ during.moved \in Nat /\ during.late \in Nat

TypeInv == TablesInv /\ ClientInv /\ AnswersInv /\ WalkInv /\ DuringInv

LEMMA Counting ==
  ASSUME TablesInv
  PROVE  /\ \A S \in SUBSET Attacks : IsFiniteSet(S) /\ Cardinality(S) \in Nat
         /\ IsFiniteSet({Source[a] : a \in stored})
         /\ Cardinality({Source[a] : a \in stored}) \in Nat
<1>1. ASSUME NEW S \in SUBSET Attacks
      PROVE  IsFiniteSet(S) /\ Cardinality(S) \in Nat
  BY AttacksAssumption, FS_Subset, FS_CardinalityType DEF AttacksAssumption
<1>2. IsFiniteSet(stored)
  BY <1>1 DEF TablesInv
<1>3. IsFiniteSet({Source[a] : a \in stored})
  <2> DEFINE f == [a \in stored |-> Source[a]]
             T == {Source[a] : a \in stored}
  <2>1. f \in Surjection(stored, T)
    BY DEF Surjection
  <2> QED
    BY <1>2, <2>1, FS_Surjection
<1> QED
  BY <1>1, <1>3, FS_CardinalityType

LEMMA ResultType ==
  ASSUME TablesInv
  PROVE  /\ Result("top_country") \in BOOLEAN
         /\ \A s \in Counts : Result(s) \in Nat
         /\ \A s \in {"by_level", "by_bucket"} : Result(s) \in [Levels -> Nat]
         /\ Result("row") \in (SUBSET Attacks) \cup {None}
         /\ Result("related_attacks") \subseteq Attacks
<1>1. Result("top_country") \in BOOLEAN
  BY DEF Result
<1>2. stored \subseteq Attacks /\ DOMAIN incidents \subseteq Attacks
  BY DEF TablesInv
<1>3. ASSUME NEW s \in Counts
      PROVE  Result(s) \in Nat
  <2>1. \A score : IncidentsAbove(score) \in Nat
    BY <1>2, Counting DEF IncidentsAbove
  <2>2. Cardinality(Rows(task)) \in Nat
    BY <1>2, Counting DEF Rows
  <2>3. CASE s = "count"
    BY <2>2, <2>3 DEF Result
  <2>4. CASE s \in {"critical_incidents", "high_risk_incidents"}
    BY <2>1, <2>4 DEF Result
  <2>5. CASE s = "total_attacks"
    BY <1>2, <2>5, Counting DEF Result
  <2>6. CASE s \in {"total_incidents", "active_incidents"}
    BY <1>2, <2>6, Counting DEF Result
  <2>7. CASE s = "unique_ips"
    BY <2>7, Counting DEF Result
  <2> QED
    BY <2>3, <2>4, <2>5, <2>6, <2>7 DEF Counts
<1>4. Result("by_level") \in [Levels -> Nat] /\ Result("by_bucket") \in [Levels -> Nat]
  <2>1. \A l \in Levels : /\ Cardinality({a \in stored : risk_level(a) = l}) \in Nat
                          /\ Cardinality({a \in stored : Score[a] \in Buckets[l]}) \in Nat
    BY <1>2, Counting
  <2>2. by_level \in [Levels -> Nat] /\ by_bucket \in [Levels -> Nat]
    BY <2>1 DEF by_level, by_bucket
  <2> QED
    BY <2>2 DEF Result
<1>5. \A n : Related(n) \subseteq Attacks
  BY <1>2 DEF Related
<1>6. Result("row") \in (SUBSET Attacks) \cup {None}
  BY <1>5 DEF Result, TablesInv
<1>7. Result("related_attacks") \subseteq Attacks
  BY <1>5 DEF Result
<1> QED
  BY <1>1, <1>3, <1>4, <1>6, <1>7

LEMMA AnswersStep ==
  ASSUME TablesInv, ClientInv, AnswersInv, [Next]_vars
  PROVE  AnswersInv'
<1>1. CASE answers' = answers
  BY <1>1 DEF AnswersInv
<1>2. ASSUME DOMAIN answers' \subseteq {"id"}
      PROVE  AnswersInv'
  BY <1>2 DEF AnswersInv, Counts
<1>3. CASE Begins
  <2>1. answers' = <<>>
    BY <1>3 DEF Begins, Begin
  <2>2. DOMAIN answers' = {}
    BY <2>1
  <2> QED
    BY <1>2, <2>2
<1>4. ASSUME NEW n \in ids, LookUp(n)
      PROVE  AnswersInv'
  <2>1. answers' = [id |-> n]
    BY <1>4 DEF LookUp
  <2>2. DOMAIN answers' = {"id"}
    BY <2>1
  <2> QED
    BY <1>2, <2>2
<1>5. CASE Execute
  <2> DEFINE h == Head(todo)
  <2>1. /\ DOMAIN answers' = DOMAIN answers \cup {h}
        /\ answers'[h] = Result(h)
        /\ \A s \in DOMAIN answers : s # h => answers'[s] = answers[s]
    BY <1>5, ExecuteEffect
  <2> HIDE DEF h
  <2>2. "top_country" \in DOMAIN answers' => answers'["top_country"] \in BOOLEAN
    BY <2>1, ResultType DEF AnswersInv
  <2>3. \A s \in DOMAIN answers' \cap Counts : answers'[s] \in Nat
    BY <2>1, ResultType DEF AnswersInv
  <2>4. \A s \in DOMAIN answers' \cap {"by_level", "by_bucket"} : answers'[s] \in [Levels -> Nat]
    BY <2>1, ResultType DEF AnswersInv
  <2>5. "row" \in DOMAIN answers' => answers'["row"] \in (SUBSET Attacks) \cup {None}
    BY <2>1, ResultType DEF AnswersInv
  <2>6. "related_attacks" \in DOMAIN answers' => answers'["related_attacks"] \subseteq Attacks
    BY <2>1, ResultType DEF AnswersInv
  <2> QED
    BY <2>2, <2>3, <2>4, <2>5, <2>6 DEF AnswersInv
<1>6. FetchPage \/ UNCHANGED vars => answers' = answers
  BY CommitClient DEF FetchPage, vars, client
<1> QED
  BY <1>1, <1>3, <1>4, <1>5, <1>6, NextCases, CommitClient DEF client

LEMMA WalkStep ==
  ASSUME TablesInv, WalkInv, [Next]_vars
  PROVE  WalkInv'
<1>1. CASE UNCHANGED client
  BY <1>1 DEF WalkInv, client
<1>2. CASE Begins
  <2>1. walk' \in Walks /\ ids' \subseteq DOMAIN incidents
    BY <1>2 DEF Begins, Begin
  <2> QED
    BY <2>1 DEF WalkInv, TablesInv
<1>3. ASSUME NEW n \in ids, LookUp(n)
      PROVE  WalkInv'
  BY <1>3 DEF WalkInv, LookUp
<1>4. CASE Execute
  BY <1>4 DEF WalkInv, Execute
<1>5. CASE FetchPage
  <2>1. PICK rows \in Pages(Rows(task), walk.sort, walk.order, Offset, walk.per_page) :
          walk' = [walk EXCEPT !.seen = @ \cup rows, !.page = IF HasNext THEN @ + 1 ELSE @]
    BY <1>5 DEF FetchPage
  <2>2. rows \subseteq Attacks
    BY PagesRows DEF Rows, TablesInv
  <2>3. walk.seen \cup rows \in SUBSET Attacks
    BY <2>2 DEF WalkInv, Walks
  <2>4. (IF HasNext THEN walk.page + 1 ELSE walk.page) \in Nat \ {0}
    BY DEF WalkInv, Walks
  <2>5. walk' = [walk EXCEPT !.seen = walk.seen \cup rows,
                             !.page = IF HasNext THEN walk.page + 1 ELSE walk.page]
    BY <2>1
  <2>6. walk' \in Walks
    BY <2>3, <2>4, <2>5 DEF WalkInv, Walks
  <2>7. ids' = ids
    BY <1>5 DEF FetchPage
  <2> QED
    BY <2>6, <2>7 DEF WalkInv
<1> QED
  BY <1>1, <1>2, <1>3, <1>4, <1>5, NextCases, CommitClient DEF vars

\* What a step can do to the observer.
LEMMA DuringStep ==
  ASSUME TablesInv, DuringInv, [Next]_vars
  PROVE  /\ DuringInv'
         /\ \/ Begins
            \/ (during.wiped => during'.wiped) /\ (during.lost => during'.lost)
<1> DEFINE Goal == /\ DuringInv'
                   /\ during.wiped => during'.wiped
                   /\ during.lost => during'.lost
<1>1. CASE during' = during
  BY <1>1 DEF DuringInv
<1>2. CASE Begins
  <2>1. during' = Quiet
    BY <1>2 DEF Begins, Begin
  <2>2. DuringInv'
    BY <2>1 DEF Quiet, DuringInv
  <2> QED
    BY <1>2, <2>2
<1>3. ASSUME NEW a \in Attacks, OpensIncident(a)
      PROVE  Goal
  <2>1. \/ during' = [during EXCEPT !.late = IF task \in Lists THEN @ + 1 ELSE @]
        \/ during' = during
    BY <1>3 DEF OpensIncident, Observe
  <2> QED
    BY <1>1, <2>1 DEF DuringInv
<1>4. ASSUME NEW a \in Attacks, NEW n, NEW dropped, JoinsIncident(a, n, dropped)
      PROVE  Goal
  <2>1. \/ during' = [during EXCEPT !.moved = IF task = "incidents" THEN @ + 1 ELSE @,
                                    !.late = IF task = "attacks" THEN @ + 1 ELSE @,
                                    !.lost = @ \/ dropped # {}]
        \/ during' = during
    BY <1>4 DEF JoinsIncident, Observe
  <2>2. ASSUME during' = [during EXCEPT !.moved = IF task = "incidents" THEN @ + 1 ELSE @,
                                        !.late = IF task = "attacks" THEN @ + 1 ELSE @,
                                        !.lost = @ \/ dropped # {}]
        PROVE  Goal
    <3>1. /\ DOMAIN during' = DOMAIN during
          /\ during'.moved = IF task = "incidents" THEN during.moved + 1 ELSE during.moved
          /\ during'.late = IF task = "attacks" THEN during.late + 1 ELSE during.late
          /\ during'.wiped = during.wiped
      BY ONLY <2>2, DuringInv DEF DuringInv
    <3>2. during.lost => during'.lost
      BY ONLY <2>2, DuringInv DEF DuringInv
    <3> QED
      BY <3>1, <3>2 DEF DuringInv
  <2> QED
    BY <1>1, <2>1, <2>2
<1>5. ASSUME NEW D, Wipe(D)
      PROVE  Goal
  BY <1>5 DEF Wipe, Observe, DuringInv
<1>6. CASE Execute
  BY <1>6 DEF Execute, DuringInv
<1>7. CASE FetchPage
  BY <1>7 DEF FetchPage, DuringInv
<1>8. ASSUME NEW n \in ids, LookUp(n)
      PROVE  during' = during
  BY <1>8 DEF LookUp
<1> QED
  BY <1>1, <1>2, <1>3, <1>4, <1>5, <1>6, <1>7, <1>8, NextCases DEF Commits, Store, vars

---------------------------------------------------------------------------
(* Answers and the tables they come from.                                  *)

ToCome(s) == \E k \in 1..Len(todo) : todo[k] = s

\* While the client reads, what it was told is still a lower bound of what the
\* tables hold, and what it will look up is there.
AgreeInv ==
  Reading /\ ~during.wiped =>
    /\ "top_country" \in DOMAIN answers /\ answers["top_country"] => stored # {}
    /\ "total_attacks" \in DOMAIN answers /\ answers["total_attacks"] > 0 => stored # {}
    /\ "critical_incidents" \in DOMAIN answers /\ ~during.lost =>
         answers["critical_incidents"] <= IncidentsAbove(70)
    /\ "by_level" \in DOMAIN answers =>
         \A l \in Levels : answers["by_level"][l] <= by_bucket[l]
    /\ "row" \in DOMAIN answers =>
         "id" \in DOMAIN answers /\ answers["row"] \subseteq Related(answers["id"])
    /\ ids \subseteq DOMAIN incidents
    /\ ToCome("row") \/ ToCome("related_attacks") =>
         "id" \in DOMAIN answers /\ answers["id"] \in DOMAIN incidents

LEMMA MaxMonotonic ==
  ASSUME NEW T \in SUBSET Attacks, NEW S \in SUBSET T, S # {}
  PROVE  Max({Score[a] : a \in S}) <= Max({Score[a] : a \in T})
<1> DEFINE P == {Score[a] : a \in S}
           Q == {Score[a] : a \in T}
<1>1. \A a \in T : Score[a] \in 0..100
  BY ColumnsAssumption DEF ColumnsAssumption
<1>2. P \in SUBSET (0..100) /\ Q \in SUBSET (0..100) /\ P # {} /\ Q # {} /\ P \subseteq Q
  BY <1>1
<1> HIDE DEF P, Q
<1>3. Max(P) \in P /\ \A k \in Q : Max(Q) >= k
  BY <1>2, LargestScore
<1>4. Max(Q) >= Max(P) /\ Max(Q) \in Q
  BY <1>2, <1>3, LargestScore
<1>5. Max(P) <= Max(Q)
  BY <1>2, <1>3, <1>4
<1> QED
  BY <1>5 DEF P, Q

LEMMA CardinalityMonotonic ==
  ASSUME NEW T \in SUBSET Attacks, NEW S \in SUBSET T
  PROVE  /\ Cardinality(S) \in Nat /\ Cardinality(T) \in Nat
         /\ Cardinality(S) <= Cardinality(T)
<1>1. IsFiniteSet(T) /\ IsFiniteSet(S)
  BY AttacksAssumption, FS_Subset DEF AttacksAssumption
<1> QED
  BY <1>1, FS_Subset, FS_CardinalityType

LEMMA MaxBounded ==
  ASSUME NEW S \in SUBSET Attacks, S # {}
  PROVE  Max({Score[a] : a \in S}) \in 0..100
<1> DEFINE P == {Score[a] : a \in S}
<1>1. P \in SUBSET (0..100) /\ P # {}
  BY ColumnsAssumption DEF ColumnsAssumption
<1> HIDE DEF P
<1>2. Max(P) \in 0..100
  BY <1>1, LargestScore
<1> QED
  BY <1>2 DEF P

LEMMA MaxScore ==
  ASSUME TablesInv, NEW n \in DOMAIN incidents
  PROVE  max_risk_score(n) \in 0..100
<1>1. incidents[n].counted \subseteq Attacks /\ incidents[n].counted # {}
  BY DEF TablesInv, Related
<1> QED
  BY <1>1, MaxBounded DEF max_risk_score

\* What a stored attack does to the tables: they grow, except for totals that
\* a lost update drops.
LEMMA StoreGrows ==
  ASSUME TablesInv, NEW a \in Attacks, Store(a)
  PROVE  /\ stored \subseteq stored' /\ \A n : Related(n) \subseteq Related(n)'
         /\ DOMAIN incidents \subseteq DOMAIN incidents'
         /\ Reading /\ ~during'.lost /\ DuringInv =>
              \A n \in DOMAIN incidents : incidents[n].counted \subseteq incidents'[n].counted
<1>1. a \notin stored /\ a \notin DOMAIN incidents
  BY DEF Store, TablesInv
<1>2. CASE OpensIncident(a)
  <2>1. /\ stored \subseteq stored' /\ DOMAIN incidents \subseteq DOMAIN incidents'
        /\ \A b \in stored : incident_of'[b] = incident_of[b]
        /\ \A n \in DOMAIN incidents : incidents'[n] = incidents[n]
    BY <1>1, <1>2 DEF OpensIncident, stored
  <2> QED
    BY <2>1 DEF Related
<1>3. ASSUME NEW n \in DOMAIN incidents, NEW dropped, JoinsIncident(a, n, dropped)
      PROVE  /\ stored \subseteq stored' /\ \A m : Related(m) \subseteq Related(m)'
             /\ DOMAIN incidents \subseteq DOMAIN incidents'
             /\ Reading /\ ~during'.lost /\ DuringInv =>
                  \A m \in DOMAIN incidents : incidents[m].counted \subseteq incidents'[m].counted
  <2>1. /\ stored \subseteq stored' /\ DOMAIN incidents' = DOMAIN incidents
        /\ \A b \in stored : incident_of'[b] = incident_of[b]
        /\ incidents'[n].counted = (incidents[n].counted \ dropped) \cup {a}
        /\ \A m \in DOMAIN incidents : m # n => incidents'[m] = incidents[m]
    BY <1>1, <1>3 DEF JoinsIncident, stored
  <2>2. \A m : Related(m) \subseteq Related(m)'
    BY <2>1 DEF Related
  <2>3. Reading /\ ~during'.lost /\ DuringInv => dropped = {}
    BY <1>3 DEF JoinsIncident, Observe, DuringInv
  <2> QED
    BY <2>1, <2>2, <2>3
<1> QED
  BY <1>2, <1>3 DEF Store

LEMMA AboveGrows ==
  ASSUME TablesInv, TablesInv', DOMAIN incidents \subseteq DOMAIN incidents',
         \A n \in DOMAIN incidents : incidents[n].counted \subseteq incidents'[n].counted
  PROVE  /\ IncidentsAbove(70) \in Nat /\ IncidentsAbove(70)' \in Nat
         /\ IncidentsAbove(70) <= IncidentsAbove(70)'
<1> DEFINE S == {n \in DOMAIN incidents : max_risk_score(n) > 70}
           T == {n \in DOMAIN incidents' : max_risk_score(n)' > 70}
<1>1. ASSUME NEW n \in DOMAIN incidents
      PROVE  max_risk_score(n) <= max_risk_score(n)'
  <2>1. /\ incidents[n].counted \subseteq incidents'[n].counted /\ incidents[n].counted # {}
        /\ incidents'[n].counted \subseteq Attacks
    BY <1>1 DEF TablesInv, Related
  <2>2. Max({Score[a] : a \in incidents[n].counted}) <= Max({Score[a] : a \in incidents'[n].counted})
    BY ONLY <2>1, MaxMonotonic
  <2> QED
    BY <2>2 DEF max_risk_score
<1>2. \A n \in DOMAIN incidents : max_risk_score(n) \in 0..100
  BY MaxScore
<1>3. ASSUME NEW n \in DOMAIN incidents'
      PROVE  max_risk_score(n)' \in 0..100
  <2>1. incidents'[n].counted \subseteq Attacks /\ incidents'[n].counted # {}
    BY DEF TablesInv, Related
  <2> QED
    BY <2>1, MaxBounded DEF max_risk_score
<1>4. S \subseteq T /\ T \subseteq Attacks
  <2>1. \A n \in DOMAIN incidents :
          /\ max_risk_score(n) \in Int /\ max_risk_score(n)' \in Int
          /\ max_risk_score(n) <= max_risk_score(n)'
    BY <1>1, <1>2, <1>3
  <2>2. \A n \in S : n \in T
    BY <2>1
  <2> QED
    BY <2>2 DEF TablesInv
<1>5. Cardinality(S) \in Nat /\ Cardinality(T) \in Nat /\ Cardinality(S) <= Cardinality(T)
  BY <1>4, CardinalityMonotonic
<1> QED
  BY <1>5 DEF IncidentsAbove

LEMMA BucketsGrow ==
  ASSUME TablesInv, TablesInv', stored \subseteq stored', NEW l \in Levels
  PROVE  by_bucket[l] \in Nat /\ by_bucket'[l] \in Nat /\ by_bucket[l] <= by_bucket'[l]
<1>1. /\ Cardinality({a \in stored : Score[a] \in Buckets[l]}) \in Nat
      /\ Cardinality({a \in stored' : Score[a] \in Buckets[l]}) \in Nat
      /\ Cardinality({a \in stored : Score[a] \in Buckets[l]})
           <= Cardinality({a \in stored' : Score[a] \in Buckets[l]})
  <2>1. /\ {a \in stored : Score[a] \in Buckets[l]} \subseteq {a \in stored' : Score[a] \in Buckets[l]}
        /\ {a \in stored' : Score[a] \in Buckets[l]} \subseteq Attacks
    BY DEF TablesInv
  <2> QED
    BY <2>1, CardinalityMonotonic
<1> QED
  BY <1>1 DEF by_bucket

\* A level is the part of the histogram of its scores.
LEMMA LevelsAreBuckets ==
  ASSUME TablesInv
  PROVE  by_level = by_bucket
<1>1. \A a \in stored : Score[a] \in 0..100
  BY ColumnsAssumption DEF ColumnsAssumption, TablesInv
<1>2. ASSUME NEW l \in Levels
      PROVE  {a \in stored : risk_level(a) = l} = {a \in stored : Score[a] \in Buckets[l]}
  <2>1. ASSUME NEW a \in stored
        PROVE  risk_level(a) = l <=> Score[a] \in Buckets[l]
    BY <1>1, <1>2 DEF risk_level, Buckets, Levels
  <2> QED
    BY <2>1
<1> QED
  BY <1>2 DEF by_level, by_bucket

\* More than 89 is more than 70.
LEMMA CriticalIsHigh ==
  ASSUME TablesInv
  PROVE  IncidentsAbove(89) <= IncidentsAbove(70)
<1> DEFINE S == {n \in DOMAIN incidents : max_risk_score(n) > 89}
           T == {n \in DOMAIN incidents : max_risk_score(n) > 70}
<1>1. \A n \in DOMAIN incidents : max_risk_score(n) \in 0..100
  BY MaxScore
<1>2. S \subseteq T
  BY <1>1
<1>3. T \subseteq Attacks
  BY DEF TablesInv
<1>4. IsFiniteSet(T)
  BY <1>3, AttacksAssumption, FS_Subset DEF AttacksAssumption
<1> HIDE DEF S, T
<1>5. Cardinality(S) <= Cardinality(T)
  BY <1>2, <1>4, FS_Subset
<1> QED
  BY <1>5 DEF IncidentsAbove, S, T

\* A stored attack makes nothing untrue that the client was told.
LEMMA AgreeStore ==
  ASSUME TablesInv, TablesInv', AnswersInv, DuringInv, AgreeInv, NEW a \in Attacks, Store(a)
  PROVE  AgreeInv'
<1>1. todo' = todo /\ answers' = answers /\ ids' = ids /\ Reading' = Reading
  BY CommitClient DEF Commits, client
<1>2. /\ stored \subseteq stored' /\ \A n : Related(n) \subseteq Related(n)'
      /\ DOMAIN incidents \subseteq DOMAIN incidents'
      /\ Reading /\ ~during'.lost =>
           \A n \in DOMAIN incidents : incidents[n].counted \subseteq incidents'[n].counted
  BY StoreGrows
<1>3. (during.wiped => during'.wiped) /\ (during.lost => during'.lost)
  <2>1. CASE OpensIncident(a)
    BY <2>1 DEF OpensIncident, Observe, DuringInv
  <2>2. ASSUME NEW n, NEW dropped, JoinsIncident(a, n, dropped)
        PROVE  (during.wiped => during'.wiped) /\ (during.lost => during'.lost)
    BY <2>2 DEF JoinsIncident, Observe, DuringInv
  <2> QED
    BY <2>1, <2>2 DEF Store
<1> SUFFICES ASSUME Reading, ~during.wiped
             PROVE  AgreeInv'
  BY <1>1, <1>3 DEF AgreeInv
<1>4. ASSUME "critical_incidents" \in DOMAIN answers, ~during'.lost
      PROVE  answers["critical_incidents"] <= IncidentsAbove(70)'
  <2>1. answers["critical_incidents"] \in Nat /\ answers["critical_incidents"] <= IncidentsAbove(70)
    BY <1>3, <1>4 DEF AgreeInv, AnswersInv, Counts
  <2>2. /\ IncidentsAbove(70) \in Nat /\ IncidentsAbove(70)' \in Nat
        /\ IncidentsAbove(70) <= IncidentsAbove(70)'
    BY <1>2, <1>4, AboveGrows
  <2> QED
    BY <2>1, <2>2
<1>5. ASSUME "by_level" \in DOMAIN answers, NEW l \in Levels
      PROVE  answers["by_level"][l] <= by_bucket'[l]
  <2>1. answers["by_level"][l] \in Nat /\ answers["by_level"][l] <= by_bucket[l]
    BY <1>5 DEF AgreeInv, AnswersInv
  <2>2. by_bucket[l] \in Nat /\ by_bucket'[l] \in Nat /\ by_bucket[l] <= by_bucket'[l]
    BY <1>2, BucketsGrow
  <2> QED
    BY <2>1, <2>2
<1>6. /\ "top_country" \in DOMAIN answers /\ answers["top_country"] => stored' # {}
      /\ "total_attacks" \in DOMAIN answers /\ answers["total_attacks"] > 0 => stored' # {}
  BY <1>2 DEF AgreeInv
<1>9. "row" \in DOMAIN answers =>
        "id" \in DOMAIN answers /\ answers["row"] \subseteq Related(answers["id"])'
  BY <1>1, <1>2 DEF AgreeInv
<1>7. /\ ids \subseteq DOMAIN incidents'
      /\ ToCome("row") \/ ToCome("related_attacks") =>
           "id" \in DOMAIN answers /\ answers["id"] \in DOMAIN incidents'
  BY <1>2 DEF AgreeInv
<1>8. \A s : ToCome(s)' <=> ToCome(s)
  BY <1>1 DEF ToCome
<1> QED
  BY <1>1, <1>4, <1>5, <1>6, <1>7, <1>8, <1>9 DEF AgreeInv

\* What a statement returns is true of the tables when it returns.
LEMMA AgreeExecute ==
  ASSUME TablesInv, ClientInv, DuringInv, AgreeInv, Execute
  PROVE  AgreeInv'
<1> DEFINE h == Head(todo)
<1>1. /\ todo # <<>> /\ h = todo[1] /\ 1 \in 1..Len(todo)
      /\ h \in Names(task) /\ task \in Tasks
      /\ DOMAIN answers' = DOMAIN answers \cup {h}
      /\ answers'[h] = Result(h)
      /\ \A s \in DOMAIN answers : s # h => answers'[s] = answers[s]
      /\ todo' \in {Tail(todo), <<>>} /\ ids' \in {ids, {}}
  BY ExecuteEffect
<1>2. h # "id"
  BY <1>1, ListNames
<1>3. UNCHANGED tables /\ during'.wiped = during.wiped /\ during'.lost = during.lost
  BY DEF Execute, DuringInv
<1>4. Reading
  BY <1>1 DEF Reading
<1>5. ToCome(h)
  BY <1>1 DEF ToCome
<1> HIDE DEF h
<1>6. /\ stored' = stored /\ DOMAIN incidents' = DOMAIN incidents /\ by_bucket' = by_bucket
      /\ IncidentsAbove(70)' = IncidentsAbove(70) /\ \A n : Related(n)' = Related(n)
  BY <1>3 DEF tables, stored, by_bucket, IncidentsAbove, max_risk_score, Related
<1> SUFFICES ASSUME ~during.wiped
             PROVE  AgreeInv'
  BY <1>3 DEF AgreeInv
<1>7. "top_country" \in DOMAIN answers' /\ answers'["top_country"] => stored # {}
  <2>1. Result("top_country") => stored # {}
    BY DEF Result
  <2> QED
    BY <1>1, <1>4, <2>1 DEF AgreeInv
<1>8. "total_attacks" \in DOMAIN answers' /\ answers'["total_attacks"] > 0 => stored # {}
  <2>1. Result("total_attacks") = Cardinality(stored)
    BY DEF Result
  <2>2. stored = {} => ~(Cardinality(stored) > 0)
    BY FS_EmptySet
  <2> QED
    BY <1>1, <1>4, <2>1, <2>2 DEF AgreeInv
<1>9. "critical_incidents" \in DOMAIN answers' /\ ~during.lost =>
        answers'["critical_incidents"] <= IncidentsAbove(70)
  <2>1. Result("critical_incidents") = IncidentsAbove(89)
    BY DEF Result
  <2> QED
    BY <1>1, <1>4, <2>1, CriticalIsHigh DEF AgreeInv
<1>10. "by_level" \in DOMAIN answers' =>
         \A l \in Levels : answers'["by_level"][l] <= by_bucket[l]
  <2>1. Result("by_level") = by_bucket
    BY LevelsAreBuckets DEF Result
  <2>2. \A l \in Levels : by_bucket[l] <= by_bucket[l]
    <3>1. \A l \in Levels : by_bucket[l] \in Nat
      BY CardinalityMonotonic DEF by_bucket, TablesInv
    <3> QED
      BY <3>1
  <2> QED
    BY <1>1, <1>4, <2>1, <2>2 DEF AgreeInv
<1>11. "id" \in DOMAIN answers => answers'["id"] = answers["id"]
  BY <1>1, <1>2
<1>12. h \in {"row", "related_attacks"} =>
         "id" \in DOMAIN answers /\ answers["id"] \in DOMAIN incidents
  BY <1>4, <1>5 DEF AgreeInv
<1>13. "row" \in DOMAIN answers' =>
         "id" \in DOMAIN answers' /\ answers'["row"] \subseteq Related(answers'["id"])
  <2>1. CASE h = "row"
    <3>1. answers["id"] \in DOMAIN incidents /\ answers'["id"] = answers["id"]
      BY <1>11, <1>12, <2>1
    <3>2. Result("row") = incidents[answers["id"]].counted
      BY <3>1 DEF Result
    <3> QED
      BY <1>1, <1>12, <2>1, <3>1, <3>2 DEF TablesInv
  <2>2. CASE h # "row"
    BY <1>1, <1>4, <1>11, <2>2 DEF AgreeInv
  <2> QED
    BY <2>1, <2>2
<1>14. ids' \subseteq DOMAIN incidents
  BY <1>1, <1>4 DEF AgreeInv
<1>15. \A s : ToCome(s)' => ToCome(s)
  <2>1. todo \in Seq(AllNames)
    BY DEF ClientInv
  <2>2. /\ Tail(todo) \in Seq(AllNames) /\ Len(Tail(todo)) = Len(todo) - 1
        /\ \A i \in 1..Len(Tail(todo)) : Tail(todo)[i] = todo[i + 1]
    BY ONLY <1>1, <2>1, HeadTailProperties
  <2>3. \A i \in 1..Len(Tail(todo)) : i + 1 \in 1..Len(todo)
    BY <2>1, <2>2
  <2>4. CASE todo' = <<>>
    BY <2>4 DEF ToCome
  <2>5. CASE todo' = Tail(todo)
    BY <2>2, <2>3, <2>5 DEF ToCome
  <2> QED
    BY <1>1, <2>4, <2>5
<1>16. (ToCome("row") \/ ToCome("related_attacks"))' =>
         "id" \in DOMAIN answers' /\ answers'["id"] \in DOMAIN incidents
  BY <1>1, <1>4, <1>11, <1>15 DEF AgreeInv
<1> QED
  BY <1>3, <1>6, <1>7, <1>8, <1>9, <1>10, <1>13, <1>14, <1>16 DEF AgreeInv

LEMMA AgreeStep ==
  ASSUME TablesInv, TablesInv', ClientInv, AnswersInv, DuringInv, AgreeInv, [Next]_vars
  PROVE  AgreeInv'
<1>1. ASSUME NEW D, Wipe(D)
      PROVE  AgreeInv'
  <2>1. Reading' = Reading
    BY <1>1 DEF Wipe, client, Reading
  <2>2. Reading => during'.wiped
    BY <1>1 DEF Wipe, Observe, DuringInv
  <2> QED
    BY <2>1, <2>2 DEF AgreeInv
<1>2. ASSUME UNCHANGED <<tables, todo, answers, ids, during>>
      PROVE  AgreeInv'
  BY <1>2 DEF AgreeInv, tables, stored, by_bucket, IncidentsAbove, max_risk_score, Related,
       Reading, ToCome
<1>3. CASE Begins
  <2>1. PICK t \in Tasks, n \in SUBSET DOMAIN incidents :
          /\ answers' = <<>> /\ ids' = n /\ UNCHANGED tables
          /\ todo' = IF n = {} THEN Statements(t) ELSE <<>>
          /\ t \in {"incident", "report"} => n # {}
    BY <1>3 DEF Begins, Begin
  <2>2. DOMAIN answers' = {} /\ DOMAIN incidents' = DOMAIN incidents
    BY <2>1 DEF tables
  <2>3. ~ToCome("row")' /\ ~ToCome("related_attacks")'
    <3>1. CASE n # {}
      BY <2>1, <3>1 DEF ToCome
    <3>2. CASE n = {}
      <4>1. "row" \notin Names(t) /\ "related_attacks" \notin Names(t)
        BY <2>1, <3>2, ListNames
      <4> QED
        BY <2>1, <3>2, <4>1 DEF ToCome, Names
    <3> QED
      BY <3>1, <3>2
  <2> QED
    BY <2>1, <2>2, <2>3 DEF AgreeInv
<1>4. ASSUME NEW n \in ids, LookUp(n)
      PROVE  AgreeInv'
  <2>1. /\ answers' = [id |-> n] /\ ids' \subseteq ids /\ UNCHANGED tables /\ during' = during
        /\ Reading
    BY <1>4 DEF LookUp, Reading
  <2>2. DOMAIN answers' = {"id"} /\ answers'["id"] = n /\ DOMAIN incidents' = DOMAIN incidents
    BY <2>1 DEF tables
  <2>3. ~during.wiped => ids \subseteq DOMAIN incidents
    BY <2>1 DEF AgreeInv
  <2> QED
    BY <2>1, <2>2, <2>3 DEF AgreeInv
<1>5. CASE FetchPage
  <2>1. /\ todo = <<"rows">> /\ answers' = answers /\ ids' = ids /\ UNCHANGED tables
        /\ todo' \in {Statements(task), <<>>} /\ during'.wiped = during.wiped
    BY <1>5 DEF FetchPage, DuringInv
  <2>2. task \in Tasks /\ "rows" \in Names(task) /\ Reading
    BY <2>1 DEF ClientInv, Reading
  <2>3. task \in Lists /\ Names(task) = {"count", "rows"}
    BY <2>2, ListNames
  <2>4. \A s \in DOMAIN answers' : s \in {"id", "count", "rows"}
    BY <2>1, <2>3 DEF ClientInv
  <2>5. ~ToCome("row")' /\ ~ToCome("related_attacks")'
    <3>1. \A k \in 1..Len(Statements(task)) : Statements(task)[k] \in {"count", "rows"}
      BY <2>3 DEF Names
    <3> QED
      BY <2>1, <3>1 DEF ToCome
  <2>6. ~during.wiped => ids' \subseteq DOMAIN incidents'
    BY <2>1, <2>2 DEF AgreeInv, tables
  <2> QED
    BY <2>1, <2>4, <2>5, <2>6 DEF AgreeInv
<1> QED
  BY <1>1, <1>2, <1>3, <1>4, <1>5, AgreeStore, AgreeExecute, NextCases DEF Commits, vars, client

---------------------------------------------------------------------------
(* The first rows of a table.                                              *)

\* The first n of the rows R, sorted by k.
Heads(R, k, n) ==
  {B \in SUBSET R : /\ Cardinality(B) = IF n <= Cardinality(R) THEN n ELSE Cardinality(R)
                    /\ \A b \in B, r \in R \ B : k[b] <= k[r]}

\* Among some subsets of a finite set one has none of the others in it.
LEMMA SmallestSet ==
  ASSUME NEW S, IsFiniteSet(S), NEW B, B \subseteq SUBSET S, B # {}
  PROVE  \E x \in B : \A y \in B : y \subseteq x => y = x
<1>1. B \subseteq FiniteSubsetsOf(S)
  BY FS_FiniteSubsetsOfFinite
<1>2. IsWellFoundedOn(StrictSubsetOrdering(S), FiniteSubsetsOf(S))
  BY FS_StrictSubsetOrderingWellFounded
<1>3. PICK x \in B : \A y \in B : ~ (<<y, x>> \in StrictSubsetOrdering(S))
  BY <1>1, <1>2, WFMin
<1>4. ASSUME NEW y \in B, y \subseteq x
      PROVE  y = x
  BY <1>3, <1>4 DEF StrictSubsetOrdering
<1> QED
  BY <1>3, <1>4

\* Some row of a finite table comes first.
LEMMA FirstRow ==
  ASSUME NEW R, IsFiniteSet(R), NEW k \in [R -> Int], NEW S \in SUBSET R, S # {}
  PROVE  \E m \in S : \A x \in S : k[m] <= k[x]
<1> DEFINE Good(T) == \E m \in T : \A x \in T : k[m] <= k[x]
           Bad == {T \in SUBSET S : T # {} /\ ~Good(T)}
<1>1. SUFFICES ASSUME Bad # {} PROVE FALSE
  <2>1. Bad = {} => Good(S)
    <3> HIDE DEF Good
    <3> QED
      OBVIOUS
  <2> QED
    BY <2>1
<1>2. PICK T \in Bad : \A y \in Bad : y \subseteq T => y = T
  <2>1. Bad \subseteq SUBSET S /\ IsFiniteSet(S)
    BY FS_Subset
  <2> HIDE DEF Bad
  <2> QED
    BY <1>1, <2>1, SmallestSet
<1>3. T \in SUBSET S /\ T # {} /\ ~Good(T)
  BY <1>2
<1>4. PICK t \in T : TRUE
  BY <1>3
<1>5. CASE T \ {t} = {}
  <2>1. \A x \in T : x = t
    BY <1>5
  <2>2. k[t] \in Int
    BY <1>3
  <2>3. Good(T)
    BY <2>1, <2>2
  <2> QED
    BY <1>3, <2>3
<1>6. CASE T \ {t} # {}
  <2>1. T \ {t} \in SUBSET S /\ T \ {t} # T /\ T \ {t} \subseteq T
    BY <1>3
  <2>2. T \ {t} \notin Bad
    BY <1>2, <2>1
  <2>3. Good(T \ {t})
    <3> HIDE DEF Good
    <3> QED
      BY <1>6, <2>1, <2>2
  <2>4. PICK m \in T \ {t} : \A x \in T \ {t} : k[m] <= k[x]
    BY <2>3
  <2>5. \A x \in T : k[x] \in Int
    BY <1>3
  <2>6. Good(T)
    <3>1. CASE k[m] <= k[t]
      <4>1. \A x \in T : k[m] <= k[x]
        BY <2>4, <3>1
      <4> QED
        BY <4>1
    <3>2. CASE ~(k[m] <= k[t])
      <4>1. \A x \in T : k[t] <= k[x]
        BY <2>4, <2>5, <3>2
      <4> QED
        BY <4>1
    <3> QED
      BY <3>1, <3>2
  <2> QED
    BY <1>3, <2>6
<1> QED
  BY <1>5, <1>6

\* ... and some row comes last.
LEMMA LastRow ==
  ASSUME NEW R, IsFiniteSet(R), NEW k \in [R -> Int], NEW S \in SUBSET R, S # {}
  PROVE  \E m \in S : \A x \in S : k[x] <= k[m]
<1> DEFINE j == [r \in R |-> 0 - k[r]]
<1>1. j \in [R -> Int]
  OBVIOUS
<1>2. \A r \in R : k[r] \in Int /\ j[r] = 0 - k[r]
  OBVIOUS
<1> HIDE DEF j
<1>3. PICK m \in S : \A x \in S : j[m] <= j[x]
  BY <1>1, FirstRow
<1>4. \A x \in S : k[x] <= k[m]
  BY <1>2, <1>3
<1> QED
  BY <1>4

\* What a first n of R is.
LEMMA HeadsFacts ==
  ASSUME NEW R, IsFiniteSet(R), NEW k \in [R -> Int], NEW n \in Nat, NEW B \in Heads(R, k, n)
  PROVE  /\ B \in SUBSET R /\ IsFiniteSet(B) /\ Cardinality(R) \in Nat
         /\ Cardinality(B) \in Nat
         /\ Cardinality(B) = IF n <= Cardinality(R) THEN n ELSE Cardinality(R)
         /\ \A b \in B, r \in R \ B : k[b] <= k[r]
<1>1. /\ B \in SUBSET R
      /\ Cardinality(B) = IF n <= Cardinality(R) THEN n ELSE Cardinality(R)
      /\ \A b \in B, r \in R \ B : k[b] <= k[r]
  BY DEF Heads
<1>2. IsFiniteSet(B)
  BY <1>1, FS_Subset
<1> QED
  BY <1>1, <1>2, FS_CardinalityType

\* Without ties there is one way to take the first rows.
LEMMA HeadsUnique ==
  ASSUME NEW R, IsFiniteSet(R), NEW k \in [R -> Int], NEW n \in Nat,
         \A r, q \in R : k[r] = k[q] => r = q,
         NEW B \in Heads(R, k, n), NEW C \in Heads(R, k, n)
  PROVE  C \subseteq B
<1>1. /\ B \in SUBSET R /\ IsFiniteSet(B) /\ Cardinality(B) = Cardinality(C)
      /\ C \in SUBSET R /\ IsFiniteSet(C)
      /\ \A b \in B, r \in R \ B : k[b] <= k[r]
      /\ \A c \in C, r \in R \ C : k[c] <= k[r]
  BY HeadsFacts
<1>2. SUFFICES ASSUME NEW c \in C \ B PROVE FALSE
  OBVIOUS
<1>3. CASE B \subseteq C
  BY <1>1, <1>2, <1>3, FS_Subset
<1>4. ASSUME NEW b \in B \ C
      PROVE  FALSE
  <2>1. k[c] <= k[b] /\ k[b] <= k[c]
    BY <1>1, <1>2, <1>4
  <2>2. k[c] \in Int /\ k[b] \in Int /\ b \in R /\ c \in R
    BY <1>1
  <2>3. k[c] = k[b]
    BY <2>1, <2>2
  <2> QED
    BY <1>4, <2>2, <2>3
<1> QED
  BY <1>3, <1>4

\* The first rows and the page after them are the first rows.
LEMMA HeadsPage ==
  ASSUME NEW R, IsFiniteSet(R), NEW k \in [R -> Int], NEW n \in Nat, NEW m \in Nat,
         NEW B \in Heads(R, k, n), NEW D \in Heads(R \ B, k, m)
  PROVE  B \cup D \in Heads(R, k, n + m)
<1>1. /\ B \in SUBSET R /\ IsFiniteSet(B) /\ Cardinality(R) \in Nat /\ Cardinality(B) \in Nat
      /\ Cardinality(B) = IF n <= Cardinality(R) THEN n ELSE Cardinality(R)
      /\ \A b \in B, r \in R \ B : k[b] <= k[r]
  BY HeadsFacts
<1>2. /\ D \in SUBSET (R \ B)
      /\ Cardinality(D) = IF m <= Cardinality(R \ B) THEN m ELSE Cardinality(R \ B)
      /\ \A b \in D, r \in (R \ B) \ D : k[b] <= k[r]
  BY DEF Heads
<1>3. /\ IsFiniteSet(R \ B) /\ IsFiniteSet(D)
      /\ Cardinality(R \ B) \in Nat /\ Cardinality(D) \in Nat
  <2>1. IsFiniteSet(R \ B) /\ IsFiniteSet(D)
    BY <1>2, FS_Subset
  <2> QED
    BY <2>1, FS_CardinalityType
<1>4. Cardinality(R) = Cardinality(B) + Cardinality(R \ B)
  <2>1. B \cup (R \ B) = R /\ B \cap (R \ B) = {}
    BY <1>1
  <2>2. Cardinality(B \cup (R \ B)) =
          Cardinality(B) + Cardinality(R \ B) - Cardinality(B \cap (R \ B))
    BY <1>1, <1>3, FS_Union
  <2>3. Cardinality({}) = 0
    BY FS_EmptySet
  <2> QED
    BY <1>1, <1>3, <2>1, <2>2, <2>3
<1>5. Cardinality(B \cup D) = Cardinality(B) + Cardinality(D)
  <2>1. B \cap D = {}
    BY <1>2
  <2>2. Cardinality(B \cup D) = Cardinality(B) + Cardinality(D) - Cardinality(B \cap D)
    BY <1>1, <1>3, FS_Union
  <2>3. Cardinality({}) = 0
    BY FS_EmptySet
  <2>4. Cardinality(B \cap D) = 0
    BY <2>1, <2>3
  <2> QED
    BY ONLY <1>1, <1>3, <2>2, <2>4
<1>6. Cardinality(B \cup D) = IF n + m <= Cardinality(R) THEN n + m ELSE Cardinality(R)
  <2>1. /\ Cardinality(R) \in Nat /\ Cardinality(B) \in Nat
        /\ Cardinality(R \ B) \in Nat /\ Cardinality(D) \in Nat
        /\ n \in Nat /\ m \in Nat
        /\ Cardinality(B) = IF n <= Cardinality(R) THEN n ELSE Cardinality(R)
        /\ Cardinality(D) = IF m <= Cardinality(R \ B) THEN m ELSE Cardinality(R \ B)
        /\ Cardinality(R) = Cardinality(B) + Cardinality(R \ B)
        /\ Cardinality(B \cup D) = Cardinality(B) + Cardinality(D)
    BY <1>1, <1>2, <1>3, <1>4, <1>5
  <2>2. ASSUME NEW r \in Nat, NEW b \in Nat, NEW s \in Nat, NEW d \in Nat,
               b = (IF n <= r THEN n ELSE r), d = (IF m <= s THEN m ELSE s), r = b + s
        PROVE  b + d = IF n + m <= r THEN n + m ELSE r
    BY <2>2
  <2> QED
    BY <2>1, <2>2
<1>7. ASSUME NEW b \in B \cup D, NEW r \in R \ (B \cup D)
      PROVE  k[b] <= k[r]
  BY <1>1, <1>2, <1>7
<1> QED
  BY <1>1, <1>2, <1>6, <1>7 DEF Heads

\* The first n of one row more: a first n of the others, but for that row.
LEMMA HeadsInsert ==
  ASSUME NEW R, IsFiniteSet(R), NEW a, a \notin R, NEW n \in Nat,
         NEW S, S = R \cup {a},
         NEW k \in [R -> Int], NEW j \in [S -> Int], \A r \in R : j[r] = k[r],
         NEW C \in Heads(S, j, n)
  PROVE  \E B \in Heads(R, k, n) : C \subseteq B \cup {a}
<1>1. IsFiniteSet(S) /\ Cardinality(S) = Cardinality(R) + 1
  BY FS_AddElement
<1>2. Cardinality(R) \in Nat
  BY FS_CardinalityType
<1>3. /\ C \in SUBSET S /\ IsFiniteSet(C) /\ Cardinality(C) \in Nat
      /\ Cardinality(C) = IF n <= Cardinality(R) + 1 THEN n ELSE Cardinality(R) + 1
      /\ \A b \in C, r \in S \ C : j[b] <= j[r]
  BY <1>1, HeadsFacts
<1>4. CASE a \notin C
  <2>1. C \in SUBSET R
    BY <1>3, <1>4
  <2>2. Cardinality(C) <= Cardinality(R)
    BY <2>1, FS_Subset
  <2>3. Cardinality(C) = IF n <= Cardinality(R) THEN n ELSE Cardinality(R)
    BY ONLY <1>2, <1>3, <2>2, n \in Nat
  <2>4. \A b \in C, r \in R \ C : k[b] <= k[r]
    BY <1>3, <2>1
  <2> QED
    BY <2>1, <2>3, <2>4 DEF Heads
<1>5. CASE a \in C
  <2> DEFINE Q == C \ {a}
  <2>1. Q \in SUBSET R /\ IsFiniteSet(Q) /\ a \notin Q /\ C = Q \cup {a}
    BY <1>3, <1>5, FS_Subset
  <2>2. Cardinality(C) = Cardinality(Q) + 1 /\ Cardinality(Q) \in Nat
    BY <2>1, FS_AddElement, FS_CardinalityType
  <2>3. \A b \in Q, r \in R \ Q : k[b] <= k[r]
    BY <1>3, <1>5, <2>1
  <2>4. CASE R \ Q = {}
    <3>1. Q = R
      BY <2>1, <2>4
    <3>0. Cardinality(C) = Cardinality(R) + 1
      BY <2>2, <3>1
    <3>2. Cardinality(R) = IF n <= Cardinality(R) THEN n ELSE Cardinality(R)
      BY ONLY <1>2, <1>3, <3>0, n \in Nat
    <3>3. R \in Heads(R, k, n)
      BY <3>2 DEF Heads
    <3> QED
      BY <2>1, <3>1, <3>3
  <2>5. CASE R \ Q # {}
    <3>1. PICK m \in R \ Q : \A x \in R \ Q : k[m] <= k[x]
      BY <2>5, FirstRow
    <3> DEFINE B == Q \cup {m}
    <3>2. B \in SUBSET R /\ IsFiniteSet(B) /\ Cardinality(B) = Cardinality(Q) + 1
      BY <2>1, <3>1, FS_AddElement
    <3>3. Cardinality(B) <= Cardinality(R)
      BY <3>2, FS_Subset
    <3>4. Cardinality(B) = IF n <= Cardinality(R) THEN n ELSE Cardinality(R)
      BY ONLY <1>2, <1>3, <2>2, <3>2, <3>3, n \in Nat
    <3>5. \A b \in B, r \in R \ B : k[b] <= k[r]
      BY <2>3, <3>1
    <3>6. B \in Heads(R, k, n)
      BY <3>2, <3>4, <3>5 DEF Heads
    <3> QED
      BY <2>1, <3>6
  <2> QED
    BY <2>4, <2>5
<1> QED
  BY <1>4, <1>5

\* The first n after the key of one row r has changed: a first n of before,
\* but for one row.
LEMMA HeadsMove ==
  ASSUME NEW R, IsFiniteSet(R), NEW z \in R, NEW n \in Nat,
         NEW k \in [R -> Int], NEW j \in [R -> Int], \A r \in R \ {z} : j[r] = k[r],
         NEW C \in Heads(R, j, n)
  PROVE  \E B \in Heads(R, k, n), x \in R : C \subseteq B \cup {x}
<1>1. /\ C \in SUBSET R /\ IsFiniteSet(C) /\ Cardinality(C) \in Nat
      /\ Cardinality(C) = IF n <= Cardinality(R) THEN n ELSE Cardinality(R)
      /\ \A b \in C, r \in R \ C : j[b] <= j[r]
  BY HeadsFacts
<1>2. \A r \in R : k[r] \in Int
  OBVIOUS
<1>3. ASSUME \A b \in C, r \in R \ C : k[b] <= k[r]
      PROVE  C \in Heads(R, k, n)
  BY <1>1, <1>3 DEF Heads
\* One row of C is exchanged for one that is not.
<1>4. ASSUME NEW c \in C, NEW d \in R \ C,
             \A b \in (C \ {c}) \cup {d}, r \in R \ ((C \ {c}) \cup {d}) : k[b] <= k[r]
      PROVE  (C \ {c}) \cup {d} \in Heads(R, k, n)
  <2> DEFINE Q == C \ {c}
  <2>1. IsFiniteSet(Q) /\ c \notin Q /\ d \notin Q /\ C = Q \cup {c}
    BY <1>1, FS_Subset
  <2>2. Cardinality(C) = Cardinality(Q) + 1 /\ Cardinality(Q \cup {d}) = Cardinality(Q) + 1
    BY <2>1, FS_AddElement
  <2>3. Cardinality(Q \cup {d}) = IF n <= Cardinality(R) THEN n ELSE Cardinality(R)
    BY <1>1, <2>2
  <2>4. Q \cup {d} \in SUBSET R
    BY <1>1
  <2> QED
    BY <1>4, <2>3, <2>4 DEF Heads
<1>5. CASE R \ C = {}
  BY <1>3, <1>5
<1>6. CASE z \in C /\ R \ C # {}
  <2>1. PICK m \in R \ C : \A x \in R \ C : k[m] <= k[x]
    BY <1>6, FirstRow
  <2>2. \A b \in C \ {z}, r \in R \ C : k[b] <= k[r]
    BY <1>1, <1>6
  <2>3. CASE k[z] <= k[m]
    <3>1. \A r \in R \ C : k[z] <= k[r]
      BY <1>2, <1>6, <2>1, <2>3
    <3>2. \A b \in C, r \in R \ C : k[b] <= k[r]
      BY <2>2, <3>1
    <3> QED
      BY <1>3, <1>6, <3>2
  <2>4. CASE ~(k[z] <= k[m])
    <3>1. \A b \in (C \ {z}) \cup {m} : k[b] <= k[z]
      BY <1>1, <1>2, <1>6, <2>1, <2>2, <2>4
    <3>2. \A b \in (C \ {z}) \cup {m}, r \in R \ C : k[b] <= k[r]
      BY <2>1, <2>2
    <3>3. \A b \in (C \ {z}) \cup {m}, r \in R \ ((C \ {z}) \cup {m}) : k[b] <= k[r]
      BY <3>1, <3>2
    <3>4. (C \ {z}) \cup {m} \in Heads(R, k, n)
      BY <1>4, <1>6, <2>1, <3>3
    <3>5. C \subseteq ((C \ {z}) \cup {m}) \cup {z}
      OBVIOUS
    <3> QED
      BY <3>4, <3>5
  <2> QED
    BY <2>3, <2>4
<1>7. CASE z \notin C /\ C # {}
  <2>1. PICK m \in C : \A x \in C : k[x] <= k[m]
    BY <1>1, <1>7, LastRow
  <2>2. \A b \in C, r \in R \ (C \cup {z}) : k[b] <= k[r]
    BY <1>1, <1>7
  <2>3. CASE k[m] <= k[z]
    <3>1. \A b \in C : k[b] <= k[z]
      BY <1>1, <1>2, <1>7, <2>1, <2>3
    <3>2. \A b \in C, r \in R \ C : k[b] <= k[r]
      BY <2>2, <3>1
    <3> QED
      BY <1>3, <3>2
  <2>4. CASE ~(k[m] <= k[z])
    <3>1. \A r \in R \ (C \cup {z}) : k[z] <= k[r]
      BY <1>1, <1>2, <2>1, <2>2, <2>4
    <3>2. \A b \in (C \ {m}) \cup {z} : k[b] <= k[m]
      BY <1>1, <1>2, <2>1, <2>4
    <3>3. \A b \in (C \ {m}) \cup {z}, r \in R \ ((C \ {m}) \cup {z}) : k[b] <= k[r]
      BY <2>2, <3>1, <3>2
    <3>4. (C \ {m}) \cup {z} \in Heads(R, k, n)
      BY <1>4, <1>7, <2>1, <3>3
    <3>5. m \in R /\ C \subseteq ((C \ {m}) \cup {z}) \cup {m}
      BY <1>1
    <3> QED
      BY <3>4, <3>5
  <2> QED
    BY <2>3, <2>4
<1>8. CASE C = {}
  BY <1>3, <1>8
<1> QED
  BY <1>5, <1>6, <1>7, <1>8

\* Without a next page the list ends with this one.
LEMMA LastPage ==
  ASSUME NEW p \in Nat, NEW c \in Nat, NEW n \in Nat \ {0},
         ~(p < (c + n - 1) \div n)
  PROVE  c <= (p - 1) * n + n
<1> DEFINE d == (c + n - 1) \div n
<1>1. c + n - 1 \in Nat
  OBVIOUS
<1>2. d \in Int /\ d * n <= c + n - 1 /\ c + n - 1 < (d + 1) * n
  BY <1>1
<1>3. d <= p
  BY <1>2
<1> HIDE DEF d
<1>4. d * n <= p * n
  BY <1>2, <1>3
<1>5. (d + 1) * n = d * n + n /\ (p - 1) * n = p * n - n
  BY <1>2
<1> QED
  BY <1>2, <1>4, <1>5

---------------------------------------------------------------------------
(* What a walk misses.                                                     *)

\* The rows of the list in the order of the walk.
Keys == [r \in Rows(task) |-> IF walk.order = "asc" THEN Key(walk.sort, r)
                                                    ELSE 0 - Key(walk.sort, r)]

\* A walk that is under way, of which WalkMissesFew has something to say.
Walking == Reading /\ task \in Lists /\ ~during.wiped /\ ~during.tied

\* Rows of B that a walk has missed.
Missed(B) == (B \cap walk.before) \ walk.seen

\* Of the rows before its next page a walk has missed no more than were moved
\* there, however rows with the same key are ordered; the last count was
\* short of the rows that were added since.
WalkSoFar ==
  /\ walk.sort \in Sorts(task) /\ walk.order \in {"asc", "desc"}
  /\ walk.per_page \in Nat \ {0}
  /\ walk.before \subseteq Rows(task)
  /\ ids = {} /\ todo \in {<<"count", "rows">>, <<"rows">>}
  /\ todo = <<"rows">> => /\ "count" \in DOMAIN answers
                          /\ Cardinality(Rows(task)) <= answers["count"] + during.late
  /\ \A B \in Heads(Rows(task), Keys, Offset) : Cardinality(Missed(B)) <= during.moved

MissInv == (Walking => WalkSoFar) /\ WalkMissesFew

\* The rows of a list are finitely many attacks.
LEMMA RowsFinite ==
  ASSUME TablesInv, task \in Lists
  PROVE  /\ Rows(task) \in SUBSET Attacks /\ IsFiniteSet(Rows(task))
         /\ Cardinality(Rows(task)) \in Nat
<1>1. Rows(task) \in SUBSET Attacks
  BY DEF Rows, TablesInv
<1> QED
  BY <1>1, Counting

LEMMA KeysType ==
  ASSUME TablesInv, task \in Lists, walk.sort \in Sorts(task)
  PROVE  /\ Keys \in [Rows(task) -> Int]
         /\ \A r \in Rows(task) :
              /\ Key(walk.sort, r) \in Int
              /\ Keys[r] = IF walk.order = "asc" THEN Key(walk.sort, r) ELSE 0 - Key(walk.sort, r)
<1>1. ASSUME NEW r \in Rows(task)
      PROVE  Key(walk.sort, r) \in Int
  <2>1. CASE task = "attacks"
    <3>1. walk.sort \in {"timestamp", "risk_score"} /\ r \in Attacks
      BY <2>1, <1>1 DEF Sorts, Rows, TablesInv
    <3>2. Time[r] \in Nat /\ Score[r] \in 0..100
      BY <3>1, ColumnsAssumption DEF ColumnsAssumption
    <3> QED
      BY <3>1, <3>2 DEF Key
  <2>2. CASE task # "attacks"
    <3>1. walk.sort \in {"last_seen", "max_risk_score"} /\ r \in DOMAIN incidents
      BY <2>2, <1>1 DEF Sorts, Rows
    <3>2. incidents[r].last_seen \in Nat /\ max_risk_score(r) \in 0..100
      BY <3>1, MaxScore DEF TablesInv
    <3> QED
      BY <3>1, <3>2 DEF Key
  <2> QED
    BY <2>1, <2>2
<1> QED
  BY <1>1 DEF Keys

\* The same of the tables after a commit.
LEMMA KeysTypeNext ==
  ASSUME TablesInv', task \in Lists, walk.sort \in Sorts(task), task' = task, walk' = walk
  PROVE  Keys' \in [Rows(task)' -> Int]
<1>1. ASSUME NEW r \in Rows(task)'
      PROVE  Key(walk.sort, r)' \in Int
  <2>1. CASE task = "attacks"
    <3>1. walk.sort \in {"timestamp", "risk_score"} /\ r \in Attacks
      BY <2>1, <1>1 DEF Sorts, Rows, TablesInv
    <3>2. Time[r] \in Nat /\ Score[r] \in 0..100
      BY <3>1, ColumnsAssumption DEF ColumnsAssumption
    <3> QED
      BY <3>1, <3>2 DEF Key
  <2>2. CASE task # "attacks"
    <3>1. walk.sort \in {"last_seen", "max_risk_score"} /\ r \in DOMAIN incidents'
      BY <2>2, <1>1 DEF Sorts, Rows
    <3>2. incidents'[r].counted \in SUBSET Attacks /\ incidents'[r].counted # {}
      BY <3>1 DEF TablesInv, Related
    <3>3. incidents'[r].last_seen \in Nat /\ max_risk_score(r)' \in 0..100
      BY <3>1, <3>2, MaxBounded DEF TablesInv, max_risk_score
    <3> QED
      BY <3>1, <3>3 DEF Key
  <2> QED
    BY <2>1, <2>2
<1>2. Keys' = [r \in Rows(task)' |-> IF walk.order = "asc" THEN Key(walk.sort, r)'
                                                           ELSE 0 - Key(walk.sort, r)']
  BY DEF Keys
<1> QED
  BY <1>1, <1>2

\* A row keeps its place if it is an attack or an incident that is not updated.
LEMMA KeyKept ==
  ASSUME task \in Lists, walk.sort \in Sorts(task), UNCHANGED <<task, walk>>,
         NEW r \in Rows(task), r \in Rows(task)',
         task = "attacks" \/ incidents'[r] = incidents[r]
  PROVE  Keys'[r] = Keys[r]
<1>1. Key(walk.sort, r)' = Key(walk.sort, r)
  <2>1. CASE task = "attacks"
    <3>1. walk.sort \in {"timestamp", "risk_score"}
      BY <2>1 DEF Sorts
    <3> QED
      BY <3>1 DEF Key
  <2>2. CASE task # "attacks"
    <3>1. walk.sort \in {"last_seen", "max_risk_score"} /\ incidents'[r] = incidents[r]
      BY <2>2 DEF Sorts
    <3> QED
      BY <3>1 DEF Key, max_risk_score
  <2> QED
    BY <2>1, <2>2
<1>2. Keys'[r] = IF walk.order = "asc" THEN Key(walk.sort, r)' ELSE 0 - Key(walk.sort, r)'
  BY DEF Keys
<1>3. Keys[r] = IF walk.order = "asc" THEN Key(walk.sort, r) ELSE 0 - Key(walk.sort, r)
  BY DEF Keys
<1> QED
  BY <1>1, <1>2, <1>3

\* How many rows are missed.
LEMMA MissedCount ==
  ASSUME NEW R, IsFiniteSet(R), NEW B \in SUBSET R, NEW x,
         NEW C, C \subseteq B \cup {x}, NEW before, NEW seen
  PROVE  /\ Cardinality((B \cap before) \ seen) \in Nat
         /\ Cardinality((C \cap before) \ seen) <= Cardinality((B \cap before) \ seen) + 1
         /\ x \notin before =>
              Cardinality((C \cap before) \ seen) <= Cardinality((B \cap before) \ seen)
<1> DEFINE M == (B \cap before) \ seen
           N == (C \cap before) \ seen
<1>1. IsFiniteSet(M) /\ Cardinality(M) \in Nat
  <2>1. M \subseteq R
    OBVIOUS
  <2> QED
    BY <2>1, FS_Subset, FS_CardinalityType
<1>2. IsFiniteSet(M \cup {x}) /\ Cardinality(M \cup {x}) <= Cardinality(M) + 1
  <2> HIDE DEF M
  <2>1. CASE x \in M
    <3>1. M \cup {x} = M
      BY <2>1
    <3> QED
      BY <1>1, <3>1
  <2>2. CASE x \notin M
    <3>1. Cardinality(M \cup {x}) = Cardinality(M) + 1 /\ IsFiniteSet(M \cup {x})
      BY <1>1, <2>2, FS_AddElement
    <3> QED
      BY <1>1, <3>1
  <2> QED
    BY <2>1, <2>2
<1>3. N \subseteq M \cup {x}
  OBVIOUS
<1>4. x \notin before => N \subseteq M
  OBVIOUS
<1>5. /\ Cardinality(N) <= Cardinality(M \cup {x}) /\ Cardinality(N) \in Nat
      /\ Cardinality(M \cup {x}) \in Nat
      /\ x \notin before => Cardinality(N) <= Cardinality(M)
  BY <1>1, <1>2, <1>3, <1>4, FS_Subset, FS_CardinalityType
<1> HIDE DEF M, N
<1>6. Cardinality(N) <= Cardinality(M) + 1
  BY <1>1, <1>2, <1>5
<1> QED
  BY <1>1, <1>5, <1>6 DEF M, N

LEMMA OffsetType ==
  ASSUME WalkInv
  PROVE  Offset \in Nat
<1>1. walk.page \in Nat \ {0} /\ walk.per_page \in Nat
  BY DEF WalkInv, Walks
<1>2. walk.page - 1 \in Nat
  BY <1>1
<1> QED
  BY <1>1, <1>2 DEF Offset

\* A row is added: to the rows that may come after the last page.
LEMMA WalkInsert ==
  ASSUME TablesInv, TablesInv', WalkInv, DuringInv, task \in Lists, WalkSoFar,
         UNCHANGED client, NEW a, a \notin Rows(task), Rows(task)' = Rows(task) \cup {a},
         \A r \in Rows(task) : Keys'[r] = Keys[r],
         during'.moved = during.moved, during'.late = during.late + 1,
         todo = <<"rows">> => answers["count"] \in Nat
  PROVE  WalkSoFar'
<1>1. task' = task /\ walk' = walk /\ todo' = todo /\ ids' = ids /\ answers' = answers
      /\ Offset' = Offset
  BY DEF client, Offset
<1>2. /\ walk.sort \in Sorts(task) /\ walk.order \in {"asc", "desc"}
      /\ walk.per_page \in Nat \ {0} /\ walk.before \subseteq Rows(task)
      /\ ids = {} /\ todo \in {<<"count", "rows">>, <<"rows">>}
      /\ todo = <<"rows">> => /\ "count" \in DOMAIN answers
                              /\ Cardinality(Rows(task)) <= answers["count"] + during.late
      /\ \A B \in Heads(Rows(task), Keys, Offset) : Cardinality(Missed(B)) <= during.moved
  BY DEF WalkSoFar
<1>3. PICK R : R = Rows(task)
  OBVIOUS
<1>4. PICK k : k = Keys
  OBVIOUS
<1>5. IsFiniteSet(R) /\ Cardinality(R) \in Nat /\ k \in [R -> Int]
  BY <1>2, <1>3, <1>4, RowsFinite, KeysType
<1>6. Cardinality(R \cup {a}) = Cardinality(R) + 1
  BY <1>3, <1>5, FS_AddElement
<1>7. Keys' \in [R \cup {a} -> Int]
  BY <1>1, <1>2, <1>3, KeysTypeNext
<1>8. PICK j : j = Keys'
  OBVIOUS
<1>9. ASSUME NEW C \in Heads(R \cup {a}, j, Offset)
      PROVE  Cardinality((C \cap walk.before) \ walk.seen) <= during.moved
  <2>1. PICK n \in Nat : n = Offset
    BY OffsetType
  <2>2. PICK B \in Heads(R, k, n) : C \subseteq B \cup {a}
    <3>0. PICK S : S = R \cup {a}
      OBVIOUS
    <3>1. j \in [S -> Int]
      BY <1>7, <1>8, <3>0
    <3>2. (\A r \in R : j[r] = k[r]) /\ a \notin R
      BY <1>3, <1>4, <1>8
    <3>3. C \in Heads(S, j, n)
      BY <1>9, <2>1, <3>0
    <3>4. IsFiniteSet(R) /\ k \in [R -> Int]
      BY <1>5
    <3> QED
      BY ONLY <3>0, <3>1, <3>2, <3>3, <3>4, n \in Nat, HeadsInsert
  <2>3. Cardinality(Missed(B)) <= during.moved
    BY <1>2, <1>3, <1>4, <2>1, <2>2
  <2>4. B \in SUBSET R /\ a \notin walk.before
    BY <1>2, <1>3, <2>2 DEF Heads
  <2>5. /\ Cardinality((C \cap walk.before) \ walk.seen)
             <= Cardinality((B \cap walk.before) \ walk.seen)
        /\ Cardinality((B \cap walk.before) \ walk.seen) \in Nat
    BY <1>5, <2>2, <2>4, MissedCount
  <2>6. Cardinality((C \cap walk.before) \ walk.seen) \in Nat
    <3>1. (C \cap walk.before) \ walk.seen \subseteq R
      BY <1>2, <1>3
    <3> QED
      BY <1>5, <3>1, FS_Subset, FS_CardinalityType
  <2> QED
    BY <2>3, <2>5, <2>6 DEF Missed, DuringInv
<1>10. todo' = <<"rows">> =>
         Cardinality(R \cup {a}) <= answers["count"] + during'.late
  BY <1>1, <1>2, <1>3, <1>5, <1>6 DEF DuringInv
<1> QED
  BY <1>1, <1>2, <1>3, <1>8, <1>9, <1>10 DEF WalkSoFar, Missed

\* An incident is updated and moves: one more may be missed.
LEMMA WalkMove ==
  ASSUME TablesInv, TablesInv', WalkInv, DuringInv, task \in Lists, WalkSoFar,
         UNCHANGED client, NEW z \in Rows(task), Rows(task)' = Rows(task),
         \A r \in Rows(task) \ {z} : Keys'[r] = Keys[r],
         during'.moved = during.moved + 1, during'.late = during.late
  PROVE  WalkSoFar'
<1>1. task' = task /\ walk' = walk /\ todo' = todo /\ ids' = ids /\ answers' = answers
      /\ Offset' = Offset
  BY DEF client, Offset
<1>2. /\ walk.sort \in Sorts(task) /\ walk.order \in {"asc", "desc"}
      /\ walk.per_page \in Nat \ {0} /\ walk.before \subseteq Rows(task)
      /\ ids = {} /\ todo \in {<<"count", "rows">>, <<"rows">>}
      /\ todo = <<"rows">> => /\ "count" \in DOMAIN answers
                              /\ Cardinality(Rows(task)) <= answers["count"] + during.late
      /\ \A B \in Heads(Rows(task), Keys, Offset) : Cardinality(Missed(B)) <= during.moved
  BY DEF WalkSoFar
<1>3. PICK R : R = Rows(task)
  OBVIOUS
<1>4. PICK k : k = Keys
  OBVIOUS
<1>5. IsFiniteSet(R) /\ k \in [R -> Int]
  BY <1>2, <1>3, <1>4, RowsFinite, KeysType
<1>6. Keys' \in [R -> Int]
  BY <1>1, <1>2, <1>3, KeysTypeNext
<1>7. PICK j : j = Keys'
  OBVIOUS
<1>8. ASSUME NEW C \in Heads(R, j, Offset)
      PROVE  Cardinality((C \cap walk.before) \ walk.seen) <= during.moved + 1
  <2>1. PICK n \in Nat : n = Offset
    BY OffsetType
  <2>2. PICK B \in Heads(R, k, n), x \in R : C \subseteq B \cup {x}
    <3>1. j \in [R -> Int]
      BY <1>6, <1>7
    <3>2. (\A r \in R \ {z} : j[r] = k[r]) /\ z \in R
      BY <1>3, <1>4, <1>7
    <3>3. C \in Heads(R, j, n)
      BY <1>8, <2>1
    <3>4. IsFiniteSet(R) /\ k \in [R -> Int]
      BY <1>5
    <3> QED
      BY ONLY <3>1, <3>2, <3>3, <3>4, n \in Nat, HeadsMove
  <2>3. Cardinality(Missed(B)) <= during.moved
    BY <1>2, <1>3, <1>4, <2>1, <2>2
  <2>4. B \in SUBSET R
    BY <2>2 DEF Heads
  <2>5. /\ Cardinality((C \cap walk.before) \ walk.seen)
             <= Cardinality((B \cap walk.before) \ walk.seen) + 1
        /\ Cardinality((B \cap walk.before) \ walk.seen) \in Nat
    BY <1>5, <2>2, <2>4, MissedCount
  <2>6. Cardinality((C \cap walk.before) \ walk.seen) \in Nat
    <3>1. (C \cap walk.before) \ walk.seen \subseteq R
      BY <1>2, <1>3
    <3> QED
      BY <1>5, <3>1, FS_Subset, FS_CardinalityType
  <2> QED
    BY <2>3, <2>5, <2>6 DEF Missed, DuringInv
<1> QED
  BY <1>1, <1>2, <1>3, <1>7, <1>8 DEF WalkSoFar, Missed

LEMMA Smaller ==
  ASSUME NEW m \in Nat, NEW n \in Nat
  PROVE  Min({m, n}) = IF m <= n THEN m ELSE n
<1>1. \E x \in {m, n} : \A y \in {m, n} : x <= y
  OBVIOUS
<1>2. Min({m, n}) \in {m, n} /\ \A y \in {m, n} : Min({m, n}) <= y
  BY <1>1 DEF Min
<1> QED
  BY <1>2

\* What ORDER BY and LIMIT return, by the keys of the walk.
LEMMA FirstRowsHeads ==
  ASSUME TablesInv, task \in Lists, walk.sort \in Sorts(task), walk.order \in {"asc", "desc"},
         NEW S \in SUBSET Rows(task), NEW n \in Nat,
         NEW B \in FirstRows(S, walk.sort, walk.order, n)
  PROVE  B \in Heads(S, Keys, n)
<1>1. /\ B \in SUBSET S /\ Cardinality(B) = Min({n, Cardinality(S)})
      /\ \A b \in B, r \in S \ B :
           IF walk.order = "asc" THEN Key(walk.sort, b) <= Key(walk.sort, r)
                                 ELSE Key(walk.sort, b) >= Key(walk.sort, r)
  BY DEF FirstRows
<1>2. Cardinality(S) \in Nat
  BY RowsFinite, FS_Subset, FS_CardinalityType
<1>3. Cardinality(B) = IF n <= Cardinality(S) THEN n ELSE Cardinality(S)
  BY <1>1, <1>2, Smaller
<1>4. ASSUME NEW b \in B, NEW r \in S \ B
      PROVE  Keys[b] <= Keys[r]
  <2>1. /\ Key(walk.sort, b) \in Int /\ Key(walk.sort, r) \in Int
        /\ Keys[b] = IF walk.order = "asc" THEN Key(walk.sort, b) ELSE 0 - Key(walk.sort, b)
        /\ Keys[r] = IF walk.order = "asc" THEN Key(walk.sort, r) ELSE 0 - Key(walk.sort, r)
    BY <1>1, KeysType
  <2>2. CASE walk.order = "asc"
    BY <1>1, <2>1, <2>2
  <2>3. CASE walk.order # "asc"
    <3>1. Key(walk.sort, b) >= Key(walk.sort, r)
      BY <1>1, <2>3
    <3>2. Keys[b] = 0 - Key(walk.sort, b) /\ Keys[r] = 0 - Key(walk.sort, r)
      BY <2>1, <2>3
    <3> QED
      BY <2>1, <3>1, <3>2
  <2> QED
    BY <2>2, <2>3
<1> QED
  BY <1>1, <1>3, <1>4 DEF Heads

\* A walk begins: there is nothing before its first page.
LEMMA WalkBegin ==
  ASSUME TablesInv, Begins, task' \in Lists
  PROVE  WalkSoFar' /\ Reading'
<1>1. PICK t \in Lists, w \in Walks :
        /\ Begin(t, w, {}) /\ Starts(t, w)
        /\ task' = t
  BY DEF Begins, Begin
<1>2. /\ walk' = w /\ ids' = {} /\ todo' = <<"count", "rows">> /\ during' = Quiet
      /\ UNCHANGED tables
  <2>1. Statements(t) = <<"count", "rows">>
    BY DEF Statements, Lists
  <2> QED
    BY <1>1, <2>1 DEF Begin
<1>3. /\ w.sort \in Sorts(t) /\ w.order \in {"asc", "desc"} /\ w.per_page \in Nat \ {0}
      /\ w.page = 1 /\ w.before = Rows(t) /\ w.seen = {}
  BY <1>1 DEF Starts
<1>4. Rows(task)' = Rows(t)
  BY <1>1, <1>2 DEF Rows, stored, tables
<1>5. Offset' = 0
  <2>1. Offset' = (w.page - 1) * w.per_page
    BY <1>2 DEF Offset
  <2> QED
    BY <1>3, <2>1
<1>6. ASSUME NEW B \in Heads(Rows(task)', Keys', 0)
      PROVE  Cardinality((B \cap w.before) \ w.seen) <= 0
  <2>1. IsFiniteSet(Rows(t)) /\ Cardinality(Rows(t)) \in Nat
    <3>1. Rows(t) \in SUBSET Attacks
      BY DEF Rows, TablesInv
    <3> QED
      BY <3>1, Counting
  <2>2. /\ B \in SUBSET Rows(t)
        /\ Cardinality(B) = IF 0 <= Cardinality(Rows(t)) THEN 0 ELSE Cardinality(Rows(t))
    BY <1>4, <1>6 DEF Heads
  <2>3. IsFiniteSet(B) /\ Cardinality(B) = 0
    BY <2>1, <2>2, FS_Subset
  <2>4. B = {}
    BY <2>3, FS_EmptySet
  <2>5. (B \cap w.before) \ w.seen = {}
    BY <2>4
  <2>6. Cardinality({}) = 0
    BY FS_EmptySet
  <2> QED
    BY <2>5, <2>6
<1>7. todo' # <<"rows">> /\ Reading'
  <2>1. Len(<<"count", "rows">>) = 2 /\ Len(<<"rows">>) = 1
    OBVIOUS
  <2>2. <<"count", "rows">> # <<"rows">> /\ <<"count", "rows">> # <<>>
    BY <2>1
  <2> QED
    BY <1>2, <2>2 DEF Reading
<1>8. \A B \in Heads(Rows(task)', Keys', Offset') :
        Cardinality((B \cap walk'.before) \ walk'.seen) <= during'.moved
  BY <1>2, <1>5, <1>6 DEF Quiet
<1> QED
  BY <1>1, <1>2, <1>3, <1>4, <1>7, <1>8 DEF WalkSoFar, Missed

\* The count is what it is when it is read.
LEMMA WalkExecute ==
  ASSUME TablesInv, ClientInv, DuringInv, Execute, task \in Lists, WalkSoFar
  PROVE  WalkSoFar' /\ Reading'
<1>1. todo = <<"count", "rows">>
  <2>1. todo \in {<<"count", "rows">>, <<"rows">>} /\ Head(todo) # "rows"
    BY DEF WalkSoFar, Execute
  <2> QED
    BY <2>1
<1>2. Head(todo) = "count" /\ Tail(todo) = <<"rows">>
  BY <1>1
<1>3. Result("count") = Cardinality(Rows(task)) /\ Cardinality(Rows(task)) \in Nat
  BY RowsFinite DEF Result
<1>4. Result("count") # None
  BY <1>3, NoneAssumption DEF NoneAssumption
<1>5. /\ todo' = <<"rows">> /\ ids' = ids /\ UNCHANGED <<tables, task, walk>>
      /\ during' = [during EXCEPT !.late = IF Head(todo) = "count" THEN 0 ELSE @]
  BY <1>2, <1>4 DEF Execute
<1>6. "count" \in DOMAIN answers' /\ answers'["count"] = Cardinality(Rows(task))
  BY <1>2, <1>3, ExecuteEffect
<1>7. during'.late = 0 /\ during'.moved = during.moved
  BY <1>2, <1>5 DEF DuringInv
<1>8. Rows(task)' = Rows(task) /\ Keys' = Keys /\ Offset' = Offset
  BY <1>5 DEF Rows, Keys, Key, Offset, stored, tables, max_risk_score
<1>9. todo' # <<>>
  BY <1>5
<1>10. Cardinality(Rows(task)) <= answers'["count"] + during'.late
  BY <1>3, <1>6, <1>7
<1> QED
  BY <1>5, <1>6, <1>7, <1>8, <1>9, <1>10 DEF WalkSoFar, Missed, Reading

\* What a page adds to what was seen.
LEMMA WalkPage ==
  ASSUME TablesInv, ClientInv, AnswersInv, WalkInv, DuringInv, FetchPage, task \in Lists,
         WalkSoFar, ~during'.tied
  PROVE  /\ HasNext => WalkSoFar' /\ Reading'
         /\ ~HasNext => /\ ~Reading'
                        /\ Cardinality(walk'.before \ walk'.seen) <= during'.moved + during'.late
<1>1. /\ walk.sort \in Sorts(task) /\ walk.order \in {"asc", "desc"}
      /\ walk.per_page \in Nat \ {0} /\ walk.before \subseteq Rows(task) /\ ids = {}
      /\ todo = <<"rows">> => /\ "count" \in DOMAIN answers
                              /\ Cardinality(Rows(task)) <= answers["count"] + during.late
      /\ \A B \in Heads(Rows(task), Keys, Offset) : Cardinality(Missed(B)) <= during.moved
  BY DEF WalkSoFar
<1>2. /\ todo = <<"rows">>
      /\ UNCHANGED <<tables, task, answers, ids>>
      /\ todo' = IF HasNext THEN Statements(task) ELSE <<>>
      /\ during' = [during EXCEPT !.tied = @ \/
           \E r, q \in Rows(task) : r # q /\ Key(walk.sort, r) = Key(walk.sort, q)]
  BY DEF FetchPage
<1>3. PICK rows \in Pages(Rows(task), walk.sort, walk.order, Offset, walk.per_page) :
        walk' = [walk EXCEPT !.seen = @ \cup rows, !.page = IF HasNext THEN @ + 1 ELSE @]
  BY DEF FetchPage
<1>4. /\ walk'.seen = walk.seen \cup rows /\ walk'.before = walk.before
      /\ walk'.sort = walk.sort /\ walk'.order = walk.order /\ walk'.per_page = walk.per_page
      /\ walk'.page = IF HasNext THEN walk.page + 1 ELSE walk.page
  BY <1>3 DEF WalkInv, Walks
<1>5. /\ during'.moved = during.moved /\ during'.late = during.late
      /\ during.moved \in Nat /\ during.late \in Nat
      /\ \A r, q \in Rows(task) : Key(walk.sort, r) = Key(walk.sort, q) => r = q
  BY <1>2 DEF DuringInv
<1>6. PICK R : R = Rows(task)
  OBVIOUS
<1>7. PICK k : k = Keys
  OBVIOUS
<1>8. PICK n \in Nat : n = Offset
  BY OffsetType
<1>9. PICK p \in Nat \ {0} : p = walk.per_page
  BY <1>1
<1>10. IsFiniteSet(R) /\ Cardinality(R) \in Nat /\ k \in [R -> Int]
  BY <1>1, <1>6, <1>7, RowsFinite, KeysType
<1>11. PICK B \in Heads(R, k, n) : rows \in Heads(R \ B, k, p)
  <2>1. PICK B \in FirstRows(R, walk.sort, walk.order, n) :
          rows \in FirstRows(R \ B, walk.sort, walk.order, p)
    BY <1>3, <1>6, <1>8, <1>9 DEF Pages
  <2>2. B \in Heads(R, k, n)
    BY <1>1, <1>6, <1>7, <2>1, FirstRowsHeads
  <2>3. rows \in Heads(R \ B, k, p)
    BY <1>1, <1>6, <1>7, <2>1, FirstRowsHeads
  <2> QED
    BY <2>2, <2>3
<1>12. B \cup rows \in Heads(R, k, n + p)
  BY <1>10, <1>11, HeadsPage
<1>13. \A r, q \in R : k[r] = k[q] => r = q
  <2>1. \A r \in R : /\ Key(walk.sort, r) \in Int
                     /\ k[r] = IF walk.order = "asc" THEN Key(walk.sort, r)
                                                     ELSE 0 - Key(walk.sort, r)
    BY <1>1, <1>6, <1>7, KeysType
  <2>2. ASSUME NEW r \in R, NEW q \in R, k[r] = k[q]
        PROVE  Key(walk.sort, r) = Key(walk.sort, q)
    <3>1. CASE walk.order = "asc"
      BY <2>1, <2>2, <3>1
    <3>2. CASE walk.order # "asc"
      <4>1. k[r] = 0 - Key(walk.sort, r) /\ k[q] = 0 - Key(walk.sort, q)
        BY <2>1, <3>2
      <4>2. Key(walk.sort, r) \in Int /\ Key(walk.sort, q) \in Int
        BY <2>1
      <4>3. 0 - Key(walk.sort, r) = 0 - Key(walk.sort, q)
        BY <2>2, <4>1
      <4> QED
        BY ONLY <4>2, <4>3
    <3> QED
      BY <3>1, <3>2
  <2> QED
    BY <1>5, <1>6, <2>2
<1>14. /\ Cardinality(Missed(B)) <= during.moved
       /\ Missed(B) \subseteq R
  BY <1>1, <1>6, <1>7, <1>8, <1>11 DEF Missed
<1>15. Rows(task)' = Rows(task) /\ Keys' = Keys
  BY <1>2, <1>4 DEF Rows, Keys, Key, stored, tables, max_risk_score
<1>16. CASE HasNext
  <2>1. todo' = <<"count", "rows">> /\ Reading'
    <3>1. Statements(task) = <<"count", "rows">>
      BY DEF Statements, Lists
    <3> QED
      BY <1>2, <1>16, <3>1 DEF Reading
  <2>2. Offset' = n + p
    <3>1. /\ Offset' = (walk'.page - 1) * walk'.per_page
          /\ Offset = (walk.page - 1) * walk.per_page
      BY DEF Offset
    <3>2. walk.page \in Nat \ {0} /\ walk'.page = walk.page + 1
      BY <1>4, <1>16 DEF WalkInv, Walks
    <3>3. PICK i \in Nat \ {0} : i = walk.page
      BY <3>2
    <3>4. Offset' = (i + 1 - 1) * p /\ n = (i - 1) * p
      BY <1>4, <1>8, <1>9, <3>1, <3>2, <3>3
    <3>5. (i + 1 - 1) * p = (i - 1) * p + p
      OBVIOUS
    <3> QED
      BY <3>4, <3>5
  <2>3. ASSUME NEW C \in Heads(R, k, n + p)
        PROVE  Cardinality((C \cap walk'.before) \ walk'.seen) <= during.moved
    <3>1. C \subseteq B \cup rows
      BY <1>10, <1>12, <1>13, <2>3, HeadsUnique
    <3>2. (C \cap walk'.before) \ walk'.seen \subseteq Missed(B)
      BY <1>4, <3>1 DEF Missed
    <3>3. IsFiniteSet(Missed(B))
      BY <1>10, <1>14, FS_Subset
    <3>4. /\ Cardinality((C \cap walk'.before) \ walk'.seen) <= Cardinality(Missed(B))
          /\ Cardinality((C \cap walk'.before) \ walk'.seen) \in Nat
          /\ Cardinality(Missed(B)) \in Nat
      BY <3>2, <3>3, FS_Subset, FS_CardinalityType
    <3> QED
      BY <1>5, <1>14, <3>4
  <2>4. todo' # <<"rows">>
    <3>1. Len(<<"count", "rows">>) = 2 /\ Len(<<"rows">>) = 1
      OBVIOUS
    <3> QED
      BY <2>1, <3>1
  <2>5. WalkSoFar'
    BY <1>1, <1>2, <1>4, <1>5, <1>6, <1>7, <1>15, <2>1, <2>2, <2>3, <2>4 DEF WalkSoFar, Missed
  <2> QED
    BY <1>16, <2>1, <2>5
<1>17. CASE ~HasNext
  <2>1. ~Reading'
    BY <1>1, <1>2, <1>17 DEF Reading
  <2>2. PICK c \in Nat : c = answers["count"]
    BY <1>1, <1>2 DEF AnswersInv, Counts
  <2>3. c <= n + p
    <3>1. PICK i \in Nat : i = walk.page
      BY DEF WalkInv, Walks
    <3>2. ~(i < (c + p - 1) \div p)
      BY <1>9, <1>17, <2>2, <3>1 DEF HasNext
    <3>3. c <= (i - 1) * p + p
      BY <3>2, LastPage
    <3> QED
      BY <1>8, <1>9, <3>1, <3>3 DEF Offset
  <2>4. Cardinality(R) <= c + during.late
    BY <1>1, <1>2, <1>6, <2>2
  <2> DEFINE C == B \cup rows
             M == walk.before \ (walk.seen \cup rows)
  <2>5. /\ C \in SUBSET R /\ IsFiniteSet(C) /\ Cardinality(C) \in Nat
        /\ Cardinality(C) = IF n + p <= Cardinality(R) THEN n + p ELSE Cardinality(R)
    BY <1>10, <1>12, HeadsFacts
  <2>6. /\ IsFiniteSet(R \ C) /\ Cardinality(R \ C) \in Nat
        /\ Cardinality(R) = Cardinality(C) + Cardinality(R \ C)
    <3>1. IsFiniteSet(R \ C)
      BY <1>10, FS_Subset
    <3>2. C \cup (R \ C) = R /\ C \cap (R \ C) = {}
      BY <2>5
    <3>3. Cardinality(C \cup (R \ C)) =
            Cardinality(C) + Cardinality(R \ C) - Cardinality(C \cap (R \ C))
      BY <2>5, <3>1, FS_Union
    <3>4. Cardinality(C \cap (R \ C)) = 0
      BY <3>2, FS_EmptySet
    <3>5. Cardinality(R \ C) \in Nat
      BY <3>1, FS_CardinalityType
    <3>6. Cardinality(R) = Cardinality(C \cup (R \ C))
      BY <3>2
    <3> HIDE DEF C
    <3> QED
      BY <2>5, <3>1, <3>3, <3>4, <3>5, <3>6
  <2>7. Cardinality(R \ C) <= during.late
    <3> HIDE DEF C
    <3> QED
      BY <1>5, <1>10, <2>3, <2>4, <2>5, <2>6
  <2>8. IsFiniteSet(Missed(B)) /\ Cardinality(Missed(B)) \in Nat
    BY <1>10, <1>14, FS_Subset, FS_CardinalityType
  <2>9. M \subseteq Missed(B) \cup (R \ C)
    BY <1>1, <1>6 DEF Missed
  <2>10. Cardinality(M) <= Cardinality(Missed(B)) + Cardinality(R \ C)
    <3> HIDE DEF C, M
    <3>1. /\ IsFiniteSet(Missed(B) \cup (R \ C))
          /\ Cardinality(Missed(B) \cup (R \ C)) =
               Cardinality(Missed(B)) + Cardinality(R \ C)
                 - Cardinality(Missed(B) \cap (R \ C))
      BY <2>6, <2>8, FS_Union
    <3>2. Cardinality(Missed(B) \cap (R \ C)) \in Nat
      <4>1. IsFiniteSet(Missed(B) \cap (R \ C))
        BY <2>6, FS_Subset
      <4> QED
        BY <4>1, FS_CardinalityType
    <3>3. /\ Cardinality(M) <= Cardinality(Missed(B) \cup (R \ C))
          /\ Cardinality(M) \in Nat
      BY <2>9, <3>1, FS_Subset, FS_CardinalityType
    <3> QED
      BY <2>6, <2>8, <3>1, <3>2, <3>3
  <2>11. Cardinality(M) \in Nat
    <3>1. M \subseteq R
      BY <1>1, <1>6
    <3> QED
      BY <1>10, <3>1, FS_Subset, FS_CardinalityType
  <2>12. Cardinality(M) <= during.moved + during.late
    <3> HIDE DEF C, M
    <3> QED
      BY <1>5, <1>14, <2>6, <2>7, <2>8, <2>10, <2>11
  <2>13. walk'.before \ walk'.seen = M
    BY <1>4
  <2> QED
    BY <1>5, <1>17, <2>1, <2>12, <2>13
<1> QED
  BY <1>16, <1>17

\* A stored attack.
LEMMA WalkStore ==
  ASSUME TablesInv, TablesInv', AnswersInv, WalkInv, DuringInv, NEW a \in Attacks, Store(a),
         Reading, task \in Lists, WalkSoFar
  PROVE  WalkSoFar'
<1>1. /\ a \notin stored /\ a \notin DOMAIN incidents /\ UNCHANGED client
      /\ task' = task /\ walk' = walk
  BY DEF Store, TablesInv, client
<1>2. walk.sort \in Sorts(task)
  BY DEF WalkSoFar
<1>3. todo = <<"rows">> => answers["count"] \in Nat
  BY DEF WalkSoFar, AnswersInv, Counts
<1>4. CASE OpensIncident(a)
  <2>1. /\ stored' = stored \cup {a} /\ DOMAIN incidents' = DOMAIN incidents \cup {a}
        /\ \A n \in DOMAIN incidents : incidents'[n] = incidents[n]
    BY <1>1, <1>4 DEF OpensIncident, stored
  <2>2. Rows(task)' = Rows(task) \cup {a} /\ a \notin Rows(task)
    BY <1>1, <2>1 DEF Rows
  <2>3. during'.moved = during.moved /\ during'.late = during.late + 1
    BY <1>4 DEF OpensIncident, Observe, DuringInv
  <2>4. \A r \in Rows(task) : Keys'[r] = Keys[r]
    <3>1. \A r \in Rows(task) : task = "attacks" \/ incidents'[r] = incidents[r]
      BY <2>1 DEF Rows
    <3> QED
      BY <1>1, <1>2, <2>2, <3>1, KeyKept
  <2> QED
    BY <1>1, <1>3, <2>2, <2>3, <2>4, WalkInsert
<1>5. ASSUME NEW n \in DOMAIN incidents, NEW dropped, JoinsIncident(a, n, dropped)
      PROVE  WalkSoFar'
  <2>1. /\ stored' = stored \cup {a} /\ DOMAIN incidents' = DOMAIN incidents
        /\ \A m \in DOMAIN incidents : m # n => incidents'[m] = incidents[m]
    BY <1>1, <1>5 DEF JoinsIncident, stored
  <2>2. during' = [during EXCEPT !.moved = IF task = "incidents" THEN @ + 1 ELSE @,
                                 !.late = IF task = "attacks" THEN @ + 1 ELSE @,
                                 !.lost = @ \/ dropped # {}]
    BY <1>5 DEF JoinsIncident, Observe
  <2>3. /\ during'.moved = IF task = "incidents" THEN during.moved + 1 ELSE during.moved
        /\ during'.late = IF task = "attacks" THEN during.late + 1 ELSE during.late
    BY ONLY <2>2, DuringInv DEF DuringInv
  <2>4. CASE task = "attacks"
    <3>1. Rows(task)' = Rows(task) \cup {a} /\ a \notin Rows(task)
      BY <1>1, <2>1, <2>4 DEF Rows
    <3>2. \A r \in Rows(task) : Keys'[r] = Keys[r]
      BY <1>1, <1>2, <2>4, <3>1, KeyKept
    <3>3. during'.moved = during.moved /\ during'.late = during.late + 1
      BY <2>3, <2>4
    <3> QED
      BY <1>1, <1>3, <3>1, <3>2, <3>3, WalkInsert
  <2>5. CASE task = "incidents"
    <3>1. Rows(task)' = Rows(task) /\ n \in Rows(task) /\ Rows(task) = DOMAIN incidents
      BY <1>1, <2>1, <2>5 DEF Rows
    <3>2. \A r \in Rows(task) \ {n} : Keys'[r] = Keys[r]
      BY <1>1, <1>2, <2>1, <3>1, KeyKept
    <3>3. during'.moved = during.moved + 1 /\ during'.late = during.late
      BY <2>3, <2>5
    <3> QED
      BY <1>1, <3>1, <3>2, <3>3, WalkMove
  <2> QED
    BY <2>4, <2>5 DEF Lists
<1> QED
  BY <1>4, <1>5 DEF Store

LEMMA MissStep ==
  ASSUME TablesInv, TablesInv', ClientInv, AnswersInv, WalkInv, DuringInv, MissInv, [Next]_vars
  PROVE  MissInv'
<1>1. ASSUME ~Reading, Commits
      PROVE  MissInv'
  <2>1. UNCHANGED <<task, walk, during>> /\ Reading' = Reading
    BY <1>1, CommitClient DEF client
  <2> QED
    BY <1>1, <2>1 DEF MissInv, Walking, WalkMissesFew
<1>2. ASSUME Reading, NEW a \in Attacks, Store(a)
      PROVE  MissInv'
  <2>1. Reading' /\ task' = task
    BY <1>2, CommitClient DEF Commits, client
  <2>2. /\ during'.wiped = during.wiped /\ during'.tied = during.tied
    BY <1>2 DEF Store, OpensIncident, JoinsIncident, Observe, DuringInv
  <2>3. Walking' => WalkSoFar'
    BY <1>2, <2>1, <2>2, WalkStore DEF MissInv, Walking
  <2> QED
    BY <2>1, <2>3 DEF MissInv, WalkMissesFew
<1>3. ASSUME Reading, NEW D, Wipe(D)
      PROVE  MissInv'
  <2>1. during'.wiped
    BY <1>3 DEF Wipe, Observe, DuringInv
  <2> QED
    BY <2>1 DEF MissInv, Walking, WalkMissesFew
<1>4. CASE Begins
  <2>1. task' \in Lists => WalkSoFar' /\ Reading'
    BY <1>4, WalkBegin
  <2> QED
    BY <2>1 DEF MissInv, Walking, WalkMissesFew
<1>5. ASSUME NEW n \in ids, LookUp(n)
      PROVE  MissInv'
  <2>1. UNCHANGED <<task, during>> /\ Reading /\ ids # {}
    BY <1>5 DEF LookUp, Reading
  <2>2. ~Walking
    BY <2>1 DEF MissInv, WalkSoFar
  <2>3. ~(task \in Lists /\ ~during.wiped /\ ~during.tied)
    BY <2>1, <2>2 DEF Walking
  <2> QED
    BY <2>1, <2>3 DEF MissInv, Walking, WalkMissesFew
<1>6. CASE Execute
  <2>1. task' = task /\ during'.wiped = during.wiped /\ during'.tied = during.tied /\ Reading
    BY <1>6 DEF Execute, DuringInv, Reading
  <2>2. Walking => WalkSoFar' /\ Reading'
    BY <1>6, WalkExecute DEF MissInv, Walking
  <2>3. task' \in Lists /\ ~during'.wiped /\ ~during'.tied => Walking
    BY <2>1 DEF Walking
  <2> QED
    BY <2>2, <2>3 DEF MissInv, Walking, WalkMissesFew
<1>7. CASE FetchPage
  <2>1. /\ task' = task /\ during'.wiped = during.wiped /\ Reading
        /\ ~during'.tied => ~during.tied
    BY <1>7 DEF FetchPage, DuringInv, Reading
  <2>2. CASE task' \in Lists /\ ~during'.wiped /\ ~during'.tied
    <3>1. Walking /\ WalkSoFar
      BY <2>1, <2>2 DEF MissInv, Walking
    <3>2. /\ HasNext => WalkSoFar' /\ Reading'
          /\ ~HasNext => /\ ~Reading'
                         /\ Cardinality(walk'.before \ walk'.seen) <= during'.moved + during'.late
      BY <1>7, <2>2, <3>1, WalkPage DEF Walking
    <3> QED
      BY <3>2 DEF MissInv, Walking, WalkMissesFew
  <2>3. CASE ~(task' \in Lists /\ ~during'.wiped /\ ~during'.tied)
    BY <2>3 DEF MissInv, Walking, WalkMissesFew
  <2> QED
    BY <2>2, <2>3
<1>8. CASE UNCHANGED vars
  <2>1. /\ UNCHANGED <<task, todo, answers, walk, ids, during, incident_of, incidents>>
        /\ Reading' = Reading
    BY <1>8 DEF vars, tables, client, Reading
  <2>2. Rows(task)' = Rows(task) /\ Keys' = Keys /\ Offset' = Offset
    BY <2>1 DEF Rows, Keys, Key, Offset, stored, max_risk_score
  <2>3. Walking' = Walking /\ WalkMissesFew' = WalkMissesFew
    BY <2>1 DEF Walking, WalkMissesFew
  <2>4. WalkSoFar => WalkSoFar'
    BY <2>1, <2>2 DEF WalkSoFar, Missed
  <2> QED
    BY <2>3, <2>4 DEF MissInv
<1> QED
  BY <1>1, <1>2, <1>3, <1>4, <1>5, <1>6, <1>7, <1>8, NextCases DEF Commits

---------------------------------------------------------------------------
(* The theorems.                                                           *)

\* Only a statement changes what was answered, and only the beginning of a
\* task forgives what the observer saw.
LEMMA AnswersFrame ==
  ASSUME TablesInv, DuringInv, [Next]_vars
  PROVE  \/ Execute
         \/ DOMAIN answers' \subseteq {"id"}
         \/ /\ answers' = answers
            /\ during.wiped => during'.wiped
            /\ during.lost => during'.lost
<1>1. Begins => DOMAIN answers' \subseteq {"id"}
  <2>1. Begins => answers' = <<>>
    BY DEF Begins, Begin
  <2> QED
    BY <2>1
<1>2. ASSUME NEW n \in ids, LookUp(n)
      PROVE  DOMAIN answers' \subseteq {"id"}
  <2>1. answers' = [id |-> n]
    BY <1>2 DEF LookUp
  <2> QED
    BY <2>1
<1>3. Commits \/ FetchPage \/ UNCHANGED vars => answers' = answers
  BY CommitClient DEF FetchPage, vars, client
<1> QED
  BY <1>1, <1>2, <1>3, NextCases, DuringStep

LEMMA NumbersStep ==
  ASSUME TablesInv, ClientInv, AnswersInv, DuringInv, OrderInv, AgreeInv, NumbersAgree, [Next]_vars
  PROVE  NumbersAgree'
<1>1. CASE DOMAIN answers' \subseteq {"id"}
  BY <1>1 DEF NumbersAgree, Known
<1>2. CASE answers' = answers /\ (during.wiped => during'.wiped) /\ (during.lost => during'.lost)
  BY <1>2 DEF NumbersAgree, Known
<1>3. ASSUME Execute, ~during'.wiped
      PROVE  NumbersAgree'
  <2> DEFINE h == Head(todo)
  <2>1. /\ todo # <<>> /\ h = todo[1] /\ 1 \in 1..Len(todo)
        /\ DOMAIN answers' = DOMAIN answers \cup {h}
        /\ answers'[h] = Result(h)
        /\ \A s \in DOMAIN answers : s # h => answers'[s] = answers[s]
    BY <1>3, ExecuteEffect
  <2>2. ~during.wiped /\ during'.lost = during.lost /\ Reading
    BY <1>3, <2>1 DEF Execute, DuringInv, Reading
  <2> HIDE DEF h
  <2>3. \A x, y : InOrder(x, y) /\ h = x => y \notin DOMAIN answers
    BY <2>1 DEF InOrder
  <2>4. ASSUME "top_country" \in DOMAIN answers', "total_attacks" \in DOMAIN answers',
               answers'["top_country"]
        PROVE  answers'["total_attacks"] > 0
    <3>1. h # "top_country"
      BY <2>1, <2>3, <2>4 DEF OrderInv
    <3>2. stored # {} => Result("total_attacks") > 0
      <4>1. Result("total_attacks") = Cardinality(stored)
        BY DEF Result
      <4>2. IsFiniteSet(stored) /\ Cardinality(stored) \in Nat
        BY Counting DEF TablesInv
      <4> QED
        BY <4>1, <4>2, FS_EmptySet
    <3>3. CASE h = "total_attacks"
      BY <2>1, <2>2, <2>4, <3>2, <3>3 DEF AgreeInv
    <3>4. CASE h # "total_attacks"
      BY <2>1, <2>2, <2>4, <3>1, <3>4 DEF NumbersAgree, Known
    <3> QED
      BY <3>3, <3>4
  <2>5. ASSUME "total_attacks" \in DOMAIN answers', "total_incidents" \in DOMAIN answers',
               answers'["total_attacks"] > 0
        PROVE  answers'["total_incidents"] > 0
    <3>1. h # "total_attacks"
      BY <2>1, <2>3, <2>5 DEF OrderInv
    <3>2. stored # {} => Result("total_incidents") > 0
      <4>1. Result("total_incidents") = Cardinality(DOMAIN incidents)
        BY DEF Result
      <4>2. IsFiniteSet(DOMAIN incidents) /\ Cardinality(DOMAIN incidents) \in Nat
        BY Counting DEF TablesInv
      <4>3. stored # {} => DOMAIN incidents # {}
        BY DEF TablesInv
      <4> QED
        BY <4>1, <4>2, <4>3, FS_EmptySet
    <3>3. CASE h = "total_incidents"
      BY <2>1, <2>2, <2>5, <3>2, <3>3 DEF AgreeInv
    <3>4. CASE h # "total_incidents"
      BY <2>1, <2>2, <2>5, <3>1, <3>4 DEF NumbersAgree, Known
    <3> QED
      BY <3>3, <3>4
  <2>6. ASSUME "total_attacks" \in DOMAIN answers', "unique_ips" \in DOMAIN answers',
               answers'["total_attacks"] > 0
        PROVE  answers'["unique_ips"] > 0
    <3>1. h # "total_attacks"
      BY <2>1, <2>3, <2>6 DEF OrderInv
    <3>2. stored # {} => Result("unique_ips") > 0
      <4> DEFINE ips == {Source[a] : a \in stored}
      <4>1. Result("unique_ips") = Cardinality(ips)
        BY DEF Result
      <4>2. IsFiniteSet(ips) /\ Cardinality(ips) \in Nat
        BY Counting
      <4>3. stored # {} => ips # {}
        OBVIOUS
      <4> HIDE DEF ips
      <4> QED
        BY <4>1, <4>2, <4>3, FS_EmptySet
    <3>3. CASE h = "unique_ips"
      BY <2>1, <2>2, <2>6, <3>2, <3>3 DEF AgreeInv
    <3>4. CASE h # "unique_ips"
      BY <2>1, <2>2, <2>6, <3>1, <3>4 DEF NumbersAgree, Known
    <3> QED
      BY <3>3, <3>4
  <2>7. ASSUME "critical_incidents" \in DOMAIN answers', "high_risk_incidents" \in DOMAIN answers',
               ~during'.lost
        PROVE  answers'["critical_incidents"] <= answers'["high_risk_incidents"]
    <3>1. h # "critical_incidents"
      BY <2>1, <2>3, <2>7 DEF OrderInv
    <3>2. Result("high_risk_incidents") = IncidentsAbove(70)
      BY DEF Result
    <3>3. CASE h = "high_risk_incidents"
      BY <2>1, <2>2, <2>7, <3>1, <3>2, <3>3 DEF AgreeInv
    <3>4. CASE h # "high_risk_incidents"
      BY <2>1, <2>2, <2>7, <3>1, <3>4 DEF NumbersAgree, Known
    <3> QED
      BY <3>3, <3>4
  <2>8. ASSUME "by_level" \in DOMAIN answers', "by_bucket" \in DOMAIN answers', NEW l \in Levels
        PROVE  answers'["by_level"][l] <= answers'["by_bucket"][l]
    <3>1. h # "by_level"
      BY <2>1, <2>3, <2>8 DEF OrderInv
    <3>2. Result("by_bucket") = by_bucket
      BY DEF Result
    <3>3. CASE h = "by_bucket"
      BY <2>1, <2>2, <2>8, <3>1, <3>2, <3>3 DEF AgreeInv
    <3>4. CASE h # "by_bucket"
      BY <2>1, <2>2, <2>8, <3>1, <3>4 DEF NumbersAgree, Known
    <3> QED
      BY <3>3, <3>4
  <2> QED
    BY <2>4, <2>5, <2>6, <2>7, <2>8 DEF NumbersAgree, Known
<1>4. during'.wiped => NumbersAgree'
  BY DEF NumbersAgree
<1> QED
  BY <1>1, <1>2, <1>3, <1>4, AnswersFrame

LEMMA DetailsStep ==
  ASSUME TablesInv, ClientInv, DuringInv, OrderInv, AgreeInv, DetailsAgree, [Next]_vars
  PROVE  DetailsAgree'
<1>1. CASE DOMAIN answers' \subseteq {"id"}
  BY <1>1 DEF DetailsAgree, Known
<1>2. CASE answers' = answers /\ (during.wiped => during'.wiped) /\ (during.lost => during'.lost)
  BY <1>2 DEF DetailsAgree, Known
<1>3. ASSUME Execute, ~during'.wiped
      PROVE  DetailsAgree'
  <2> DEFINE h == Head(todo)
  <2>1. /\ todo # <<>> /\ h = todo[1] /\ 1 \in 1..Len(todo)
        /\ DOMAIN answers' = DOMAIN answers \cup {h}
        /\ answers'[h] = Result(h)
        /\ \A s \in DOMAIN answers : s # h => answers'[s] = answers[s]
    BY <1>3, ExecuteEffect
  <2>2. ~during.wiped /\ Reading
    BY <1>3, <2>1 DEF Execute, DuringInv, Reading
  <2>3. ToCome(h)
    BY <2>1 DEF ToCome
  <2> HIDE DEF h
  <2>4. CASE h = "row"
    <3>1. "id" \in DOMAIN answers /\ answers["id"] \in DOMAIN incidents
      BY <2>2, <2>3, <2>4 DEF AgreeInv
    <3>2. Result("row") = incidents[answers["id"]].counted
      BY <3>1 DEF Result
    <3>3. incidents[answers["id"]].counted \in SUBSET Attacks
      BY <3>1 DEF TablesInv, Related
    <3>4. answers'["row"] # None
      BY <2>1, <2>4, <3>2, <3>3, NoneAssumption DEF NoneAssumption
    <3>5. "related_attacks" \notin DOMAIN answers'
      BY <2>1, <2>4 DEF OrderInv, InOrder
    <3> QED
      BY <3>4, <3>5 DEF DetailsAgree, Known
  <2>5. CASE h = "related_attacks"
    <3>1. Result("related_attacks") = Related(answers["id"])
      BY DEF Result
    <3>2. "row" \in DOMAIN answers =>
            answers["row"] # None /\ answers["row"] \subseteq Related(answers["id"])
      BY <2>2 DEF AgreeInv, DetailsAgree, Known
    <3> QED
      BY <2>1, <2>5, <3>1, <3>2 DEF DetailsAgree, Known
  <2>6. CASE h \notin {"row", "related_attacks"}
    BY <2>1, <2>2, <2>6 DEF DetailsAgree, Known
  <2> QED
    BY <2>4, <2>5, <2>6
<1>4. during'.wiped => DetailsAgree'
  BY DEF DetailsAgree
<1> QED
  BY <1>1, <1>2, <1>3, <1>4, AnswersFrame

IInv == TypeInv /\ OrderInv /\ AgreeInv /\ MissInv /\ NumbersAgree /\ DetailsAgree

LEMMA InitInv == Init => IInv
<1> SUFFICES ASSUME Init PROVE IInv
  OBVIOUS
<1>1. DOMAIN incident_of = {} /\ DOMAIN incidents = {} /\ DOMAIN answers = {}
  BY DEF Init
<1>2. TablesInv
  BY <1>1 DEF Init, TablesInv, stored
<1>3. ClientInv
  BY <1>1, EmptySeq DEF Init, ClientInv
<1>4. AnswersInv
  BY <1>1 DEF AnswersInv
<1>5. WalkInv
  BY DEF Init, WalkInv, Walks, NoWalk
<1>6. DuringInv
  BY DEF Init, DuringInv, Quiet
<1>7. OrderInv
  BY <1>1 DEF Init, OrderInv, InOrder
<1>8. AgreeInv
  BY DEF Init, AgreeInv, Reading
<1>9. NumbersAgree /\ DetailsAgree
  BY <1>1 DEF NumbersAgree, DetailsAgree, Known
<1>10. MissInv
  <2>1. ~Reading /\ walk.before \ walk.seen = {} /\ during.moved + during.late = 0
    BY DEF Init, Reading, NoWalk, Quiet
  <2>2. Cardinality({}) = 0
    BY FS_EmptySet
  <2> QED
    BY <2>1, <2>2 DEF MissInv, Walking, WalkMissesFew
<1> QED
  BY <1>2, <1>3, <1>4, <1>5, <1>6, <1>7, <1>8, <1>9, <1>10 DEF IInv, TypeInv

LEMMA StepInv == IInv /\ [Next]_vars => IInv'
<1> SUFFICES ASSUME IInv, [Next]_vars PROVE IInv'
  OBVIOUS
<1> USE DEF IInv, TypeInv
<1>1. TablesInv' /\ ClientInv' /\ WalkInv' /\ DuringInv'
  BY TablesStep, ClientStep, WalkStep, DuringStep
<1>2. AnswersInv'
  BY AnswersStep
<1>3. OrderInv' /\ AgreeInv' /\ MissInv'
  BY <1>1, OrderStep, AgreeStep, MissStep
<1>4. NumbersAgree' /\ DetailsAgree'
  BY NumbersStep, DetailsStep
<1> QED
  BY <1>1, <1>2, <1>3, <1>4

\* The inductive invariant of the tables, the statements and the answers.
THEOREM Inductive == Spec => []IInv
BY InitInv, StepInv, PTL DEF Spec

\* The types of the tables, the walk and the answers.
THEOREM TypeCorrect == Spec => []TypeOK
<1>1. IInv => TypeOK
  <2> SUFFICES ASSUME IInv PROVE TypeOK
    OBVIOUS
  <2> USE DEF IInv, TypeInv
  <2>1. /\ stored \subseteq used /\ used \subseteq Attacks
        /\ \A a \in stored : incident_of[a] \in DOMAIN incidents
        /\ \A n \in DOMAIN incidents :
             incidents[n].counted \in (SUBSET Related(n)) \ {{}} /\ incidents[n].last_seen \in Nat
    BY DEF TablesInv
  <2>2. task \in Tasks \cup {None}
    BY DEF ClientInv
  <2>3. /\ ids \subseteq Attacks
        /\ walk.page \in Nat \ {0} /\ walk.seen \cup walk.before \subseteq Attacks
    BY DEF WalkInv, Walks
  <2>4. during.moved \in Nat /\ during.late \in Nat
    BY DEF DuringInv
  <2>5. Known({"top_country"}) => answers.top_country \in BOOLEAN
    BY DEF AnswersInv, Known
  <2>6. /\ \A s \in DOMAIN answers \cap Counts : answers[s] \in Nat
        /\ \A s \in DOMAIN answers \cap {"by_level", "by_bucket"} : answers[s] \in [Levels -> Nat]
        /\ Known({"row"}) => answers.row \in (SUBSET Attacks) \cup {None}
        /\ Known({"related_attacks"}) => answers.related_attacks \subseteq Attacks
    BY DEF AnswersInv, Known
  <2> QED
    BY <2>1, <2>2, <2>3, <2>4, <2>5, <2>6 DEF TypeOK, Counts
<1> QED
  BY <1>1, Inductive, PTL

\* Numbers of one answer, each from a moment of its own, do not contradict
\* each other, because of the order in which they are computed.
THEOREM NumbersOfOneAnswer == Spec => []NumbersAgree
<1>1. IInv => NumbersAgree
  BY DEF IInv
<1> QED
  BY <1>1, Inductive, PTL

\* A client that follows has_next to the end of a list misses no more rows than
\* were moved while it did, or added after the last count.
THEOREM WalkComplete == Spec => []WalkMissesFew
<1>1. IInv => WalkMissesFew
  BY DEF IInv, MissInv
<1> QED
  BY <1>1, Inductive, PTL

\* An incident's detail shows the attacks its totals count.
THEOREM DetailsComplete == Spec => []DetailsAgree
<1>1. IInv => DetailsAgree
  BY DEF IInv
<1> QED
  BY <1>1, Inductive, PTL

=============================================================================
