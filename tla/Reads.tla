------------------------------- MODULE Reads -------------------------------
(***************************************************************************)
(* What a client of the REST API reads while attacks are stored.  Every    *)
(* request opens one READ COMMITTED transaction (session_scope), so each   *)
(* of its statements sees what is committed when that statement starts:    *)
(* numbers of one answer, pages of one list and rows of one detail come    *)
(* from different moments.                                                 *)
(*                                                                         *)
(* The tables change by what Ingest and Reseed commit: Store is a commit   *)
(* of IngestPipeline.process, with what a lost update may do to an         *)
(* incident; Wipe is a commit of seed_demo_large --reset.  Demo data that  *)
(* is only added looks like several Stores.  A row is named by the attack  *)
(* that came with it, an incident by its first.  Closed incidents are left *)
(* out, and so are filters, which make a table smaller and nothing else.   *)
(***************************************************************************)
EXTENDS Integers, Sequences, FiniteSets, FiniteSetsExt

CONSTANTS
  Attacks,      \* attacks that may be stored
  Source,       \* of each attack: source_ip,
  Time,         \* timestamp,
  Score,        \* and risk_score
  Located,      \* attacks whose country is known
  PerPages,     \* page sizes that clients ask for
  ReportLimit,  \* ReportBuilder.incidents(limit)
  None          \* not asked yet, or no row

ASSUME AttacksAssumption == IsFiniteSet(Attacks) /\ Located \subseteq Attacks
ASSUME ColumnsAssumption ==
  /\ DOMAIN Source = Attacks
  /\ Time \in [Attacks -> Nat]
  /\ Score \in [Attacks -> 0..100]
ASSUME NoneAssumption == None \notin Nat /\ \A S \in SUBSET Attacks : None # S
ASSUME LimitsAssumption == PerPages \subseteq Nat \ {0} /\ ReportLimit \in Nat \ {0}

VARIABLES
  incident_of,  \* stored attacks, and the incident each is linked to
  incidents,    \* incident -> [counted |-> attacks in its totals, last_seen]
  used,         \* attacks that are or were stored: an id does not come back
  task,         \* what the client reads
  todo,         \* statements the request being answered has yet to execute
  answers,      \* what its statements returned
  walk,         \* the walk through the pages of a list
  ids,          \* incidents that a report has yet to look up
  during        \* observer: what was committed since the task began

tables == <<incident_of, incidents, used>>
client == <<task, todo, answers, walk, ids>>
vars == <<tables, client, during>>

---------------------------------------------------------------------------
stored == DOMAIN incident_of
max_risk_score(n) == Max({Score[a] : a \in incidents[n].counted})
Related(n) == {a \in stored : incident_of[a] = n}

Tasks == {"overview", "risk_distribution", "attacks", "incidents", "incident", "report"}
Lists == {"attacks", "incidents"}
Sorts(list) == IF list = "attacks" THEN {"timestamp", "risk_score"}
                                   ELSE {"last_seen", "max_risk_score"}
Levels == {"low", "medium", "high"}

\* moved: incidents updated; late: rows added since the last count(*); tied:
\* two rows had one sort key; lost: an update was lost; wiped: all was deleted.
Quiet == [moved |-> 0, late |-> 0, tied |-> FALSE, lost |-> FALSE, wiped |-> FALSE]
NoWalk == [sort |-> None, order |-> None, per_page |-> 1, page |-> 1, before |-> {}, seen |-> {}]

Init ==
  /\ incident_of = <<>>
  /\ incidents = <<>>
  /\ used = {}
  /\ task = None
  /\ todo = <<>>
  /\ answers = <<>>
  /\ walk = NoWalk
  /\ ids = {}
  /\ during = Quiet

---------------------------------------------------------------------------
(* Commits.                                                                *)

\* The client is between two statements.
Reading == todo # <<>> \/ ids # {}

\* The observer of a task, told what a commit did.
Observe(event) ==
  during' = IF Reading THEN event ELSE during

OpensIncident(a) ==
  /\ incidents' = [n \in DOMAIN incidents \cup {a} |->
       IF n = a THEN [counted |-> {a}, last_seen |-> Time[a]] ELSE incidents[n]]
  /\ incident_of' = [b \in stored \cup {a} |-> IF b = a THEN a ELSE incident_of[b]]
  /\ Observe([during EXCEPT !.late = IF task \in Lists THEN @ + 1 ELSE @])

\* The incident is updated, the attack is not linked to it.
JoinsIncident_Unlinked(a, n, dropped) ==
  /\ incidents' = [incidents EXCEPT
       ![n] = [counted |-> (@.counted \ dropped) \cup {a}, last_seen |-> Time[a]]]
  /\ incident_of' = [b \in stored \cup {a} |-> IF b = a THEN None ELSE incident_of[b]]
  /\ during' = during

\* The later of two writers drops what the earlier one counted.
JoinsIncident(a, n, dropped) ==
  /\ incidents' = [incidents EXCEPT
       ![n] = [counted |-> (@.counted \ dropped) \cup {a}, last_seen |-> Time[a]]]
  /\ incident_of' = [b \in stored \cup {a} |-> IF b = a THEN n ELSE incident_of[b]]
  /\ Observe([during EXCEPT !.moved = IF task = "incidents" THEN @ + 1 ELSE @,
                            !.late = IF task = "attacks" THEN @ + 1 ELSE @,
                            !.lost = @ \/ dropped # {}])

\* An incident of the source is joined; racing sessions may open another.
Store(a) ==
  /\ a \notin used
  /\ used' = used \cup {a}
  /\ \/ OpensIncident(a)
     \/ \E n \in DOMAIN incidents : \E dropped \in SUBSET (incidents[n].counted \ {n}) :
          Source[n] = Source[a] /\ JoinsIncident(a, n, dropped)
  /\ UNCHANGED client

\* Demo attacks D, an incident each, replace everything.
Wipe(D) ==
  /\ D \cap used = {}
  /\ stored # {}
  /\ used' = used \cup D
  /\ incident_of' = [a \in D |-> a]
  /\ incidents' = [n \in D |-> [counted |-> {n}, last_seen |-> Time[n]]]
  /\ Observe([during EXCEPT !.wiped = TRUE])
  /\ UNCHANGED client

---------------------------------------------------------------------------
(* The statements of the requests, in the order they are executed.         *)

\* The two counts of high risks the other way round.
Statements_HighFirst(request) ==
  CASE request = "overview" ->
         <<"top_country", "total_attacks", "total_incidents", "active_incidents",
           "high_risk_incidents", "critical_incidents", "unique_ips">>
    [] request = "risk_distribution" -> <<"by_level", "by_bucket">>
    [] request \in {"incident", "report"} -> <<"row", "related_attacks">>
    [] request \in Lists -> <<"count", "rows">>

\* The attacks of an incident before the incident.
Statements_AttacksFirst(request) ==
  CASE request = "overview" ->
         <<"top_country", "total_attacks", "total_incidents", "active_incidents",
           "critical_incidents", "high_risk_incidents", "unique_ips">>
    [] request = "risk_distribution" -> <<"by_level", "by_bucket">>
    [] request \in {"incident", "report"} -> <<"related_attacks", "row">>
    [] request \in Lists -> <<"count", "rows">>

Statements(request) ==
  CASE request = "overview" ->
         <<"top_country", "total_attacks", "total_incidents", "active_incidents",
           "critical_incidents", "high_risk_incidents", "unique_ips">>
    [] request = "risk_distribution" -> <<"by_level", "by_bucket">>
    [] request \in {"incident", "report"} -> <<"row", "related_attacks">>
    [] request \in Lists -> <<"count", "rows">>

risk_level(a) == IF Score[a] > 70 THEN "high" ELSE IF Score[a] > 30 THEN "medium" ELSE "low"

\* The ten buckets of the histogram by the level they lie in.
Buckets == [low |-> 0..30, medium |-> 31..70, high |-> 71..100]

by_level == [l \in Levels |-> Cardinality({a \in stored : risk_level(a) = l})]
by_bucket == [l \in Levels |-> Cardinality({a \in stored : Score[a] \in Buckets[l]})]

Rows(list) == IF list = "attacks" THEN stored ELSE DOMAIN incidents

IncidentsAbove(score) == Cardinality({n \in DOMAIN incidents : max_risk_score(n) > score})

\* What statement s returns.
Result(s) ==
  CASE s = "top_country"         -> stored \cap Located # {}
    [] s = "total_attacks"       -> Cardinality(stored)
    [] s = "total_incidents"     -> Cardinality(DOMAIN incidents)
    [] s = "active_incidents"    -> Cardinality(DOMAIN incidents)
    [] s = "critical_incidents"  -> IncidentsAbove(89)
    [] s = "high_risk_incidents" -> IncidentsAbove(70)
    [] s = "unique_ips"          -> Cardinality({Source[a] : a \in stored})
    [] s = "by_level"            -> by_level
    [] s = "by_bucket"           -> by_bucket
    [] s = "count"               -> Cardinality(Rows(task))
    [] s = "row"                 -> IF answers.id \in DOMAIN incidents THEN incidents[answers.id].counted ELSE None
    [] s = "related_attacks"     -> Related(answers.id)

Key(sort, r) ==
  CASE sort = "timestamp"      -> Time[r]
    [] sort = "risk_score"     -> Score[r]
    [] sort = "last_seen"      -> incidents[r].last_seen
    [] sort = "max_risk_score" -> max_risk_score(r)

\* ORDER BY sort order LIMIT n: what it may return, as rows with the same key
\* come in any order.
FirstRows(rows, sort, order, n) ==
  LET Precedes(r, q) == IF order = "asc" THEN Key(sort, r) <= Key(sort, q)
                                         ELSE Key(sort, r) >= Key(sort, q)
  IN  {B \in SUBSET rows : /\ Cardinality(B) = Min({n, Cardinality(rows)})
                           /\ \A b \in B, r \in rows \ B : Precedes(b, r)}

\* ... with OFFSET offset.
Pages(rows, sort, order, offset, limit) ==
  UNION {FirstRows(rows \ B, sort, order, limit) : B \in FirstRows(rows, sort, order, offset)}

---------------------------------------------------------------------------
(* The client.                                                             *)

\* A task begins when the one before has ended: at the first statement of its
\* first request.
Begin(t, w, n) ==
  /\ ~Reading
  /\ task' = t
  /\ todo' = IF n = {} THEN Statements(t) ELSE <<>>
  /\ walk' = w
  /\ ids' = n
  /\ answers' = <<>>
  /\ during' = Quiet
  /\ UNCHANGED tables

\* GET /stats and GET /risk-distribution.
AskNumbers == \E t \in {"overview", "risk_distribution"} : Begin(t, NoWalk, {})

\* A list, from its first page on.
AskList ==
  \E list \in Lists, order \in {"asc", "desc"}, per_page \in PerPages :
    \E sort \in Sorts(list) :
      Begin(list, [sort |-> sort, order |-> order, per_page |-> per_page, page |-> 1,
                   before |-> Rows(list), seen |-> {}], {})

\* GET /incidents/<id>, for an id the client has seen.
AskIncident == \E n \in DOMAIN incidents : Begin("incident", NoWalk, {n})

\* GET /reports/incidents, if there is any: its first transaction selects the ids ...
AskReport ==
  \E n \in Pages(DOMAIN incidents, "max_risk_score", "desc", 0, ReportLimit) \ {{}} :
    Begin("report", NoWalk, n)

\* ... and each is looked up in a transaction of its own.
LookUp(n) ==
  /\ todo = <<>>
  /\ n \in ids
  /\ ids' = ids \ {n}
  /\ todo' = Statements(task)
  /\ answers' = [id |-> n]
  /\ UNCHANGED <<tables, task, walk, during>>

\* A statement with one result.  Without its incident a detail is a 404, and
\* so is the report it was for.
Execute ==
  /\ todo # <<>> /\ Head(todo) # "rows"
  /\ LET result == Result(Head(todo)) IN
       /\ answers' = [s \in DOMAIN answers \cup {Head(todo)} |->
                        IF s = Head(todo) THEN result ELSE answers[s]]
       /\ IF result = None THEN todo' = <<>> /\ ids' = {}
                           ELSE todo' = Tail(todo) /\ ids' = ids
  /\ during' = [during EXCEPT !.late = IF Head(todo) = "count" THEN 0 ELSE @]
  /\ UNCHANGED <<tables, task, walk>>

\* Pages counted from zero.
Offset_FromZero == walk.page * walk.per_page

Offset == (walk.page - 1) * walk.per_page

\* paginated(): has_next, as the client uses it.
HasNext == walk.page < (answers["count"] + walk.per_page - 1) \div walk.per_page

\* The page itself, and the next request if there is a next page.
FetchPage ==
  /\ todo = <<"rows">>
  /\ \E rows \in Pages(Rows(task), walk.sort, walk.order, Offset, walk.per_page) :
       walk' = [walk EXCEPT !.seen = @ \cup rows, !.page = IF HasNext THEN @ + 1 ELSE @]
  /\ todo' = IF HasNext THEN Statements(task) ELSE <<>>
  /\ during' = [during EXCEPT !.tied = @ \/
       \E r, q \in Rows(task) : r # q /\ Key(walk.sort, r) = Key(walk.sort, q)]
  /\ UNCHANGED <<tables, task, answers, ids>>

---------------------------------------------------------------------------
Next ==
  \/ \E a \in Attacks : Store(a)
  \/ \E D \in (SUBSET Attacks) \ {{}} : Wipe(D)
  \/ AskNumbers
  \/ AskList
  \/ AskIncident
  \/ AskReport
  \/ \E n \in ids : LookUp(n)
  \/ Execute
  \/ FetchPage

Spec == Init /\ [][Next]_vars

---------------------------------------------------------------------------
(* Properties.                                                             *)

Known(statements) == statements \subseteq DOMAIN answers

\* The types, among them the foreign key of an attack and totals that count
\* only attacks of the incident.
TypeOK ==
  /\ stored \subseteq used /\ used \subseteq Attacks
  /\ \A a \in stored : incident_of[a] \in DOMAIN incidents
  /\ \A n \in DOMAIN incidents :
       incidents[n].counted \in (SUBSET Related(n)) \ {{}} /\ incidents[n].last_seen \in Nat
  /\ task \in Tasks \cup {None}
  /\ ids \subseteq Attacks
  /\ walk.page \in Nat \ {0} /\ walk.seen \cup walk.before \subseteq Attacks
  /\ Known({"top_country"}) => answers.top_country \in BOOLEAN
  /\ \A s \in DOMAIN answers \cap
       {"count", "total_attacks", "total_incidents", "active_incidents",
        "critical_incidents", "high_risk_incidents", "unique_ips"} : answers[s] \in Nat
  /\ \A s \in DOMAIN answers \cap {"by_level", "by_bucket"} : answers[s] \in [Levels -> Nat]
  /\ Known({"row"}) => answers.row \in (SUBSET Attacks) \cup {None}
  /\ Known({"related_attacks"}) => answers.related_attacks \subseteq Attacks
  /\ during.moved \in Nat /\ during.late \in Nat

\* The numbers of one answer, each from a moment of its own, never show a top
\* country of no attacks, attacks without an incident or a source, more critical
\* than high-risk incidents (unless an update of one was lost meanwhile), or more
\* attacks of a level than in its part of the histogram.  overview() and
\* risk_distribution() owe this to the order of their statements; active_incidents,
\* which comes after total_incidents, may exceed it.
NumbersAgree ==
  ~during.wiped =>
    /\ Known({"top_country", "total_attacks"}) /\ answers.top_country => answers.total_attacks > 0
    /\ Known({"total_attacks", "total_incidents"}) /\ answers.total_attacks > 0 => answers.total_incidents > 0
    /\ Known({"total_attacks", "unique_ips"}) /\ answers.total_attacks > 0 => answers.unique_ips > 0
    /\ Known({"critical_incidents", "high_risk_incidents"}) /\ ~during.lost =>
         answers.critical_incidents <= answers.high_risk_incidents
    /\ Known({"by_level", "by_bucket"}) =>
         \A l \in Levels : answers.by_level[l] <= answers.by_bucket[l]

\* A client that follows has_next to the end of a list misses few of the rows
\* that were there when it began, though pages are cut by offset from a table
\* that changes: at most one for each incident that an ingest updated meanwhile,
\* and one for each row added between the last count and its page.  It misses
\* no attack otherwise.  Nothing is said if rows tie, as no column breaks ties.
WalkMissesFew ==
  (task \in Lists /\ ~Reading /\ ~during.wiped /\ ~during.tied) =>
    Cardinality(walk.before \ walk.seen) <= during.moved + during.late

\* An incident's detail shows an attack for all that its totals count, though
\* the attacks are read after the incident, and an incident once shown is found
\* (the report fails as a whole if one of its incidents is not): unless a reset
\* of the demo data came in between.
DetailsAgree ==
  ~during.wiped =>
    /\ Known({"row"}) => answers.row # None
    /\ Known({"row", "related_attacks"}) => answers.row \subseteq answers.related_attacks
=============================================================================
