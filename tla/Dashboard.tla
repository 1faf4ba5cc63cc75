----------------------------- MODULE Dashboard -----------------------------
(***************************************************************************)
(* From a stored attack to the analyst's screen.  The honeypot posts each  *)
(* stored attack to the backend; one handler thread per post               *)
(* (api/realtime.py ingest_event) emits new_attack, recomputes and emits   *)
(* stats_update, then emits incident_update.  The browser                  *)
(* (dashboard.js, socket.js, api.js) loads all panels over REST, then      *)
(* connects its socket and applies what arrives.                           *)
(*                                                                         *)
(* Attacks are numbered by their timestamp; they may be stored in another  *)
(* order.  What a query returns is a function of the attacks stored when   *)
(* it runs, so an answer is the set of attacks it knew of.  The panel      *)
(* "alerts" stands for the commands table too, which has the same life.    *)
(***************************************************************************)
EXTENDS Naturals, Sequences, FiniteSets, SequencesExt

CONSTANTS
  Attacks,      \* attack numbers
  Panels,       \* the panels of the page that are modelled
  RecentLimit,  \* rows of the initial feed, 25
  FeedLimit,    \* rows the live feed keeps, 40
  MaxFailed,    \* bound: stale panels after a failure; 0: no request or count fails
  MaxWire,      \* bound: messages on their way
  MaxRequests   \* bound: requests of one panel without an answer

ASSUME AttacksAssumption == Attacks \subseteq Nat /\ IsFiniteSet(Attacks)
ASSUME LimitAssumption == RecentLimit \in Nat \ {0} /\ FeedLimit \in Nat /\ RecentLimit <= FeedLimit
ASSUME PanelsAssumption == Panels \subseteq {"stats", "charts", "alerts", "incidents"}
ASSUME BoundsAssumption ==
  MaxFailed \in Nat /\ MaxWire \in Nat \ {0} /\ MaxRequests \in Nat \ {0}

VARIABLES
  stored,     \* attacks committed to the database
  event,      \* where the handler thread of an attack's event is
  counters,   \* what a handler's overview() counted
  wire,       \* socket messages on their way to the browser
  page,       \* the browser's page
  inflight,   \* per panel, its requests without an answer, oldest first
  feed,       \* feedItems, newest first
  shown,      \* per panel, the attacks its content reflects
  timer,      \* the chart refresh is scheduled
  checking,   \* a request for the status lights has no answer yet
  announced,  \* observer: attacks emitted to the present connection
  late,       \* observer: per panel, how many of its requests without an answer
              \* are older than one that is over
  stale       \* observer: panels that do not show the answer of their newest
              \* request that is over: it failed, or a late answer replaced it

backendVars == <<stored, event, counters>>
browserVars == <<page, inflight, feed, shown, timer, checking, late, stale>>
vars == <<backendVars, browserVars, wire, announced>>

---------------------------------------------------------------------------
Events == {"none", "received", "count", "stats", "incident", "done"}
Pages == {"closed", "loading", "failed", "offline", "live"}

Loads == Panels \cup {"feed"}
\* Loads whose function catches the failure of its request.
Guarded == {"stats", "charts"}

Message == [type : {"new_attack", "stats_update", "incident_update"},
            attack : Attacks, counted : SUBSET Attacks]
Request == [served : BOOLEAN, known : SUBSET Attacks]

NewRequest == [served |-> FALSE, known |-> {}]
Connected == page \in {"live", "offline"}

\* The browser has nothing left of a page.
Blank ==
  /\ inflight' = [p \in Loads |-> <<>>]
  /\ feed' = <<>>
  /\ shown' = [p \in Panels |-> {}]
  /\ timer' = FALSE
  /\ checking' = FALSE
  /\ late' = [p \in Loads |-> 0]
  /\ stale' = {}
  /\ wire' = <<>>
  /\ announced' = {}

Init ==
  /\ stored = {}
  /\ event = [a \in Attacks |-> "none"]
  /\ counters = [a \in Attacks |-> {}]
  /\ page = "closed"
  /\ inflight = [p \in Loads |-> <<>>]
  /\ feed = <<>>
  /\ shown = [p \in Panels |-> {}]
  /\ timer = FALSE
  /\ checking = FALSE
  /\ late = [p \in Loads |-> 0]
  /\ stale = {}
  /\ wire = <<>>
  /\ announced = {}

---------------------------------------------------------------------------
(* Honeypot and backend.                                                   *)

\* The ingest pipeline commits an attack (Ingest!Commit).
Store(a) ==
  /\ a \notin stored
  /\ stored' = stored \cup {a}
  /\ UNCHANGED <<event, counters, browserVars, wire, announced>>

\* A publisher that posts again when the answer is late.
Post_Retries(a) ==
  /\ a \in stored
  /\ event[a] \in {"none", "stats"}
  /\ event' = [event EXCEPT ![a] = "received"]
  /\ UNCHANGED <<stored, counters, browserVars, wire, announced>>

\* RealtimePublisher.publish: at most one post, after the commit.
Post(a) ==
  /\ a \in stored
  /\ event[a] = "none"
  /\ event' = [event EXCEPT ![a] = "received"]
  /\ UNCHANGED <<stored, counters, browserVars, wire, announced>>

\* The post does not get through, or its token is refused.
PostFails(a) ==
  /\ a \in stored
  /\ event[a] = "none"
  /\ event' = [event EXCEPT ![a] = "done"]
  /\ UNCHANGED <<stored, counters, browserVars, wire, announced>>

\* socketio.emit: a broadcast to the clients connected now, without replay.
Emit(m) ==
  /\ Len(wire) < MaxWire
  /\ wire' = IF page = "live" THEN Append(wire, m) ELSE wire

EmitNewAttack(a) ==
  /\ event[a] = "received"
  /\ event' = [event EXCEPT ![a] = "count"]
  /\ Emit([type |-> "new_attack", attack |-> a, counted |-> {}])
  /\ announced' = IF page = "live" THEN announced \cup {a} ELSE announced
  /\ UNCHANGED <<stored, counters, browserVars>>

\* Counters shared with a handler that is about to send its own.
Overview_Cached(a) ==
  /\ event[a] = "count"
  /\ event' = [event EXCEPT ![a] = "stats"]
  /\ counters' = [counters EXCEPT ![a] =
       IF \E b \in Attacks : event[b] = "stats"
       THEN counters[CHOOSE b \in Attacks : event[b] = "stats"] ELSE stored]
  /\ UNCHANGED <<stored, browserVars, wire, announced>>

\* StatsService.overview of the handler's own database session.
Overview(a) ==
  /\ event[a] = "count"
  /\ event' = [event EXCEPT ![a] = "stats"]
  /\ counters' = [counters EXCEPT ![a] = stored]
  /\ UNCHANGED <<stored, browserVars, wire, announced>>

EmitStatsUpdate(a) ==
  /\ event[a] = "stats"
  /\ event' = [event EXCEPT ![a] = "incident"]
  /\ Emit([type |-> "stats_update", attack |-> a, counted |-> counters[a]])
  /\ counters' = [counters EXCEPT ![a] = {}]
  /\ UNCHANGED <<stored, browserVars, announced>>

\* overview() raises: logged, and the handler goes on.
OverviewFails(a) ==
  /\ MaxFailed > 0
  /\ event[a] = "count"
  /\ event' = [event EXCEPT ![a] = "incident"]
  /\ UNCHANGED <<stored, counters, browserVars, wire, announced>>

EmitIncidentUpdate(a) ==
  /\ event[a] = "incident"
  /\ event' = [event EXCEPT ![a] = "done"]
  /\ Emit([type |-> "incident_update", attack |-> a, counted |-> {}])
  /\ UNCHANGED <<stored, counters, browserVars, announced>>

\* get_summary raises or finds nothing: nothing is emitted.
SummaryFails(a) ==
  /\ event[a] = "incident"
  /\ event' = [event EXCEPT ![a] = "done"]
  /\ UNCHANGED <<stored, counters, browserVars, wire, announced>>

---------------------------------------------------------------------------
(* The page: REST requests.                                                *)

\* init(): every panel is requested at once.
OpenPage ==
  /\ page = "closed"
  /\ page' = "loading"
  /\ inflight' = [p \in Loads |-> <<NewRequest>>]
  /\ late' = [p \in Loads |-> 0]
  /\ checking' = TRUE
  /\ UNCHANGED <<backendVars, feed, shown, timer, stale, wire, announced>>

\* The analyst leaves the page, or a 401 sends the browser to /login.
ClosePage ==
  /\ page # "closed"
  /\ page' = "closed"
  /\ Blank
  /\ UNCHANGED backendVars

\* A panel that is not modelled has no requests.
Ask(p) ==
  IF p \in Panels
  THEN /\ Len(inflight[p]) < MaxRequests
       /\ inflight' = [inflight EXCEPT ![p] = Append(@, NewRequest)]
  ELSE UNCHANGED inflight

\* The backend runs the query of a request.
Serve(p, k) ==
  /\ k \in DOMAIN inflight[p]
  /\ ~inflight[p][k].served
  /\ inflight' = [inflight EXCEPT ![p] =
       [@ EXCEPT ![k] = [served |-> TRUE, known |-> stored]]]
  /\ UNCHANGED <<backendVars, page, feed, shown, timer, checking, late, stale, wire, announced>>

\* A request is over.  Nothing orders the answers of a panel: it may be one
\* that an answer to a newer request has overtaken.
Overtaken(p, k) == k <= late[p]

Over(p, k) ==
  /\ k \in DOMAIN inflight[p]
  /\ inflight' = [inflight EXCEPT ![p] = RemoveAt(@, k)]
  /\ late' = [late EXCEPT ![p] = IF Overtaken(p, k) THEN @ - 1 ELSE k - 1]

\* The RecentLimit latest of some attacks (numbered by their timestamp).
Latest(rows) == {a \in rows : Cardinality({b \in rows : b > a}) < RecentLimit}

\* /recent: the latest attacks, newest first (the one such sequence).
Recent(rows) ==
  {f \in [1..Cardinality(Latest(rows)) -> Latest(rows)] :
     \A i, j \in DOMAIN f : i < j => f[i] > f[j]}

\* An answer replaces what the panel shows, a late one too.
Answer(p, k) ==
  /\ Over(p, k)
  /\ inflight[p][k].served
  /\ stale' = IF Overtaken(p, k) THEN stale \cup {p} ELSE stale \ {p}
  /\ LET known == inflight[p][k].known IN
       IF p = "feed" THEN feed' \in Recent(known) /\ UNCHANGED shown
                     ELSE shown' = [shown EXCEPT ![p] = known] /\ UNCHANGED feed
  /\ UNCHANGED <<backendVars, page, timer, checking, wire, announced>>

\* A request fails.  While the page loads, the failure of an unguarded load
\* rejects Promise.all and init() ends there; later ones are just dropped.
RequestFails(p, k) ==
  /\ Over(p, k)
  /\ stale' = IF Overtaken(p, k) THEN stale ELSE stale \cup {p}
  /\ Cardinality(stale \cup {p}) <= MaxFailed
  /\ page' = IF page = "loading" /\ p \notin Guarded THEN "failed" ELSE page
  /\ UNCHANGED <<backendVars, feed, shown, timer, checking, wire, announced>>

---------------------------------------------------------------------------
(* The page: live updates.                                                 *)

\* A page that connects its socket before it has loaded.
LiveConnect_AtOnce ==
  /\ page = "loading"
  /\ page' = "offline"
  /\ UNCHANGED <<backendVars, inflight, feed, shown, timer, checking, late, stale, wire, announced>>

\* Live.connect(), once all loads are there.
LiveConnect ==
  /\ page = "loading"
  /\ \A p \in Loads : inflight[p] = <<>>
  /\ ~checking
  /\ page' = "offline"
  /\ UNCHANGED <<backendVars, inflight, feed, shown, timer, checking, late, stale, wire, announced>>

\* The socket connects, or connects again.
SocketConnects ==
  /\ page = "offline"
  /\ page' = "live"
  /\ announced' = {}
  /\ UNCHANGED <<backendVars, inflight, feed, shown, timer, checking, late, stale, wire>>

SocketDrops ==
  /\ page = "live"
  /\ page' = "offline"
  /\ wire' = <<>>
  /\ UNCHANGED <<backendVars, inflight, feed, shown, timer, checking, late, stale, announced>>

\* A feed that keeps every row.
Prepend_Uncapped(a) == <<a>> \o feed

Prepend(a) == SubSeq(<<a>> \o feed, 1, IF Len(feed) < FeedLimit THEN Len(feed) + 1 ELSE FeedLimit)

\* onAttack: prependAttack, loadAlerts (and loadCommands), scheduleChartRefresh.
OnAttack ==
  /\ wire # <<>> /\ Head(wire).type = "new_attack"
  /\ wire' = Tail(wire)
  /\ feed' = Prepend(Head(wire).attack)
  /\ Ask("alerts")
  /\ timer' = TRUE
  /\ UNCHANGED <<backendVars, page, shown, checking, late, stale, announced>>

\* onStats: renderStats, refreshHealth.
OnStats ==
  /\ wire # <<>> /\ Head(wire).type = "stats_update"
  /\ wire' = Tail(wire)
  /\ shown' = [p \in Panels |-> IF p = "stats" THEN Head(wire).counted ELSE shown[p]]
  /\ checking' = TRUE
  /\ UNCHANGED <<backendVars, page, inflight, feed, timer, late, stale, announced>>

\* onIncident: loadIncidents.
OnIncident ==
  /\ wire # <<>> /\ Head(wire).type = "incident_update"
  /\ wire' = Tail(wire)
  /\ Ask("incidents")
  /\ UNCHANGED <<backendVars, page, feed, shown, timer, checking, late, stale, announced>>

\* A refresh that is skipped while another one is under way.
ChartTimer_SkipsWhenBusy ==
  /\ timer
  /\ timer' = FALSE
  /\ IF "charts" \in Panels /\ inflight["charts"] = <<>> THEN Ask("charts") ELSE UNCHANGED inflight
  /\ UNCHANGED <<backendVars, page, feed, shown, checking, late, stale, wire, announced>>

\* 1.5 s after the last attack: loadCharts.
ChartTimer ==
  /\ timer
  /\ timer' = FALSE
  /\ Ask("charts")
  /\ UNCHANGED <<backendVars, page, feed, shown, checking, late, stale, wire, announced>>

\* setInterval: refreshHealth every 30 s.
HealthTimer ==
  /\ Connected
  /\ checking' = TRUE
  /\ UNCHANGED <<backendVars, page, inflight, feed, shown, timer, late, stale, wire, announced>>

\* The status lights are set, or the failure of the request is caught.
HealthAnswer ==
  /\ checking
  /\ checking' = FALSE
  /\ UNCHANGED <<backendVars, page, inflight, feed, shown, timer, late, stale, wire, announced>>

---------------------------------------------------------------------------
Handle(a) ==
  \/ EmitNewAttack(a)
  \/ Overview(a)
  \/ EmitStatsUpdate(a)
  \/ OverviewFails(a)
  \/ EmitIncidentUpdate(a)
  \/ SummaryFails(a)

Rest(p) == \E k \in DOMAIN inflight[p] : Serve(p, k) \/ Answer(p, k)

OnMessage == OnAttack \/ OnStats \/ OnIncident

Next ==
  \/ \E a \in Attacks : Store(a) \/ Post(a) \/ PostFails(a) \/ Handle(a)
  \/ OpenPage
  \/ ClosePage
  \/ \E p \in Loads : Rest(p) \/ \E k \in DOMAIN inflight[p] : RequestFails(p, k)
  \/ LiveConnect
  \/ SocketConnects
  \/ SocketDrops
  \/ OnMessage
  \/ ChartTimer
  \/ HealthTimer
  \/ HealthAnswer

Spec == Init /\ [][Next]_vars

\* Threads of the backend run, requests are answered, the browser's event
\* loop handles messages and timers and the socket library reconnects.
FairSpec ==
  /\ Spec
  /\ \A a \in Attacks : WF_vars(Post(a)) /\ WF_vars(Handle(a))
  /\ \A p \in Loads : WF_vars(Rest(p))
  /\ WF_vars(LiveConnect) /\ WF_vars(SocketConnects) /\ WF_vars(OnMessage)
  /\ WF_vars(ChartTimer) /\ WF_vars(HealthTimer)
  /\ WF_vars(HealthAnswer)

---------------------------------------------------------------------------
(* Properties.                                                             *)

FeedRows(a) == {k \in DOMAIN feed : feed[k] = a}

\* The types; the feed is never longer than prependAttack leaves it.
TypeOK ==
  /\ stored \subseteq Attacks
  /\ event \in [Attacks -> Events]
  /\ counters \in [Attacks -> SUBSET Attacks]
  /\ wire \in Seq(Message)
  /\ page \in Pages
  /\ inflight \in [Loads -> Seq(Request)]
  /\ feed \in Seq(Attacks) /\ Len(feed) <= FeedLimit
  /\ shown \in [Panels -> SUBSET Attacks]
  /\ timer \in BOOLEAN
  /\ checking \in BOOLEAN
  /\ announced \subseteq Attacks
  /\ late \in [Loads -> Nat]
  /\ stale \subseteq Loads

\* The screen never runs ahead of the database, and the two ways an attack
\* gets into the feed (the initial load, its one event) show it at most twice.
FeedSound ==
  /\ \A k \in DOMAIN feed : feed[k] \in stored
  /\ \A a \in Attacks : Cardinality(FeedRows(a)) <= 2

InTransit(a) == \E k \in DOMAIN wire : wire[k].type = "new_attack" /\ wire[k].attack = a

\* No attack announced to the present connection is lost on the page: it is
\* on its way, in the feed, or pushed out of a full feed.  The initial load
\* must not overwrite what the socket delivered.
AnnouncedIsShown ==
  page = "live" => \A a \in announced :
    InTransit(a) \/ FeedRows(a) # {} \/ Len(feed) = FeedLimit

\* The counters that follow an attack count it, whichever of the concurrent
\* handlers sends them.
StatsCoverAttack ==
  \A k \in DOMAIN wire :
    wire[k].type = "stats_update" => wire[k].attack \in wire[k].counted

Quiet == /\ page = "live" /\ wire = <<>> /\ ~timer
         /\ \A p \in Loads : inflight[p] = <<>>

\* When everything has calmed down, alerts and charts reflect every attack
\* announced to this connection, in whatever order their requests were
\* answered, unless the newest request failed or a late answer replaced it:
\* the debounced refresh and the overlapping requests lose no attack.
PanelsCurrent ==
  Quiet => \A p \in ({"alerts", "charts"} \cap Panels) \ stale : announced \subseteq shown[p]

\* dashboard.js: a missed socket event is made up for by the periodic refresh.
MissedEventRecovered ==
  \A a \in Attacks :
    (a \in stored /\ Connected) ~> (FeedRows(a) # {} \/ Len(feed) = FeedLimit \/ ~Connected)
=============================================================================
