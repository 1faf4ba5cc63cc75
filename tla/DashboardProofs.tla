--------------------------- MODULE DashboardProofs ---------------------------
(***************************************************************************)
(* What the page owes to the database, whatever the order of the events,   *)
(* the messages and the answers, for any number of attacks and any limits. *)
(***************************************************************************)
EXTENDS Dashboard, Integers, FiniteSetTheorems, SequenceTheorems, WellFoundedInduction, TLAPS

\* Nothing on the page or on its way is ahead of the database, and a handler
\* that is about to send counters has counted its own attack.
StoredInv ==
  /\ \A a \in Attacks : event[a] # "none" => a \in stored
  /\ \A a \in Attacks : event[a] = "stats" => a \in counters[a]
  /\ \A k \in 1..Len(wire) : wire[k].attack \in stored
  /\ \A k \in 1..Len(wire) : wire[k].type = "stats_update" => wire[k].attack \in wire[k].counted
  /\ \A p \in Loads : \A k \in 1..Len(inflight[p]) : inflight[p][k].known \subseteq stored
  /\ \A k \in 1..Len(feed) : feed[k] \in stored
  /\ announced \subseteq stored

\* The initial load of the feed and the live messages never meet.
LiveInv ==
  /\ page # "live" => wire = <<>>
  /\ Connected => inflight["feed"] = <<>>

Carries(k, a) == wire[k].type = "new_attack" /\ wire[k].attack = a
OneRow(a) == \A i, j \in 1..Len(feed) : feed[i] = a /\ feed[j] = a => i = j

\* An attack is announced once: until its message has arrived the feed has at
\* most the row of the initial load.
RowsInv ==
  \A a \in Attacks :
    /\ \A i, j \in 1..Len(wire) : Carries(i, a) /\ Carries(j, a) => i = j
    /\ \A i \in 1..Len(wire) : Carries(i, a) => event[a] \notin {"none", "received"}
    /\ event[a] \in {"none", "received"} => OneRow(a)
    /\ \A i \in 1..Len(wire) : Carries(i, a) => OneRow(a)
    /\ \A i, j, k \in 1..Len(feed) :
         feed[i] = a /\ feed[j] = a /\ feed[k] = a => i = j \/ j = k \/ i = k

\* The requests that are late are the oldest of those without an answer.
LateInv == \A p \in Loads : late[p] <= Len(inflight[p])

\* A panel will know of an attack: its newest request is still to be served or
\* knows of it; or that one is over, and what it brought is shown or was lost.
Covered(p, a) ==
  LET n == Len(inflight[p]) IN
    IF late[p] < n THEN ~inflight[p][n].served \/ a \in inflight[p][n].known
                   ELSE p \in stale \/ a \in shown[p]

\* What makes a panel current again after an announcement is never given up.
CurrentInv ==
  page = "live" => \A a \in announced :
    /\ "alerts" \in Panels => InTransit(a) \/ Covered("alerts", a)
    /\ "charts" \in Panels => InTransit(a) \/ timer \/ Covered("charts", a)

---------------------------------------------------------------------------
(* Operators of the page.                                                  *)

\* Without one of its requests a panel has the others, in their order.
LEMMA RemoveAtProperties ==
  ASSUME NEW S, NEW s \in Seq(S), NEW k \in 1..Len(s)
  PROVE  /\ RemoveAt(s, k) \in Seq(S)
         /\ Len(RemoveAt(s, k)) = Len(s) - 1
         /\ \A i \in 1..(Len(s) - 1) : i < k => RemoveAt(s, k)[i] = s[i]
         /\ \A i \in 1..(Len(s) - 1) : i >= k => RemoveAt(s, k)[i] = s[i + 1]
<1> DEFINE a == SubSeq(s, 1, k - 1)
           b == SubSeq(s, k + 1, Len(s))
<1>1. Len(s) \in Nat /\ k \in Int /\ 1 <= k /\ k <= Len(s)
  OBVIOUS
<1>2. \A i \in 1..Len(s) : s[i] \in S
  OBVIOUS
<1>3. /\ a \in Seq(S) /\ Len(a) = k - 1
      /\ \A i \in 1..(k - 1) : a[i] = s[i]
  BY ONLY <1>1, <1>2, SubSeqProperties
<1>4. /\ b \in Seq(S) /\ Len(b) = Len(s) - k
      /\ \A i \in 1..(Len(s) - k) : b[i] = s[k + i]
  BY ONLY <1>1, <1>2, SubSeqProperties
<1>5. RemoveAt(s, k) = a \o b
  BY DEF RemoveAt
<1> HIDE DEF a, b
<1>6. /\ (a \o b) \in Seq(S) /\ Len(a \o b) = Len(s) - 1
      /\ \A i \in 1..(Len(s) - 1) : i < k => (a \o b)[i] = s[i]
  <2>1. /\ (a \o b) \in Seq(S) /\ Len(a \o b) = Len(a) + Len(b)
        /\ \A i \in 1..(Len(a) + Len(b)) :
             (a \o b)[i] = IF i <= Len(a) THEN a[i] ELSE b[i - Len(a)]
    BY ONLY <1>3, <1>4, ConcatProperties
  <2> QED
    BY ONLY <1>1, <1>3, <1>4, <2>1
<1>7. ASSUME NEW i \in 1..(Len(s) - 1), i >= k
      PROVE  (a \o b)[i] = s[i + 1]
  <2>1. i - (k - 1) \in 1..(Len(s) - k) /\ ~(i <= Len(a))
    BY <1>1, <1>3, <1>7
  <2>2. (a \o b)[i] = b[i - Len(a)]
    BY <1>1, <1>3, <1>4, <1>7, <2>1, ConcatProperties
  <2> QED
    BY <1>1, <1>3, <1>4, <2>1, <2>2
<1> QED
  BY <1>5, <1>6, <1>7

\* A new row is the first, the others move down, and the last one drops out
\* of a full feed.
LEMMA PrependProperties ==
  ASSUME NEW a \in Attacks, feed \in Seq(Attacks), Len(feed) <= FeedLimit
  PROVE  /\ Prepend(a) \in Seq(Attacks)
         /\ Len(feed) < FeedLimit => Len(Prepend(a)) = Len(feed) + 1
         /\ Len(feed) = FeedLimit => Len(Prepend(a)) = FeedLimit
         /\ Len(Prepend(a)) >= 1
         /\ Prepend(a)[1] = a
         /\ \A i \in 2..Len(Prepend(a)) : i - 1 \in 1..Len(feed) /\ Prepend(a)[i] = feed[i - 1]
<1> DEFINE s == <<a>> \o feed
           n == IF Len(feed) < FeedLimit THEN Len(feed) + 1 ELSE FeedLimit
<1>1. Len(feed) \in Nat /\ FeedLimit \in Nat /\ FeedLimit >= 1 /\ Len(feed) <= FeedLimit
  BY LimitAssumption DEF LimitAssumption
<1>2. <<a>> \in Seq(Attacks) /\ Len(<<a>>) = 1 /\ <<a>>[1] = a
  OBVIOUS
<1>3. /\ s \in Seq(Attacks) /\ Len(s) = Len(feed) + 1
      /\ s[1] = a
      /\ \A i \in 2..(Len(feed) + 1) : s[i] = feed[i - 1]
  <2>1. /\ s \in Seq(Attacks) /\ Len(s) = Len(feed) + 1
        /\ \A i \in 1..(Len(feed) + 1) :
             s[i] = IF i <= 1 THEN <<a>>[i] ELSE feed[i - 1]
    BY <1>1, <1>2, ConcatProperties
  <2> QED
    BY ONLY <1>1, <1>2, <2>1
<1>4. /\ n \in Nat /\ 1 <= n /\ n <= Len(s)
      /\ Len(feed) < FeedLimit => n = Len(feed) + 1
      /\ Len(feed) = FeedLimit => n = FeedLimit
  <2> HIDE DEF s
  <2> QED
    BY ONLY <1>1, <1>3
<1>5. Prepend(a) = SubSeq(s, 1, n)
  BY DEF Prepend
<1> HIDE DEF s, n
<1>6. \A i \in 1..n : s[i] \in Attacks
  BY <1>3, <1>4
<1>7. /\ Prepend(a) \in Seq(Attacks) /\ Len(Prepend(a)) = n
      /\ \A i \in 1..n : Prepend(a)[i] = s[i]
  BY <1>4, <1>5, <1>6, SubSeqProperties
<1>8. \A i \in 2..n : i - 1 \in 1..Len(feed) /\ s[i] = feed[i - 1]
  BY <1>1, <1>3, <1>4
<1>9. Prepend(a)[1] = a /\ Len(Prepend(a)) >= 1
  BY <1>3, <1>4, <1>7
<1>10. /\ Len(feed) < FeedLimit => Len(Prepend(a)) = Len(feed) + 1
       /\ Len(feed) = FeedLimit => Len(Prepend(a)) = FeedLimit
  BY <1>4, <1>7
<1>11. \A i \in 2..Len(Prepend(a)) : i - 1 \in 1..Len(feed) /\ Prepend(a)[i] = feed[i - 1]
  BY <1>4, <1>7, <1>8
<1> QED
  BY <1>7, <1>9, <1>10, <1>11

\* The smallest of a set of numbers.
LEMMA SmallestElement ==
  ASSUME NEW T \in SUBSET Nat, T # {}
  PROVE  \E m \in T : \A k \in T : m <= k
<1>1. \E m \in T : \A k \in T : ~(<<k, m>> \in OpToRel(<, Nat))
  BY NatLessThanWellFounded, WFMin
<1>2. \A m, k \in Nat : k < m => <<k, m>> \in OpToRel(<, Nat)
  BY DEF OpToRel
<1>3. PICK m \in T : \A k \in T : ~(<<k, m>> \in OpToRel(<, Nat))
  BY <1>1
<1>4. ASSUME NEW k \in T
      PROVE  m <= k
  <2>1. m \in Nat /\ k \in Nat /\ ~(k < m)
    BY <1>2, <1>3
  <2> QED
    BY <2>1
<1> QED
  BY <1>4

LEMMA LatestBounded ==
  ASSUME NEW rows \in SUBSET Attacks
  PROVE  /\ IsFiniteSet(Latest(rows)) /\ Latest(rows) \subseteq rows
         /\ Cardinality(Latest(rows)) \in Nat
         /\ Cardinality(Latest(rows)) <= RecentLimit
<1> DEFINE L == Latest(rows)
<1>1. /\ IsFiniteSet(rows) /\ L \subseteq rows /\ IsFiniteSet(L) /\ Cardinality(L) \in Nat
      /\ L \subseteq Nat
  BY AttacksAssumption, FS_Subset, FS_CardinalityType DEF Latest, AttacksAssumption
<1>2. CASE L = {}
  BY <1>1, <1>2, FS_EmptySet, LimitAssumption DEF LimitAssumption
<1>3. CASE L # {}
  <2>1. PICK m \in L : \A k \in L : m <= k
    BY <1>1, <1>3, SmallestElement
  <2> DEFINE later == {b \in rows : b > m}
  <2>2. Cardinality(later) < RecentLimit
    BY <2>1 DEF Latest
  <2>3. L \ {m} \subseteq later
    BY <1>1, <2>1
  <2>4. IsFiniteSet(later) /\ Cardinality(later) \in Nat
    BY <1>1, FS_Subset, FS_CardinalityType
  <2> HIDE DEF later, L
  <2>5. Cardinality(L \ {m}) = Cardinality(L) - 1
    BY <1>1, <2>1, FS_RemoveElement
  <2>6. Cardinality(L \ {m}) <= Cardinality(later)
    BY <2>3, <2>4, FS_Subset
  <2> QED
    BY <1>1, <2>2, <2>4, <2>5, <2>6, LimitAssumption DEF L, LimitAssumption
<1> QED
  BY <1>1, <1>2, <1>3

\* The initial feed: known attacks, each once, and no more than its limit.
LEMMA RecentProperties ==
  ASSUME NEW rows \in SUBSET Attacks, NEW f \in Recent(rows)
  PROVE  /\ f \in Seq(Attacks) /\ Len(f) <= FeedLimit
         /\ \A i \in DOMAIN f : f[i] \in rows
         /\ \A i, j \in DOMAIN f : f[i] = f[j] => i = j
<1> DEFINE n == Cardinality(Latest(rows))
<1>1. /\ Latest(rows) \subseteq rows /\ n \in Nat /\ n <= FeedLimit
  BY LatestBounded, LimitAssumption DEF LimitAssumption
<1>2. /\ f \in [1..n -> Latest(rows)]
      /\ \A i, j \in 1..n : i < j => f[i] > f[j]
  BY DEF Recent
<1> HIDE DEF n
<1>3. f \in Seq(Attacks) /\ Len(f) = n /\ DOMAIN f = 1..n
  BY <1>1, <1>2
<1>4. \A i \in 1..n : f[i] \in rows /\ f[i] \in Nat
  BY <1>1, <1>2, AttacksAssumption DEF AttacksAssumption
<1>5. \A i, j \in 1..n : f[i] = f[j] => i = j
  BY <1>1, <1>2, <1>4
<1> QED
  BY <1>1, <1>3, <1>4, <1>5

---------------------------------------------------------------------------
(* Types.                                                                  *)

LEMMA BackendType ==
  ASSUME TypeOK, [Next]_vars
  PROVE  /\ stored' \subseteq Attacks
         /\ event' \in [Attacks -> Events]
         /\ counters' \in [Attacks -> SUBSET Attacks]
<1> USE DEF TypeOK
<1>1. CASE UNCHANGED backendVars
  BY <1>1 DEF backendVars
<1>2. ASSUME NEW a \in Attacks, Store(a) \/ Post(a) \/ PostFails(a) \/ Handle(a)
      PROVE  /\ stored' \subseteq Attacks
             /\ event' \in [Attacks -> Events]
             /\ counters' \in [Attacks -> SUBSET Attacks]
  BY <1>2 DEF Store, Post, PostFails, Handle, EmitNewAttack, Overview, EmitStatsUpdate,
       OverviewFails, EmitIncidentUpdate, SummaryFails, Events
<1>3. CASE UNCHANGED vars
  BY <1>3 DEF vars, backendVars
<1> QED
  BY <1>1, <1>2, <1>3 DEF Next, OpenPage, ClosePage, Rest, Serve, Answer, RequestFails,
     LiveConnect, SocketConnects, SocketDrops, OnMessage, OnAttack, OnStats, OnIncident,
     ChartTimer, HealthTimer, HealthAnswer

\* What a step can do to the wire.
LEMMA WireStep ==
  ASSUME TypeOK, [Next]_vars
  PROVE  \/ wire' = wire /\ announced' \in {announced, {}}
         \/ wire' = <<>> /\ page' # "live" /\ announced' \in {announced, {}}
         \/ \E a \in Attacks : EmitNewAttack(a) \/ EmitStatsUpdate(a) \/ EmitIncidentUpdate(a)
         \/ OnMessage /\ wire' = Tail(wire) /\ announced' = announced
<1>1. ASSUME NEW a \in Attacks, Store(a) \/ Post(a) \/ PostFails(a) \/ Handle(a)
      PROVE  \/ wire' = wire /\ announced' = announced
             \/ EmitNewAttack(a) \/ EmitStatsUpdate(a) \/ EmitIncidentUpdate(a)
  BY <1>1 DEF Store, Post, PostFails, Handle, Overview, OverviewFails, SummaryFails
<1>2. CASE OpenPage \/ LiveConnect \/ SocketConnects \/ ChartTimer \/ HealthTimer \/ HealthAnswer
  BY <1>2 DEF OpenPage, LiveConnect, SocketConnects, ChartTimer, HealthTimer, HealthAnswer
<1>3. CASE ClosePage \/ SocketDrops
  BY <1>3 DEF ClosePage, Blank, SocketDrops
<1>4. ASSUME NEW p \in Loads, NEW k \in DOMAIN inflight[p],
             Serve(p, k) \/ Answer(p, k) \/ RequestFails(p, k)
      PROVE  wire' = wire /\ announced' = announced
  BY <1>4 DEF Serve, Answer, RequestFails
<1>5. CASE OnMessage
  BY <1>5 DEF OnMessage, OnAttack, OnStats, OnIncident
<1>6. CASE UNCHANGED vars
  BY <1>6 DEF vars
<1> QED
  BY <1>1, <1>2, <1>3, <1>4, <1>5, <1>6 DEF Next, Rest

LEMMA EmitType ==
  ASSUME TypeOK, NEW m \in Message, Emit(m)
  PROVE  wire' \in Seq(Message)
BY AppendProperties DEF TypeOK, Emit

LEMMA WireType ==
  ASSUME TypeOK, [Next]_vars
  PROVE  wire' \in Seq(Message) /\ announced' \subseteq Attacks
<1>1. wire \in Seq(Message) /\ announced \subseteq Attacks
  BY DEF TypeOK
<1>2. CASE wire' = wire /\ announced' \in {announced, {}}
  BY <1>1, <1>2
<1>3. CASE wire' = <<>> /\ announced' \in {announced, {}}
  BY <1>1, <1>3, EmptySeq
<1>4. CASE OnMessage /\ wire' = Tail(wire) /\ announced' = announced
  <2>1. wire # <<>>
    BY <1>4 DEF OnMessage, OnAttack, OnStats, OnIncident
  <2> QED
    BY ONLY <1>1, <1>4, <2>1, HeadTailProperties
<1>5. ASSUME NEW a \in Attacks, EmitNewAttack(a) \/ EmitStatsUpdate(a) \/ EmitIncidentUpdate(a)
      PROVE  wire' \in Seq(Message) /\ announced' \subseteq Attacks
  <2>1. /\ [type |-> "new_attack", attack |-> a, counted |-> {}] \in Message
        /\ [type |-> "incident_update", attack |-> a, counted |-> {}] \in Message
        /\ [type |-> "stats_update", attack |-> a, counted |-> counters[a]] \in Message
    BY DEF Message, TypeOK
  <2>2. announced' \subseteq Attacks
    BY <1>1, <1>5 DEF EmitNewAttack, EmitStatsUpdate, EmitIncidentUpdate
  <2> QED
    BY <1>5, <2>1, <2>2, EmitType DEF EmitNewAttack, EmitStatsUpdate, EmitIncidentUpdate
<1> QED
  BY <1>2, <1>3, <1>4, <1>5, WireStep

LEMMA RequestTypes ==
  ASSUME TypeOK
  PROVE  /\ NewRequest \in Request
         /\ [served |-> TRUE, known |-> stored] \in Request
BY DEF NewRequest, Request, TypeOK

\* A panel's requests after a step that asks for it, serves one or drops one.
LEMMA AskType ==
  ASSUME TypeOK, NEW p, Ask(p)
  PROVE  inflight' \in [Loads -> Seq(Request)]
<1>1. inflight \in [Loads -> Seq(Request)]
  BY DEF TypeOK
<1>2. CASE p \in Panels
  <2>1. p \in Loads /\ inflight[p] \in Seq(Request)
    BY <1>1, <1>2 DEF Loads
  <2>2. Append(inflight[p], NewRequest) \in Seq(Request)
    BY <2>1, RequestTypes, AppendProperties
  <2>3. inflight' = [inflight EXCEPT ![p] = Append(inflight[p], NewRequest)]
    BY <1>2 DEF Ask
  <2> QED
    BY ONLY <1>1, <2>2, <2>3
<1>3. CASE p \notin Panels
  BY <1>1, <1>3 DEF Ask
<1> QED
  BY <1>2, <1>3

LEMMA RestType ==
  ASSUME TypeOK, NEW p \in Loads, NEW k \in DOMAIN inflight[p],
         Serve(p, k) \/ Answer(p, k) \/ RequestFails(p, k)
  PROVE  inflight' \in [Loads -> Seq(Request)]
<1>1. inflight \in [Loads -> Seq(Request)] /\ inflight[p] \in Seq(Request)
      /\ k \in 1..Len(inflight[p])
  BY DEF TypeOK
<1>2. CASE Serve(p, k)
  <2>1. [inflight[p] EXCEPT ![k] = [served |-> TRUE, known |-> stored]] \in Seq(Request)
    BY <1>1, RequestTypes, ExceptSeq
  <2>2. inflight' = [inflight EXCEPT ![p] =
          [inflight[p] EXCEPT ![k] = [served |-> TRUE, known |-> stored]]]
    BY <1>2 DEF Serve
  <2> QED
    BY ONLY <1>1, <2>1, <2>2
<1>3. CASE Answer(p, k) \/ RequestFails(p, k)
  <2>1. RemoveAt(inflight[p], k) \in Seq(Request)
    BY <1>1, RemoveAtProperties
  <2>2. inflight' = [inflight EXCEPT ![p] = RemoveAt(inflight[p], k)]
    BY <1>3 DEF Answer, RequestFails, Over
  <2> QED
    BY ONLY <1>1, <2>1, <2>2
<1> QED
  BY <1>2, <1>3

\* What a step can do to the feed.
LEMMA FeedStep ==
  ASSUME [Next]_vars
  PROVE  \/ feed' = feed
         \/ ClosePage
         \/ \E k \in DOMAIN inflight["feed"] : Answer("feed", k)
         \/ OnAttack
<1>1. ASSUME NEW a \in Attacks, Store(a) \/ Post(a) \/ PostFails(a) \/ Handle(a)
      PROVE  feed' = feed
  BY <1>1 DEF Store, Post, PostFails, Handle, EmitNewAttack, Overview, EmitStatsUpdate,
       OverviewFails, EmitIncidentUpdate, SummaryFails, browserVars
<1>2. CASE OpenPage \/ LiveConnect \/ SocketConnects \/ SocketDrops \/ ChartTimer
           \/ HealthTimer \/ HealthAnswer \/ OnStats \/ OnIncident
  BY <1>2 DEF OpenPage, LiveConnect, SocketConnects, SocketDrops, ChartTimer, HealthTimer,
       HealthAnswer, OnStats, OnIncident
<1>3. ASSUME NEW p \in Loads, NEW k \in DOMAIN inflight[p],
             Serve(p, k) \/ Answer(p, k) \/ RequestFails(p, k)
      PROVE  feed' = feed \/ (p = "feed" /\ Answer(p, k))
  BY <1>3 DEF Serve, Answer, RequestFails
<1>4. CASE UNCHANGED vars
  BY <1>4 DEF vars, browserVars
<1> QED
  BY <1>1, <1>2, <1>3, <1>4 DEF Next, Rest, OnMessage

\* What an answer to the feed's request leaves in the feed.
LEMMA FeedAnswer ==
  ASSUME TypeOK, NEW k \in DOMAIN inflight["feed"], Answer("feed", k)
  PROVE  /\ feed' \in Seq(Attacks) /\ Len(feed') <= FeedLimit
         /\ \A i \in 1..Len(feed') : feed'[i] \in inflight["feed"][k].known
         /\ \A i, j \in 1..Len(feed') : feed'[i] = feed'[j] => i = j
<1> DEFINE known == inflight["feed"][k].known
<1>1. known \in SUBSET Attacks
  <2>1. "feed" \in Loads
    BY DEF Loads
  <2>2. inflight["feed"] \in Seq(Request)
    BY <2>1 DEF TypeOK
  <2>3. inflight["feed"][k] \in Request
    BY <2>2
  <2> QED
    BY <2>3 DEF Request
<1>2. feed' \in Recent(known)
  BY DEF Answer
<1> HIDE DEF known
<1>3. /\ feed' \in Seq(Attacks) /\ Len(feed') <= FeedLimit
      /\ \A i \in DOMAIN feed' : feed'[i] \in known
      /\ \A i, j \in DOMAIN feed' : feed'[i] = feed'[j] => i = j
  BY ONLY <1>1, <1>2, RecentProperties
<1>4. DOMAIN feed' = 1..Len(feed')
  BY <1>3
<1> QED
  BY <1>3, <1>4 DEF known

LEMMA FeedType ==
  ASSUME TypeOK, [Next]_vars
  PROVE  feed' \in Seq(Attacks) /\ Len(feed') <= FeedLimit
<1>1. feed \in Seq(Attacks) /\ Len(feed) <= FeedLimit /\ FeedLimit \in Nat
  BY LimitAssumption DEF TypeOK, LimitAssumption
<1>2. CASE feed' = feed
  BY <1>1, <1>2
<1>3. CASE ClosePage
  <2>1. feed' = <<>>
    BY <1>3 DEF ClosePage, Blank
  <2> QED
    BY ONLY <1>1, <2>1
<1>4. CASE \E k \in DOMAIN inflight["feed"] : Answer("feed", k)
  BY <1>4, FeedAnswer
<1>5. CASE OnAttack
  <2>1. wire \in Seq(Message) /\ wire # <<>> /\ feed' = Prepend(Head(wire).attack)
    BY <1>5 DEF OnAttack, TypeOK
  <2>2. Head(wire) \in Message
    BY <2>1, HeadTailProperties
  <2>3. Head(wire).attack \in Attacks
    BY <2>2 DEF Message
  <2>4. Prepend(Head(wire).attack) \in Seq(Attacks) /\ Len(Prepend(Head(wire).attack)) <= FeedLimit
    <3>1. ASSUME NEW b \in Attacks
          PROVE  Prepend(b) \in Seq(Attacks) /\ Len(Prepend(b)) <= FeedLimit
      <4>1. /\ Prepend(b) \in Seq(Attacks)
            /\ Len(feed) < FeedLimit => Len(Prepend(b)) = Len(feed) + 1
            /\ Len(feed) = FeedLimit => Len(Prepend(b)) = FeedLimit
        BY <1>1, PrependProperties
      <4>2. Len(feed) \in Nat /\ Len(Prepend(b)) \in Nat
        BY ONLY <1>1, <4>1, LenProperties
      <4> QED
        BY ONLY <1>1, <4>1, <4>2
    <3> QED
      BY ONLY <2>3, <3>1
  <2> QED
    BY <2>1, <2>4
<1> QED
  BY <1>2, <1>3, <1>4, <1>5, FeedStep

\* What a step can do to the requests of a panel.
LEMMA InflightStep ==
  ASSUME TypeOK, [Next]_vars, NEW p \in Loads
  PROVE  \/ inflight'[p] = inflight[p]
         \/ ClosePage /\ inflight'[p] = <<>>
         \/ OpenPage /\ inflight'[p] = <<NewRequest>>
         \/ p \in Panels /\ inflight'[p] = Append(inflight[p], NewRequest)
         \/ \E k \in 1..Len(inflight[p]) : Serve(p, k) \/ Answer(p, k) \/ RequestFails(p, k)
<1>1. inflight \in [Loads -> Seq(Request)]
  BY DEF TypeOK
<1>2. ASSUME NEW a \in Attacks, Store(a) \/ Post(a) \/ PostFails(a) \/ Handle(a)
      PROVE  inflight' = inflight
  BY <1>2 DEF Store, Post, PostFails, Handle, EmitNewAttack, Overview, EmitStatsUpdate,
       OverviewFails, EmitIncidentUpdate, SummaryFails, browserVars
<1>3. CASE LiveConnect \/ SocketConnects \/ SocketDrops \/ HealthTimer \/ HealthAnswer \/ OnStats
  BY <1>3 DEF LiveConnect, SocketConnects, SocketDrops, HealthTimer, HealthAnswer, OnStats
<1>4. ASSUME NEW q, Ask(q)
      PROVE  \/ inflight'[p] = inflight[p]
             \/ p \in Panels /\ inflight'[p] = Append(inflight[p], NewRequest)
  BY <1>1, <1>4 DEF Ask
<1>5. CASE OnAttack \/ OnIncident \/ ChartTimer
  BY <1>4, <1>5 DEF OnAttack, OnIncident, ChartTimer
<1>6. CASE OpenPage \/ ClosePage
  BY <1>6 DEF OpenPage, ClosePage, Blank
<1>7. ASSUME NEW q \in Loads, NEW k \in DOMAIN inflight[q],
             Serve(q, k) \/ Answer(q, k) \/ RequestFails(q, k)
      PROVE  \/ inflight'[p] = inflight[p]
             \/ q = p /\ k \in 1..Len(inflight[p])
  <2>1. CASE q = p
    <3>1. inflight[p] \in Seq(Request)
      BY <1>1
    <3> QED
      BY <1>7, <2>1, <3>1
  <2>2. CASE q # p
    BY <1>1, <1>7, <2>2 DEF Serve, Answer, RequestFails, Over
  <2> QED
    BY <2>1, <2>2
<1>8. CASE UNCHANGED vars
  BY <1>8 DEF vars, browserVars
<1> QED
  BY <1>2, <1>3, <1>5, <1>6, <1>7, <1>8 DEF Next, Rest, OnMessage

LEMMA InflightType ==
  ASSUME TypeOK, [Next]_vars
  PROVE  inflight' \in [Loads -> Seq(Request)]
<1>1. ASSUME NEW a \in Attacks, Store(a) \/ Post(a) \/ PostFails(a) \/ Handle(a)
      PROVE  inflight' = inflight
  BY <1>1 DEF Store, Post, PostFails, Handle, EmitNewAttack, Overview, EmitStatsUpdate,
       OverviewFails, EmitIncidentUpdate, SummaryFails, browserVars
<1>2. CASE LiveConnect \/ SocketConnects \/ SocketDrops \/ HealthTimer \/ HealthAnswer \/ OnStats
  BY <1>2 DEF TypeOK, LiveConnect, SocketConnects, SocketDrops, HealthTimer, HealthAnswer, OnStats
<1>3. CASE OnAttack \/ OnIncident \/ ChartTimer
  BY <1>3, AskType DEF OnAttack, OnIncident, ChartTimer
<1>4. CASE OpenPage \/ ClosePage
  <2>1. <<NewRequest>> \in Seq(Request) /\ <<>> \in Seq(Request)
    BY RequestTypes
  <2> QED
    BY <1>4, <2>1 DEF OpenPage, ClosePage, Blank
<1>5. ASSUME NEW q \in Loads, NEW k \in DOMAIN inflight[q],
             Serve(q, k) \/ Answer(q, k) \/ RequestFails(q, k)
      PROVE  inflight' \in [Loads -> Seq(Request)]
  BY <1>5, RestType
<1>6. CASE UNCHANGED vars
  BY <1>6 DEF TypeOK, vars, browserVars
<1>7. inflight' = inflight => inflight' \in [Loads -> Seq(Request)]
  BY DEF TypeOK
<1> QED
  BY <1>1, <1>2, <1>3, <1>4, <1>5, <1>6, <1>7 DEF Next, Rest, OnMessage

LEMMA PageType ==
  ASSUME TypeOK, [Next]_vars
  PROVE  /\ page' \in Pages /\ shown' \in [Panels -> SUBSET Attacks]
         /\ timer' \in BOOLEAN /\ checking' \in BOOLEAN /\ stale' \subseteq Loads
         /\ late' \in [Loads -> Nat]
<1> DEFINE Goal == /\ page' \in Pages /\ shown' \in [Panels -> SUBSET Attacks]
                   /\ timer' \in BOOLEAN /\ checking' \in BOOLEAN /\ stale' \subseteq Loads
                   /\ late' \in [Loads -> Nat]
<1>1. ASSUME NEW a \in Attacks, Store(a) \/ Post(a) \/ PostFails(a) \/ Handle(a)
      PROVE  UNCHANGED browserVars
  BY <1>1 DEF Store, Post, PostFails, Handle, EmitNewAttack, Overview, EmitStatsUpdate,
       OverviewFails, EmitIncidentUpdate, SummaryFails
<1>2. CASE UNCHANGED browserVars
  BY <1>2 DEF TypeOK, browserVars
<1>3. CASE \/ LiveConnect \/ SocketConnects \/ SocketDrops \/ HealthTimer \/ HealthAnswer
           \/ ChartTimer
  BY <1>3 DEF TypeOK, Pages, LiveConnect, SocketConnects, SocketDrops, HealthTimer,
       HealthAnswer, ChartTimer
<1>4. CASE OnAttack \/ OnIncident
  BY <1>4 DEF TypeOK, OnAttack, OnIncident
<1>5. CASE OpenPage \/ ClosePage
  <2>1. late' = [q \in Loads |-> 0]
    BY <1>5 DEF OpenPage, ClosePage, Blank
  <2>2. late' \in [Loads -> Nat]
    BY <2>1
  <2> QED
    BY <1>5, <2>2 DEF TypeOK, Pages, OpenPage, ClosePage, Blank
<1>6. CASE OnStats
  <2>1. wire \in Seq(Message) /\ wire # <<>>
    BY <1>6 DEF OnStats, TypeOK
  <2>2. Head(wire) \in Message
    BY ONLY <2>1, HeadTailProperties
  <2>3. Head(wire).counted \subseteq Attacks
    BY <2>2 DEF Message
  <2> QED
    BY <1>6, <2>3 DEF OnStats, TypeOK
<1>7. ASSUME NEW q \in Loads, NEW k \in DOMAIN inflight[q],
             Serve(q, k) \/ Answer(q, k) \/ RequestFails(q, k)
      PROVE  Goal
  <2>1. inflight[q] \in Seq(Request)
    BY DEF TypeOK
  <2>2. inflight[q][k] \in Request
    BY ONLY <2>1, <1>7
  <2>3. inflight[q][k].known \subseteq Attacks
    BY <2>2 DEF Request
  <2>4. shown' \in [Panels -> SUBSET Attacks]
    BY <1>7, <2>3 DEF TypeOK, Serve, Answer, RequestFails
  <2>5. page' \in Pages /\ timer' \in BOOLEAN /\ checking' \in BOOLEAN /\ stale' \subseteq Loads
    BY <1>7 DEF TypeOK, Pages, Serve, Answer, RequestFails
  <2>6. late' \in [Loads -> Nat]
    <3>1. late \in [Loads -> Nat] /\ k \in Nat /\ k >= 1
      BY <2>1, <1>7 DEF TypeOK
    <3>2. CASE Serve(q, k)
      BY <3>1, <3>2 DEF Serve
    <3>3. CASE Over(q, k)
      <4>1. late' = [late EXCEPT ![q] = IF k <= late[q] THEN late[q] - 1 ELSE k - 1]
        BY <3>3 DEF Over, Overtaken
      <4> QED
        BY ONLY <1>7, <3>1, <4>1
    <3> QED
      BY <1>7, <3>2, <3>3 DEF Answer, RequestFails
  <2> QED
    BY <2>4, <2>5, <2>6
<1>8. CASE UNCHANGED vars
  BY <1>2, <1>8 DEF vars
<1> QED
  BY <1>1, <1>2, <1>3, <1>4, <1>5, <1>6, <1>7, <1>8 DEF Next, Rest, OnMessage

LEMMA InitType == Init => TypeOK
<1> SUFFICES ASSUME Init PROVE TypeOK
  OBVIOUS
<1>1. Len(feed) <= FeedLimit /\ feed \in Seq(Attacks)
  BY LimitAssumption, EmptySeq DEF LimitAssumption, Init
<1> QED
  BY <1>1, EmptySeq DEF Init, TypeOK, Events, Pages

LEMMA TypeStep == TypeOK /\ [Next]_vars => TypeOK'
BY BackendType, WireType, FeedType, InflightType, PageType DEF TypeOK

\* The types, and a feed that is never longer than the page lets it grow.
THEOREM TypeCorrect == Spec => []TypeOK
BY InitType, TypeStep, PTL DEF Spec

---------------------------------------------------------------------------
(* The initial load and the live messages.                                 *)

\* What a step can do to the page.
LEMMA PageStep ==
  ASSUME [Next]_vars
  PROVE  \/ page' = page
         \/ OpenPage \/ ClosePage \/ LiveConnect \/ SocketConnects \/ SocketDrops
         \/ page = "loading" /\ page' = "failed" /\ wire' = wire
<1>1. ASSUME NEW a \in Attacks, Store(a) \/ Post(a) \/ PostFails(a) \/ Handle(a)
      PROVE  page' = page
  BY <1>1 DEF Store, Post, PostFails, Handle, EmitNewAttack, Overview, EmitStatsUpdate,
       OverviewFails, EmitIncidentUpdate, SummaryFails, browserVars
<1>2. CASE OnMessage \/ ChartTimer \/ HealthTimer \/ HealthAnswer
  BY <1>2 DEF OnMessage, OnAttack, OnStats, OnIncident, ChartTimer, HealthTimer, HealthAnswer
<1>3. ASSUME NEW p \in Loads, NEW k \in DOMAIN inflight[p],
             Serve(p, k) \/ Answer(p, k) \/ RequestFails(p, k)
      PROVE  page' = page \/ (page = "loading" /\ page' = "failed" /\ wire' = wire)
  BY <1>3 DEF Serve, Answer, RequestFails
<1>4. CASE UNCHANGED vars
  BY <1>4 DEF vars, browserVars
<1> QED
  BY <1>1, <1>2, <1>3, <1>4 DEF Next, Rest

LEMMA WireLive ==
  ASSUME TypeOK, LiveInv, [Next]_vars
  PROVE  page' # "live" => wire' = <<>>
<1>1. CASE OpenPage \/ LiveConnect \/ SocketConnects
  BY <1>1 DEF LiveInv, OpenPage, LiveConnect, SocketConnects
<1>2. CASE ClosePage \/ SocketDrops
  BY <1>2 DEF ClosePage, Blank, SocketDrops
<1>3. CASE page = "loading" /\ page' = "failed" /\ wire' = wire
  BY <1>3 DEF LiveInv
<1>4. CASE page' = page
  <2>1. ASSUME NEW a \in Attacks, EmitNewAttack(a) \/ EmitStatsUpdate(a) \/ EmitIncidentUpdate(a)
        PROVE  page # "live" => wire' = wire
    BY <2>1 DEF EmitNewAttack, EmitStatsUpdate, EmitIncidentUpdate, Emit
  <2>2. CASE OnMessage
    <3>1. wire # <<>>
      BY <2>2 DEF OnMessage, OnAttack, OnStats, OnIncident
    <3> QED
      BY <1>4, <3>1 DEF LiveInv
  <2> QED
    BY <1>4, <2>1, <2>2, WireStep DEF LiveInv
<1> QED
  BY <1>1, <1>2, <1>3, <1>4, PageStep

LEMMA LiveStep ==
  ASSUME TypeOK, LiveInv, [Next]_vars
  PROVE  LiveInv'
<1>1. "feed" \in Loads /\ "feed" \notin Panels
  BY PanelsAssumption DEF Loads, PanelsAssumption
<1>2. ASSUME Connected'
      PROVE  inflight'["feed"] = <<>>
  <2>1. page' \in {"live", "offline"}
    BY <1>2 DEF Connected
  <2>2. CASE inflight["feed"] = <<>> /\ ~OpenPage
    <3>1. 1..Len(inflight["feed"]) = {}
      BY <2>2
    <3> QED
      BY <1>1, <2>2, <3>1, InflightStep
  <2>3. CASE LiveConnect
    BY <1>1, <2>3 DEF LiveConnect
  <2>4. ~OpenPage /\ ~ClosePage /\ ~(page' = "failed")
    BY <2>1 DEF OpenPage, ClosePage
  <2>5. CASE page' = page \/ SocketConnects \/ SocketDrops
    <3>1. Connected
      BY <2>1, <2>5 DEF Connected, SocketConnects, SocketDrops
    <3> QED
      BY <2>2, <2>4, <3>1 DEF LiveInv
  <2> QED
    BY <2>3, <2>4, <2>5, PageStep
<1> QED
  BY <1>2, WireLive DEF LiveInv

---------------------------------------------------------------------------
(* The order of commit, event and screen.                                  *)

\* What a step can do to the events.
LEMMA EventStep ==
  ASSUME TypeOK, [Next]_vars
  PROVE  /\ stored \subseteq stored'
         /\ \A a \in Attacks :
              \/ event'[a] = event[a] /\ counters'[a] = counters[a]
              \/ Post(a) \/ PostFails(a) \/ Handle(a)
<1>1. ASSUME NEW b \in Attacks, Store(b) \/ Post(b) \/ PostFails(b) \/ Handle(b),
             NEW a \in Attacks
      PROVE  /\ stored \subseteq stored'
             /\ a # b => event'[a] = event[a] /\ counters'[a] = counters[a]
             /\ Store(b) => event' = event /\ counters' = counters
  BY <1>1 DEF TypeOK, Store, Post, PostFails, Handle, EmitNewAttack, Overview, EmitStatsUpdate,
       OverviewFails, EmitIncidentUpdate, SummaryFails
<1>2. CASE UNCHANGED backendVars
  BY <1>2 DEF backendVars
<1>3. \/ UNCHANGED backendVars
      \/ \E b \in Attacks : Store(b) \/ Post(b) \/ PostFails(b) \/ Handle(b)
  BY DEF Next, OpenPage, ClosePage, Rest, Serve, Answer, RequestFails, LiveConnect,
     SocketConnects, SocketDrops, OnMessage, OnAttack, OnStats, OnIncident, ChartTimer,
     HealthTimer, HealthAnswer, vars
<1>4. CASE \E b \in Attacks : Store(b) \/ Post(b) \/ PostFails(b) \/ Handle(b)
  <2>1. PICK b \in Attacks : Store(b) \/ Post(b) \/ PostFails(b) \/ Handle(b)
    BY <1>4
  <2>2. stored \subseteq stored'
    BY <1>1, <2>1
  <2>3. ASSUME NEW a \in Attacks
        PROVE  \/ event'[a] = event[a] /\ counters'[a] = counters[a]
               \/ Post(a) \/ PostFails(a) \/ Handle(a)
    <3>1. CASE a = b
      BY <1>1, <2>1, <3>1
    <3>2. CASE a # b
      BY <1>1, <2>1, <3>2
    <3> QED
      BY <3>1, <3>2
  <2> QED
    BY <2>2, <2>3
<1> QED
  BY <1>2, <1>3, <1>4

LEMMA EventStored ==
  ASSUME TypeOK, StoredInv, [Next]_vars
  PROVE  \A a \in Attacks : /\ event'[a] # "none" => a \in stored'
                            /\ event'[a] = "stats" => a \in counters'[a]
<1> SUFFICES ASSUME NEW a \in Attacks
             PROVE  /\ event'[a] # "none" => a \in stored'
                    /\ event'[a] = "stats" => a \in counters'[a]
  OBVIOUS
<1>1. /\ event[a] # "none" => a \in stored
      /\ event[a] = "stats" => a \in counters[a]
      /\ stored \subseteq stored'
  BY EventStep DEF StoredInv
<1>2. CASE event'[a] = event[a] /\ counters'[a] = counters[a]
  BY <1>1, <1>2
<1>3. CASE Post(a) \/ PostFails(a)
  BY <1>1, <1>3 DEF Post, PostFails, TypeOK
<1>4. CASE Handle(a)
  BY <1>1, <1>4 DEF Handle, EmitNewAttack, Overview, EmitStatsUpdate, OverviewFails,
       EmitIncidentUpdate, SummaryFails, TypeOK
<1> QED
  BY <1>2, <1>3, <1>4, EventStep

\* The wire after an emit: the new message, if at all, is the last one.
LEMMA EmitElements ==
  ASSUME TypeOK, NEW m \in Message, Emit(m)
  PROVE  /\ \A k \in 1..Len(wire') :
              \/ k \in 1..Len(wire) /\ wire'[k] = wire[k]
              \/ k = Len(wire) + 1 /\ wire'[k] = m
         /\ page = "live" => Len(wire') = Len(wire) + 1 /\ wire'[Len(wire) + 1] = m
         /\ \A k \in 1..Len(wire) : k \in 1..Len(wire') /\ wire'[k] = wire[k]
<1>1. wire \in Seq(Message) /\ Len(wire) \in Nat
  BY DEF TypeOK
<1>2. CASE page = "live"
  <2>1. wire' = Append(wire, m)
    BY <1>2 DEF Emit
  <2>2. /\ Len(wire') = Len(wire) + 1
        /\ \A k \in 1..Len(wire) : wire'[k] = wire[k]
        /\ wire'[Len(wire) + 1] = m
    BY <1>1, <2>1, AppendProperties
  <2> QED
    BY <1>1, <2>2
<1>3. CASE page # "live"
  BY <1>1, <1>3 DEF Emit
<1> QED
  BY <1>2, <1>3

\* The wire after a message has been handled.
LEMMA TailElements ==
  ASSUME TypeOK, wire # <<>>, wire' = Tail(wire)
  PROVE  /\ Head(wire) = wire[1] /\ 1 \in 1..Len(wire)
         /\ Head(wire) \in Message
         /\ \A k \in 1..Len(wire') : k + 1 \in 1..Len(wire) /\ wire'[k] = wire[k + 1]
         /\ \A k \in 2..Len(wire) : k - 1 \in 1..Len(wire') /\ wire'[k - 1] = wire[k]
<1>1. wire \in Seq(Message) /\ Len(wire) \in Nat /\ Len(wire) >= 1
  BY EmptySeq DEF TypeOK
<1>2. /\ Head(wire) \in Message /\ Head(wire) = wire[1]
      /\ Len(wire') = Len(wire) - 1
      /\ \A k \in 1..Len(wire') : wire'[k] = wire[k + 1]
  BY <1>1, HeadTailProperties
<1> QED
  BY <1>1, <1>2

\* The messages a handler sends.
NewAttackMessage(a) == [type |-> "new_attack", attack |-> a, counted |-> {}]
StatsMessage(a) == [type |-> "stats_update", attack |-> a, counted |-> counters[a]]
IncidentMessage(a) == [type |-> "incident_update", attack |-> a, counted |-> {}]

LEMMA EmitMessages ==
  ASSUME TypeOK, NEW a \in Attacks
  PROVE  /\ NewAttackMessage(a) \in Message /\ StatsMessage(a) \in Message
         /\ IncidentMessage(a) \in Message
         /\ NewAttackMessage(a).type = "new_attack" /\ NewAttackMessage(a).attack = a
         /\ StatsMessage(a).type = "stats_update" /\ StatsMessage(a).attack = a
         /\ StatsMessage(a).counted = counters[a]
         /\ IncidentMessage(a).type = "incident_update" /\ IncidentMessage(a).attack = a
         /\ EmitNewAttack(a) => Emit(NewAttackMessage(a))
         /\ EmitStatsUpdate(a) => Emit(StatsMessage(a))
         /\ EmitIncidentUpdate(a) => Emit(IncidentMessage(a))
BY DEF TypeOK, Message, NewAttackMessage, StatsMessage, IncidentMessage, EmitNewAttack,
   EmitStatsUpdate, EmitIncidentUpdate

LEMMA WireStored ==
  ASSUME TypeOK, StoredInv, [Next]_vars
  PROVE  \A k \in 1..Len(wire') :
           /\ wire'[k].attack \in stored'
           /\ wire'[k].type = "stats_update" => wire'[k].attack \in wire'[k].counted
<1>1. stored \subseteq stored'
  BY EventStep
<1>2. \A k \in 1..Len(wire) :
        /\ wire[k].attack \in stored'
        /\ wire[k].type = "stats_update" => wire[k].attack \in wire[k].counted
  BY <1>1 DEF StoredInv
<1>3. CASE wire' = wire
  BY <1>2, <1>3
<1>4. CASE wire' = <<>>
  BY <1>4
<1>5. CASE OnMessage /\ wire' = Tail(wire)
  <2>1. wire # <<>>
    BY <1>5 DEF OnMessage, OnAttack, OnStats, OnIncident
  <2>2. \A k \in 1..Len(wire') : k + 1 \in 1..Len(wire) /\ wire'[k] = wire[k + 1]
    BY <1>5, <2>1, TailElements
  <2> QED
    BY <1>2, <2>2
<1>6. ASSUME NEW m \in Message, Emit(m), m.attack \in stored,
             m.type = "stats_update" => m.attack \in m.counted
      PROVE  \A k \in 1..Len(wire') :
               /\ wire'[k].attack \in stored'
               /\ wire'[k].type = "stats_update" => wire'[k].attack \in wire'[k].counted
  BY <1>1, <1>2, <1>6, EmitElements
<1>7. ASSUME NEW a \in Attacks, EmitNewAttack(a) \/ EmitStatsUpdate(a) \/ EmitIncidentUpdate(a)
      PROVE  \A k \in 1..Len(wire') :
               /\ wire'[k].attack \in stored'
               /\ wire'[k].type = "stats_update" => wire'[k].attack \in wire'[k].counted
  <2>1. a \in stored
    BY <1>7 DEF StoredInv, EmitNewAttack, EmitStatsUpdate, EmitIncidentUpdate
  <2>2. EmitStatsUpdate(a) => a \in counters[a]
    BY DEF StoredInv, EmitStatsUpdate
  <2> QED
    BY <1>6, <1>7, <2>1, <2>2, EmitMessages
<1> QED
  BY <1>3, <1>4, <1>5, <1>7, WireStep

\* A panel's requests after one of them was served.
LEMMA ServeElements ==
  ASSUME TypeOK, NEW p \in Loads, NEW k \in 1..Len(inflight[p]), Serve(p, k)
  PROVE  /\ Len(inflight'[p]) = Len(inflight[p])
         /\ inflight'[p][k] = [served |-> TRUE, known |-> stored]
         /\ \A j \in 1..Len(inflight[p]) : j # k => inflight'[p][j] = inflight[p][j]
<1>1. inflight \in [Loads -> Seq(Request)] /\ inflight[p] \in Seq(Request)
  BY DEF TypeOK
<1>2. inflight'[p] = [inflight[p] EXCEPT ![k] = [served |-> TRUE, known |-> stored]]
  BY <1>1 DEF Serve
<1>3. [served |-> TRUE, known |-> stored] \in Request
  BY RequestTypes
<1>4. /\ Len(inflight'[p]) = Len(inflight[p])
      /\ \A j \in 1..Len(inflight[p]) :
           inflight'[p][j] = IF j = k THEN [served |-> TRUE, known |-> stored] ELSE inflight[p][j]
  BY ONLY <1>1, <1>2, <1>3, ExceptSeq
<1> QED
  BY <1>4

\* A panel's requests after one of them is over.
LEMMA OverElements ==
  ASSUME TypeOK, NEW p \in Loads, NEW k \in 1..Len(inflight[p]),
         Answer(p, k) \/ RequestFails(p, k)
  PROVE  /\ Len(inflight'[p]) = Len(inflight[p]) - 1
         /\ \A j \in 1..(Len(inflight[p]) - 1) :
              /\ j < k => inflight'[p][j] = inflight[p][j]
              /\ j >= k => inflight'[p][j] = inflight[p][j + 1]
<1>1. inflight \in [Loads -> Seq(Request)] /\ inflight[p] \in Seq(Request)
  BY DEF TypeOK
<1>2. inflight'[p] = RemoveAt(inflight[p], k)
  BY <1>1 DEF Answer, RequestFails, Over
<1> DEFINE s == inflight[p]
<1>3. s \in Seq(Request) /\ k \in 1..Len(s)
  BY <1>1
<1> HIDE DEF s
<1>4. /\ Len(RemoveAt(s, k)) = Len(s) - 1
      /\ \A j \in 1..(Len(s) - 1) : j < k => RemoveAt(s, k)[j] = s[j]
      /\ \A j \in 1..(Len(s) - 1) : j >= k => RemoveAt(s, k)[j] = s[j + 1]
  BY ONLY <1>3, RemoveAtProperties
<1> QED
  BY ONLY <1>2, <1>4 DEF s

LEMMA InflightStored ==
  ASSUME TypeOK, StoredInv, [Next]_vars, NEW p \in Loads
  PROVE  \A j \in 1..Len(inflight'[p]) : inflight'[p][j].known \subseteq stored'
<1>1. /\ stored \subseteq stored' /\ inflight[p] \in Seq(Request)
      /\ \A j \in 1..Len(inflight[p]) : inflight[p][j].known \subseteq stored'
  BY EventStep DEF StoredInv, TypeOK
<1>2. NewRequest \in Request /\ NewRequest.known = {}
  BY RequestTypes DEF NewRequest
<1>3. CASE inflight'[p] = inflight[p]
  BY <1>1, <1>3
<1>4. CASE inflight'[p] = <<>> \/ inflight'[p] = <<NewRequest>>
  BY <1>2, <1>4
<1>5. CASE inflight'[p] = Append(inflight[p], NewRequest)
  <2>1. /\ Len(inflight'[p]) = Len(inflight[p]) + 1
        /\ \A j \in 1..Len(inflight[p]) : inflight'[p][j] = inflight[p][j]
        /\ inflight'[p][Len(inflight[p]) + 1] = NewRequest
    BY <1>1, <1>2, <1>5, AppendProperties
  <2>2. \A j \in 1..(Len(inflight[p]) + 1) : j \in 1..Len(inflight[p]) \/ j = Len(inflight[p]) + 1
    BY <1>1
  <2> QED
    BY <1>1, <1>2, <2>1, <2>2
<1>6. ASSUME NEW k \in 1..Len(inflight[p]), Serve(p, k)
      PROVE  \A j \in 1..Len(inflight'[p]) : inflight'[p][j].known \subseteq stored'
  <2>1. stored' = stored
    BY <1>6 DEF Serve, backendVars
  <2> QED
    BY <1>1, <1>6, <2>1, ServeElements
<1>7. ASSUME NEW k \in 1..Len(inflight[p]), Answer(p, k) \/ RequestFails(p, k)
      PROVE  \A j \in 1..Len(inflight'[p]) : inflight'[p][j].known \subseteq stored'
  <2>1. /\ Len(inflight'[p]) = Len(inflight[p]) - 1
        /\ \A j \in 1..(Len(inflight[p]) - 1) :
             inflight'[p][j] = inflight[p][j] \/ inflight'[p][j] = inflight[p][j + 1]
    <3>1. /\ Len(inflight'[p]) = Len(inflight[p]) - 1
          /\ \A j \in 1..(Len(inflight[p]) - 1) :
               /\ j < k => inflight'[p][j] = inflight[p][j]
               /\ j >= k => inflight'[p][j] = inflight[p][j + 1]
      BY <1>7, OverElements
    <3>2. \A j \in 1..(Len(inflight[p]) - 1) : j < k \/ j >= k
      BY <1>1
    <3> QED
      BY ONLY <3>1, <3>2
  <2>2. \A j \in 1..(Len(inflight[p]) - 1) : j \in 1..Len(inflight[p]) /\ j + 1 \in 1..Len(inflight[p])
    BY <1>1
  <2> QED
    BY <1>1, <2>1, <2>2
<1> QED
  BY <1>3, <1>4, <1>5, <1>6, <1>7, InflightStep

LEMMA FeedStored ==
  ASSUME TypeOK, StoredInv, [Next]_vars
  PROVE  \A k \in 1..Len(feed') : feed'[k] \in stored'
<1>1. /\ stored \subseteq stored' /\ feed \in Seq(Attacks) /\ Len(feed) <= FeedLimit
      /\ \A k \in 1..Len(feed) : feed[k] \in stored'
  BY EventStep DEF StoredInv, TypeOK
<1>2. CASE feed' = feed
  BY <1>1, <1>2
<1>3. CASE ClosePage
  BY <1>3 DEF ClosePage, Blank
<1>4. ASSUME NEW k \in DOMAIN inflight["feed"], Answer("feed", k)
      PROVE  \A i \in 1..Len(feed') : feed'[i] \in stored'
  <2>1. "feed" \in Loads /\ inflight["feed"] \in Seq(Request) /\ k \in 1..Len(inflight["feed"])
    BY DEF TypeOK, Loads
  <2>2. inflight["feed"][k].known \subseteq stored'
    BY <1>1, <2>1 DEF StoredInv
  <2> QED
    BY <1>4, <2>2, FeedAnswer
<1>5. CASE OnAttack
  <2>1. wire # <<>> /\ wire' = Tail(wire) /\ feed' = Prepend(Head(wire).attack)
    BY <1>5 DEF OnAttack
  <2>2. Head(wire) = wire[1] /\ 1 \in 1..Len(wire) /\ Head(wire) \in Message
    BY <2>1, TailElements
  <2>3. Head(wire).attack \in stored' /\ Head(wire).attack \in Attacks
    BY <1>1, <2>2 DEF StoredInv, Message
  <2>4. /\ feed' \in Seq(Attacks) /\ feed'[1] = Head(wire).attack
        /\ \A i \in 2..Len(feed') : i - 1 \in 1..Len(feed) /\ feed'[i] = feed[i - 1]
    BY <1>1, <2>1, <2>3, PrependProperties
  <2>5. \A i \in 1..Len(feed') : i = 1 \/ i \in 2..Len(feed')
    BY <2>4
  <2> QED
    BY <1>1, <2>3, <2>4, <2>5
<1> QED
  BY <1>2, <1>3, <1>4, <1>5, FeedStep

LEMMA StoredStep ==
  ASSUME TypeOK, StoredInv, [Next]_vars
  PROVE  StoredInv'
<1>1. announced' \subseteq stored'
  <2>1. announced \subseteq stored /\ stored \subseteq stored'
    BY EventStep DEF StoredInv
  <2>2. ASSUME NEW a \in Attacks, EmitNewAttack(a) \/ EmitStatsUpdate(a) \/ EmitIncidentUpdate(a)
        PROVE  announced' \subseteq stored'
    BY <2>1, <2>2 DEF StoredInv, EmitNewAttack, EmitStatsUpdate, EmitIncidentUpdate
  <2> QED
    BY <2>1, <2>2, WireStep
<1> QED
  BY <1>1, EventStored, WireStored, InflightStored, FeedStored DEF StoredInv

---------------------------------------------------------------------------
(* The rows of the feed.                                                   *)

LEMMA EventMonotone ==
  ASSUME TypeOK, [Next]_vars, NEW a \in Attacks, event'[a] \in {"none", "received"}
  PROVE  event[a] \in {"none", "received"}
<1>1. CASE Post(a) \/ PostFails(a)
  BY <1>1 DEF Post, PostFails
<1>2. CASE Handle(a)
  BY <1>2 DEF Handle, EmitNewAttack, Overview, EmitStatsUpdate, OverviewFails,
       EmitIncidentUpdate, SummaryFails, TypeOK
<1> QED
  BY <1>1, <1>2, EventStep

\* A message of an attack is new, or was on the wire before; a new one comes
\* from its handler.
LEMMA CarriesStep ==
  ASSUME TypeOK, [Next]_vars, NEW a \in Attacks, NEW i \in 1..Len(wire'), Carries(i, a)'
  PROVE  \/ i \in 1..Len(wire) /\ Carries(i, a) /\ ~OnMessage
         \/ i + 1 \in 1..Len(wire) /\ Carries(i + 1, a) /\ OnMessage
         \/ i = Len(wire) + 1 /\ EmitNewAttack(a)
<1>1. ASSUME OnMessage
      PROVE  i + 1 \in 1..Len(wire) /\ Carries(i + 1, a) /\ wire' = Tail(wire)
  <2>1. wire # <<>> /\ wire' = Tail(wire)
    BY <1>1 DEF OnMessage, OnAttack, OnStats, OnIncident
  <2>2. i + 1 \in 1..Len(wire) /\ wire'[i] = wire[i + 1]
    BY <2>1, TailElements
  <2> QED
    BY <2>1, <2>2 DEF Carries
<1>2. CASE wire' = wire /\ ~OnMessage
  BY <1>2 DEF Carries
<1>3. CASE wire' = <<>>
  BY <1>3
<1>4. ASSUME NEW b \in Attacks, EmitNewAttack(b)
      PROVE  \/ i \in 1..Len(wire) /\ Carries(i, a)
             \/ i = Len(wire) + 1 /\ EmitNewAttack(a)
  <2>1. \/ i \in 1..Len(wire) /\ wire'[i] = wire[i]
        \/ i = Len(wire) + 1 /\ wire'[i] = NewAttackMessage(b)
    BY <1>4, EmitMessages, EmitElements
  <2> QED
    BY <1>4, <2>1, EmitMessages DEF Carries
<1>5. ASSUME NEW b \in Attacks, EmitStatsUpdate(b) \/ EmitIncidentUpdate(b)
      PROVE  i \in 1..Len(wire) /\ Carries(i, a)
  <2>1. \/ i \in 1..Len(wire) /\ wire'[i] = wire[i]
        \/ i = Len(wire) + 1 /\ wire'[i] \in {StatsMessage(b), IncidentMessage(b)}
    BY <1>5, EmitMessages, EmitElements
  <2>2. StatsMessage(b).type # "new_attack" /\ IncidentMessage(b).type # "new_attack"
    BY EmitMessages
  <2> QED
    BY <2>1, <2>2 DEF Carries
<1> QED
  BY <1>1, <1>2, <1>3, <1>4, <1>5, WireStep

LEMMA EmitNewAttackStep ==
  ASSUME TypeOK, NEW a \in Attacks, EmitNewAttack(a)
  PROVE  event[a] = "received" /\ event'[a] = "count" /\ feed' = feed
BY DEF TypeOK, EmitNewAttack, browserVars

LEMMA RowsWire ==
  ASSUME TypeOK, RowsInv, [Next]_vars, NEW a \in Attacks
  PROVE  /\ \A i, j \in 1..Len(wire') : Carries(i, a)' /\ Carries(j, a)' => i = j
         /\ \A i \in 1..Len(wire') : Carries(i, a)' => event'[a] \notin {"none", "received"}
<1>1. /\ \A i, j \in 1..Len(wire) : Carries(i, a) /\ Carries(j, a) => i = j
      /\ \A i \in 1..Len(wire) : Carries(i, a) => event[a] \notin {"none", "received"}
  BY DEF RowsInv
<1>2. ASSUME NEW i \in 1..Len(wire'), Carries(i, a)'
      PROVE  event'[a] \notin {"none", "received"}
  BY <1>1, <1>2, CarriesStep, EventMonotone, EmitNewAttackStep
<1>3. ASSUME NEW i \in 1..Len(wire'), NEW j \in 1..Len(wire'), Carries(i, a)', Carries(j, a)'
      PROVE  i = j
  <2>1. CASE EmitNewAttack(a)
    <3>1. event[a] = "received"
      BY <2>1, EmitNewAttackStep
    <3>2. \A k \in 1..Len(wire) : ~Carries(k, a)
      BY <1>1, <3>1
    <3> QED
      BY <1>3, <3>2, CarriesStep
  <2>2. CASE ~EmitNewAttack(a) /\ ~OnMessage
    BY <1>1, <1>3, <2>2, CarriesStep
  <2>3. CASE OnMessage
    <3>1. ~EmitNewAttack(a)
      BY <2>3 DEF OnMessage, OnAttack, OnStats, OnIncident, EmitNewAttack, Emit
    <3> QED
      BY <1>1, <1>3, <2>3, <3>1, CarriesStep
  <2> QED
    BY <2>1, <2>2, <2>3
<1> QED
  BY <1>2, <1>3

\* The message that announces an attack to the page is still to come.
Pending(a) ==
  \/ event[a] \in {"none", "received"}
  \/ \E i \in 1..Len(wire) : Carries(i, a)

LEMMA PendingStep ==
  ASSUME TypeOK, RowsInv, [Next]_vars, NEW a \in Attacks, Pending(a)'
  PROVE  /\ Pending(a) /\ OneRow(a)
         /\ OnAttack => Head(wire).attack # a
<1>1. Pending(a)
  <2>1. CASE event'[a] \in {"none", "received"}
    BY <2>1, EventMonotone DEF Pending
  <2>2. ASSUME NEW i \in 1..Len(wire'), Carries(i, a)'
        PROVE  Pending(a)
    BY <2>2, CarriesStep, EmitNewAttackStep DEF Pending
  <2> QED
    BY <2>1, <2>2 DEF Pending
<1>2. OneRow(a)
  BY <1>1 DEF Pending, RowsInv
<1>3. ASSUME OnAttack, Head(wire).attack = a
      PROVE  FALSE
  <2>1. wire # <<>> /\ wire' = Tail(wire) /\ event' = event /\ Head(wire).type = "new_attack"
    BY <1>3 DEF OnAttack, backendVars
  <2>2. 1 \in 1..Len(wire) /\ Carries(1, a)
    BY <1>3, <2>1, TailElements DEF Carries
  <2>3. event'[a] \notin {"none", "received"}
    BY <2>1, <2>2 DEF RowsInv
  <2>4. PICK i \in 1..Len(wire') : Carries(i, a)'
    BY <2>3 DEF Pending
  <2>5. i + 1 \in 1..Len(wire) /\ wire'[i] = wire[i + 1]
    BY <2>1, TailElements
  <2>6. Carries(i + 1, a)
    BY <2>4, <2>5 DEF Carries
  <2>7. i + 1 = 1
    BY <2>2, <2>5, <2>6 DEF RowsInv
  <2> QED
    BY <2>7
<1> QED
  BY <1>1, <1>2, <1>3

NoThreeRows(a) ==
  \A i, j, k \in 1..Len(feed) :
    feed[i] = a /\ feed[j] = a /\ feed[k] = a => i = j \/ j = k \/ i = k

\* What a new message does to the rows of an attack.
LEMMA OnAttackRows ==
  ASSUME TypeOK, RowsInv, OnAttack, NEW a \in Attacks
  PROVE  /\ NoThreeRows(a)'
         /\ Head(wire).attack # a /\ OneRow(a) => OneRow(a)'
<1> DEFINE b == Head(wire).attack
<1>1. wire # <<>> /\ wire' = Tail(wire) /\ feed' = Prepend(b) /\ Head(wire).type = "new_attack"
  BY DEF OnAttack
<1>2. Head(wire) = wire[1] /\ 1 \in 1..Len(wire) /\ Head(wire) \in Message
  BY <1>1, TailElements
<1>3. b \in Attacks
  BY <1>2 DEF Message
<1>4. /\ feed' \in Seq(Attacks) /\ feed'[1] = b
      /\ \A i \in 2..Len(feed') : i - 1 \in 1..Len(feed) /\ feed'[i] = feed[i - 1]
  BY <1>1, <1>3, PrependProperties DEF TypeOK
<1>5. \A i \in 1..Len(feed') : i \in Int /\ (i = 1 \/ i \in 2..Len(feed'))
  BY <1>4
<1>6. b = a => OneRow(a)
  BY <1>1, <1>2 DEF RowsInv, Carries
<1>7. NoThreeRows(a)
  BY DEF RowsInv, NoThreeRows
<1> HIDE DEF b
<1>8. CASE b = a
  <2>1. \A i, j \in 2..Len(feed') : feed'[i] = a /\ feed'[j] = a => i = j
    BY <1>4, <1>5, <1>6, <1>8 DEF OneRow
  <2>2. NoThreeRows(a)'
    BY <1>5, <2>1 DEF NoThreeRows
  <2> QED
    BY <1>8, <2>2 DEF b
<1>9. CASE b # a
  <2>1. \A i \in 1..Len(feed') : feed'[i] = a =>
          i \in Int /\ i - 1 \in 1..Len(feed) /\ feed[i - 1] = a
    BY <1>4, <1>5, <1>9
  <2>2. NoThreeRows(a)'
    <3>1. ASSUME NEW i \in 1..Len(feed'), NEW j \in 1..Len(feed'), NEW k \in 1..Len(feed'),
                 feed'[i] = a, feed'[j] = a, feed'[k] = a
          PROVE  i = j \/ j = k \/ i = k
      <4>1. i - 1 = j - 1 \/ j - 1 = k - 1 \/ i - 1 = k - 1
        BY <1>7, <2>1, <3>1 DEF NoThreeRows
      <4> QED
        BY <4>1
    <3> QED
      BY <3>1 DEF NoThreeRows
  <2>3. OneRow(a) => OneRow(a)'
    BY <2>1 DEF OneRow
  <2> QED
    BY <2>2, <2>3
<1> QED
  BY <1>8, <1>9

LEMMA RowsFeed ==
  ASSUME TypeOK, RowsInv, [Next]_vars, NEW a \in Attacks
  PROVE  /\ Pending(a)' => OneRow(a)'
         /\ NoThreeRows(a)'
<1>1. CASE feed' = feed
  <2>1. NoThreeRows(a)
    BY DEF RowsInv, NoThreeRows
  <2>2. NoThreeRows(a)'
    BY ONLY <1>1, <2>1 DEF NoThreeRows
  <2>3. ASSUME Pending(a)'
        PROVE  OneRow(a)'
    <3>1. OneRow(a)
      BY <2>3, PendingStep
    <3> QED
      BY ONLY <1>1, <3>1 DEF OneRow
  <2> QED
    BY <2>2, <2>3
<1>2. CASE ClosePage
  <2>1. feed' = <<>>
    BY <1>2 DEF ClosePage, Blank
  <2> QED
    BY <2>1 DEF OneRow, NoThreeRows
<1>3. CASE \E k \in DOMAIN inflight["feed"] : Answer("feed", k)
  <2>1. \A i, j \in 1..Len(feed') : feed'[i] = feed'[j] => i = j
    BY <1>3, FeedAnswer
  <2> QED
    BY <2>1 DEF OneRow, NoThreeRows
<1>4. CASE OnAttack
  BY <1>4, OnAttackRows, PendingStep
<1> QED
  BY <1>1, <1>2, <1>3, <1>4, FeedStep

LEMMA RowsStep ==
  ASSUME TypeOK, RowsInv, [Next]_vars
  PROVE  RowsInv'
BY RowsWire, RowsFeed DEF RowsInv, Pending, NoThreeRows

\* At most two rows, counted.
LEMMA TwoRows ==
  ASSUME TypeOK, RowsInv, NEW a \in Attacks
  PROVE  Cardinality(FeedRows(a)) <= 2
<1> DEFINE R == FeedRows(a)
<1>1. DOMAIN feed = 1..Len(feed) /\ Len(feed) \in Nat
  BY DEF TypeOK
<1>2. IsFiniteSet(1..Len(feed)) /\ R \subseteq 1..Len(feed)
  BY <1>1, FS_Interval DEF FeedRows
<1>3. IsFiniteSet(R) /\ Cardinality(R) \in Nat
  BY <1>2, FS_Subset, FS_CardinalityType
<1>4. \A i, j, k \in R : i = j \/ j = k \/ i = k
  BY <1>1 DEF FeedRows, RowsInv
<1> HIDE DEF R
<1> SUFFICES Cardinality(R) <= 2
  BY DEF R
<1>5. CASE R = {}
  BY <1>5, FS_EmptySet
<1>6. CASE R # {}
  <2>1. PICK i \in R : TRUE
    BY <1>6
  <2>2. IsFiniteSet(R \ {i}) /\ Cardinality(R \ {i}) = Cardinality(R) - 1
    BY <1>3, <2>1, FS_RemoveElement
  <2>3. CASE R \ {i} = {}
    <3>1. Cardinality(R \ {i}) = 0
      BY <2>3, FS_EmptySet
    <3> QED
      BY <1>3, <2>2, <3>1
  <2>4. CASE R \ {i} # {}
    <3>1. PICK j \in R \ {i} : TRUE
      BY <2>4
    <3>2. (R \ {i}) \ {j} = {}
      BY <1>4, <2>1, <3>1
    <3>3. Cardinality((R \ {i}) \ {j}) = 0
      BY <3>2, FS_EmptySet
    <3>4. Cardinality((R \ {i}) \ {j}) = Cardinality(R \ {i}) - 1
      BY <2>2, <3>1, FS_RemoveElement
    <3> QED
      BY <1>3, <2>2, <3>3, <3>4
  <2> QED
    BY <2>3, <2>4
<1> QED
  BY <1>5, <1>6

---------------------------------------------------------------------------
(* What was announced to the page.                                         *)

LEMMA TransitCarries ==
  ASSUME TypeOK, NEW a
  PROVE  InTransit(a) <=> \E k \in 1..Len(wire) : Carries(k, a)
BY DEF TypeOK, InTransit, Carries

LEMMA TransitCarriesNext ==
  ASSUME TypeOK', NEW a
  PROVE  InTransit(a)' <=> \E k \in 1..Len(wire') : Carries(k, a)'
BY DEF TypeOK, InTransit, Carries

\* On a connection that stays, a message is on its way until the page has
\* handled it.
LEMMA TransitStep ==
  ASSUME TypeOK, TypeOK', [Next]_vars, NEW a \in Attacks, InTransit(a), page' = "live"
  PROVE  InTransit(a)' \/ (OnAttack /\ Head(wire).attack = a)
<1>1. PICK k \in 1..Len(wire) : Carries(k, a)
  BY TransitCarries
<1>2. CASE wire' = wire
  BY <1>1, <1>2, TransitCarriesNext DEF Carries
<1>3. ASSUME NEW m \in Message, Emit(m)
      PROVE  InTransit(a)'
  <2>1. k \in 1..Len(wire') /\ wire'[k] = wire[k]
    BY <1>3, EmitElements
  <2> QED
    BY <1>1, <2>1, TransitCarriesNext DEF Carries
<1>4. ASSUME NEW b \in Attacks, EmitNewAttack(b) \/ EmitStatsUpdate(b) \/ EmitIncidentUpdate(b)
      PROVE  InTransit(a)'
  BY <1>3, <1>4, EmitMessages
<1>5. CASE OnMessage
  <2>1. wire # <<>> /\ wire' = Tail(wire)
    BY <1>5 DEF OnMessage, OnAttack, OnStats, OnIncident
  <2>2. CASE k = 1
    <3>1. Head(wire).type = "new_attack" /\ Head(wire).attack = a
      BY <1>1, <2>1, <2>2, TailElements DEF Carries
    <3> QED
      BY <1>5, <3>1 DEF OnMessage, OnStats, OnIncident
  <2>3. CASE k # 1
    <3>1. k \in 2..Len(wire)
      BY <1>1, <2>3
    <3>2. k - 1 \in 1..Len(wire') /\ wire'[k - 1] = wire[k]
      BY <2>1, <3>1, TailElements
    <3> QED
      BY <1>1, <3>2, TransitCarriesNext DEF Carries
  <2> QED
    BY <2>2, <2>3
<1> QED
  BY <1>2, <1>4, <1>5, WireStep

\* A new announcement is on its way; a new connection has none.
LEMMA AnnouncedNew ==
  ASSUME TypeOK, TypeOK', [Next]_vars, page' = "live", NEW a \in announced'
  PROVE  (page = "live" /\ a \in announced) \/ InTransit(a)'
<1>1. CASE SocketConnects
  BY <1>1 DEF SocketConnects
<1>2. CASE page = "live"
  <2>1. ASSUME NEW b \in Attacks, EmitNewAttack(b)
        PROVE  a \in announced \/ InTransit(a)'
    <3>1. CASE a = b
      <4>1. Len(wire') = Len(wire) + 1 /\ wire'[Len(wire) + 1] = NewAttackMessage(b)
        BY <1>2, <2>1, EmitMessages, EmitElements
      <4>2. Len(wire') \in 1..Len(wire') /\ wire'[Len(wire')] = NewAttackMessage(b)
        BY <4>1 DEF TypeOK
      <4>3. Carries(Len(wire), b)'
        BY <4>2, EmitMessages DEF Carries
      <4> QED
        BY <3>1, <4>2, <4>3, TransitCarriesNext
    <3>2. CASE a # b
      BY <2>1, <3>2 DEF EmitNewAttack
    <3> QED
      BY <3>1, <3>2
  <2>2. ASSUME NEW b \in Attacks, EmitStatsUpdate(b) \/ EmitIncidentUpdate(b)
        PROVE  a \in announced
    BY <2>2 DEF EmitStatsUpdate, EmitIncidentUpdate
  <2> QED
    BY <1>2, <2>1, <2>2, WireStep
<1>3. page = "live" \/ SocketConnects
  BY PageStep DEF OpenPage, ClosePage, LiveConnect, SocketDrops
<1> QED
  BY <1>1, <1>2, <1>3

Visible(a) == FeedRows(a) # {} \/ Len(feed) = FeedLimit

\* A live page does not give up a row, except to a full feed.
LEMMA VisibleStep ==
  ASSUME TypeOK, TypeOK', LiveInv, [Next]_vars, page = "live", page' = "live", NEW a \in Attacks
  PROVE  /\ Visible(a) => Visible(a)'
         /\ OnAttack /\ Head(wire).attack = a => Visible(a)'
<1>1. /\ FeedRows(a) # {} <=> \E k \in 1..Len(feed) : feed[k] = a
      /\ FeedRows(a)' # {} <=> \E k \in 1..Len(feed') : feed'[k] = a
  BY DEF TypeOK, FeedRows
<1>2. CASE feed' = feed /\ ~OnAttack
  BY <1>2 DEF Visible, FeedRows
<1>3. ~ClosePage
  BY DEF ClosePage
<1>4. DOMAIN inflight["feed"] = {}
  BY DEF LiveInv, Connected
<1>5. CASE OnAttack
  <2> DEFINE b == Head(wire).attack
  <2>1. wire # <<>> /\ wire' = Tail(wire) /\ feed' = Prepend(b)
    BY <1>5 DEF OnAttack
  <2>2. b \in Attacks
    BY <2>1, TailElements DEF Message
  <2> HIDE DEF b
  <2>3. feed \in Seq(Attacks) /\ Len(feed) <= FeedLimit /\ FeedLimit \in Nat
    BY LimitAssumption DEF TypeOK, LimitAssumption
  <2>4. /\ feed' \in Seq(Attacks) /\ feed'[1] = b /\ Len(feed') >= 1
        /\ Len(feed) < FeedLimit => Len(feed') = Len(feed) + 1
        /\ Len(feed) = FeedLimit => Len(feed') = FeedLimit
        /\ \A i \in 2..Len(feed') : feed'[i] = feed[i - 1]
    BY <2>1, <2>2, <2>3, PrependProperties
  <2>5. b = a => Visible(a)'
    <3>1. 1 \in 1..Len(feed')
      BY <2>4
    <3> QED
      BY <1>1, <2>4, <3>1 DEF Visible
  <2>6. ASSUME NEW k \in 1..Len(feed), feed[k] = a
        PROVE  Visible(a)'
    <3>1. CASE Len(feed) = FeedLimit
      BY <2>4, <3>1 DEF Visible
    <3>2. CASE Len(feed) < FeedLimit
      <4>1. k + 1 \in 2..Len(feed') /\ k + 1 \in 1..Len(feed') /\ (k + 1) - 1 = k
        BY <2>3, <2>4, <3>2
      <4>2. feed'[k + 1] = a
        BY <2>4, <2>6, <4>1
      <4> QED
        BY <1>1, <4>1, <4>2 DEF Visible
    <3> QED
      BY <2>3, <3>1, <3>2
  <2>7. Len(feed) = FeedLimit => Visible(a)'
    BY <2>4 DEF Visible
  <2> QED
    BY <1>1, <2>5, <2>6, <2>7 DEF Visible, b
<1> QED
  BY <1>2, <1>3, <1>4, <1>5, FeedStep

LEMMA AnnouncedStep ==
  ASSUME TypeOK, TypeOK', LiveInv, AnnouncedIsShown, [Next]_vars
  PROVE  AnnouncedIsShown'
<1> SUFFICES ASSUME page' = "live", NEW a \in announced'
             PROVE  InTransit(a)' \/ Visible(a)'
  BY DEF AnnouncedIsShown, Visible
<1>1. CASE page = "live" /\ a \in announced
  <2>1. a \in Attacks
    BY <1>1 DEF TypeOK
  <2>2. InTransit(a) \/ Visible(a)
    BY <1>1 DEF AnnouncedIsShown, Visible
  <2> QED
    BY <1>1, <2>1, <2>2, TransitStep, VisibleStep
<1> QED
  BY <1>1, AnnouncedNew

---------------------------------------------------------------------------
(* What the panels reflect.                                                *)

\* What a step can do to a panel that is loaded over REST alone.
LEMMA ShownStep ==
  ASSUME TypeOK, [Next]_vars, NEW p \in Panels, p # "stats", page' # "closed"
  PROVE  \/ shown'[p] = shown[p] /\ (p \in stale => p \in stale')
         \/ \E k \in 1..Len(inflight[p]) : Answer(p, k)
<1>1. shown \in [Panels -> SUBSET Attacks] /\ p \in Loads /\ p # "feed"
  BY PanelsAssumption DEF TypeOK, Loads, PanelsAssumption
<1>2. ASSUME NEW a \in Attacks, Store(a) \/ Post(a) \/ PostFails(a) \/ Handle(a)
      PROVE  shown' = shown /\ stale' = stale
  BY <1>2 DEF Store, Post, PostFails, Handle, EmitNewAttack, Overview, EmitStatsUpdate,
       OverviewFails, EmitIncidentUpdate, SummaryFails, browserVars
<1>3. CASE \/ OpenPage \/ LiveConnect \/ SocketConnects \/ SocketDrops \/ OnAttack \/ OnIncident
           \/ ChartTimer \/ HealthTimer \/ HealthAnswer
  BY <1>3 DEF OpenPage, LiveConnect, SocketConnects, SocketDrops, OnAttack, OnIncident,
       ChartTimer, HealthTimer, HealthAnswer
<1>4. CASE OnStats
  BY <1>1, <1>4 DEF OnStats
<1>5. ~ClosePage
  BY DEF ClosePage
<1>6. ASSUME NEW q \in Loads, NEW k \in DOMAIN inflight[q],
             Serve(q, k) \/ Answer(q, k) \/ RequestFails(q, k)
      PROVE  \/ shown'[p] = shown[p] /\ (p \in stale => p \in stale')
             \/ q = p /\ k \in 1..Len(inflight[p]) /\ Answer(p, k)
  <2>1. inflight[q] \in Seq(Request)
    BY DEF TypeOK
  <2>2. k \in 1..Len(inflight[q])
    BY <2>1
  <2>3. CASE q = p
    BY <1>6, <2>2, <2>3 DEF Serve, RequestFails
  <2>4. CASE q # p
    BY <1>1, <1>6, <2>4 DEF Serve, Answer, RequestFails
  <2> QED
    BY <2>3, <2>4
<1>7. CASE UNCHANGED vars
  BY <1>7 DEF vars, browserVars
<1> QED
  BY <1>2, <1>3, <1>4, <1>5, <1>6, <1>7 DEF Next, Rest, OnMessage

\* What a step can do to the count of a panel's late requests.
LEMMA LateStep ==
  ASSUME TypeOK, [Next]_vars, NEW p \in Loads
  PROVE  \/ OpenPage \/ ClosePage
         \/ late'[p] = late[p]
         \/ \E k \in 1..Len(inflight[p]) : Answer(p, k) \/ RequestFails(p, k)
<1>1. ASSUME NEW a \in Attacks, Store(a) \/ Post(a) \/ PostFails(a) \/ Handle(a)
      PROVE  late' = late
  BY <1>1 DEF Store, Post, PostFails, Handle, EmitNewAttack, Overview, EmitStatsUpdate,
       OverviewFails, EmitIncidentUpdate, SummaryFails, browserVars
<1>2. CASE \/ LiveConnect \/ SocketConnects \/ SocketDrops \/ OnAttack \/ OnStats \/ OnIncident
           \/ ChartTimer \/ HealthTimer \/ HealthAnswer
  BY <1>2 DEF LiveConnect, SocketConnects, SocketDrops, OnAttack, OnStats, OnIncident,
       ChartTimer, HealthTimer, HealthAnswer
<1>3. ASSUME NEW q \in Loads, NEW k \in DOMAIN inflight[q],
             Serve(q, k) \/ Answer(q, k) \/ RequestFails(q, k)
      PROVE  \/ late'[p] = late[p]
             \/ q = p /\ k \in 1..Len(inflight[p]) /\ (Answer(p, k) \/ RequestFails(p, k))
  <2>1. inflight[q] \in Seq(Request) /\ late \in [Loads -> Nat]
    BY DEF TypeOK
  <2>2. CASE Serve(q, k)
    BY <2>2 DEF Serve
  <2>3. CASE q # p /\ (Answer(q, k) \/ RequestFails(q, k))
    BY <2>1, <2>3 DEF Answer, RequestFails, Over
  <2> QED
    BY <1>3, <2>1, <2>2, <2>3
<1>4. CASE UNCHANGED vars
  BY <1>4 DEF vars, browserVars
<1> QED
  BY <1>1, <1>2, <1>3, <1>4 DEF Next, Rest, OnMessage

\* A late request, once over, leaves one late request less; any other one
\* makes those before it late.
LEMMA OverLate ==
  ASSUME TypeOK, NEW p \in Loads, NEW k \in 1..Len(inflight[p]),
         Answer(p, k) \/ RequestFails(p, k)
  PROVE  /\ k <= late[p] => late'[p] = late[p] - 1
         /\ ~(k <= late[p]) => late'[p] = k - 1
BY DEF TypeOK, Answer, RequestFails, Over, Overtaken

LEMMA LateInvStep ==
  ASSUME TypeOK, LateInv, [Next]_vars
  PROVE  LateInv'
<1> SUFFICES ASSUME NEW p \in Loads
             PROVE  late'[p] <= Len(inflight'[p])
  BY DEF LateInv, Loads
<1>1. late[p] \in Nat /\ inflight[p] \in Seq(Request) /\ late[p] <= Len(inflight[p])
  BY DEF TypeOK, LateInv
<1>2. CASE OpenPage \/ ClosePage
  <2>1. late'[p] = 0 /\ inflight'[p] \in Seq(Request)
    BY <1>2, InflightType DEF OpenPage, ClosePage, Blank
  <2> QED
    BY <2>1
<1>3. ASSUME NEW k \in 1..Len(inflight[p]), Answer(p, k) \/ RequestFails(p, k)
      PROVE  late'[p] <= Len(inflight'[p])
  <2>1. Len(inflight'[p]) = Len(inflight[p]) - 1
    BY <1>3, OverElements
  <2>2. CASE k <= late[p]
    BY <1>1, <1>3, <2>1, <2>2, OverLate
  <2>3. CASE ~(k <= late[p])
    BY <1>1, <1>3, <2>1, <2>3, OverLate
  <2> QED
    BY <2>2, <2>3
<1>4. CASE late'[p] = late[p] /\ ~OpenPage /\ ~ClosePage
  <2>1. CASE inflight'[p] = inflight[p]
    BY <1>1, <1>4, <2>1
  <2>2. CASE inflight'[p] = Append(inflight[p], NewRequest)
    <3>1. Len(inflight'[p]) = Len(inflight[p]) + 1
      BY <1>1, <2>2, RequestTypes, AppendProperties
    <3> QED
      BY <1>1, <1>4, <3>1
  <2>3. ASSUME NEW k \in 1..Len(inflight[p]), Serve(p, k)
        PROVE  late'[p] <= Len(inflight'[p])
    <3>1. Len(inflight'[p]) = Len(inflight[p])
      BY <2>3, ServeElements
    <3> QED
      BY <1>1, <1>4, <3>1
  <2> QED
    BY <1>3, <1>4, <2>1, <2>2, <2>3, InflightStep
<1> QED
  BY <1>2, <1>3, <1>4, LateStep

\* A new request is still to be served.
LEMMA AskCovers ==
  ASSUME TypeOK, LateInv, NEW p \in Loads, inflight'[p] = Append(inflight[p], NewRequest),
         late'[p] = late[p], NEW a
  PROVE  Covered(p, a)'
<1>1. inflight[p] \in Seq(Request) /\ NewRequest \in Request
  BY RequestTypes DEF TypeOK
<1>2. /\ Len(inflight'[p]) = Len(inflight[p]) + 1
      /\ inflight'[p][Len(inflight[p]) + 1] = NewRequest
  BY <1>1, AppendProperties
<1>3. inflight'[p][Len(inflight'[p])].served = FALSE
  BY <1>2 DEF NewRequest
<1>4. late[p] \in Nat /\ late[p] <= Len(inflight[p])
  BY DEF TypeOK, LateInv
<1>5. late'[p] < Len(inflight'[p])
  BY <1>1, <1>2, <1>4
<1> QED
  BY <1>3, <1>5 DEF Covered

\* A step that ends a request keeps a panel covered: while the newest request
\* is not over it still is the one that counts, and a late answer that
\* replaces what the panel shows makes it stale.
LEMMA OverCovers ==
  ASSUME TypeOK, LateInv, NEW p \in Panels \cap {"alerts", "charts"}, NEW a,
         Covered(p, a), NEW k \in 1..Len(inflight[p]), Answer(p, k) \/ RequestFails(p, k)
  PROVE  Covered(p, a)'
<1> DEFINE s == inflight[p]
           n == Len(s)
<1>1. p \in Loads /\ p # "feed" /\ p \in Panels
  BY DEF Loads
<1>2. s \in Seq(Request) /\ n \in Nat /\ late[p] \in Nat /\ late[p] <= n
  BY <1>1 DEF TypeOK, LateInv
<1>3. /\ late[p] < n => ~s[n].served \/ a \in s[n].known
      /\ ~(late[p] < n) => p \in stale \/ a \in shown[p]
  BY DEF Covered
<1>4. /\ Len(inflight'[p]) = n - 1
      /\ \A j \in 1..(n - 1) : j >= k => inflight'[p][j] = s[j + 1]
  BY <1>1, OverElements
<1>5. /\ k <= late[p] => late'[p] = late[p] - 1
      /\ ~(k <= late[p]) => late'[p] = k - 1
  BY <1>1, OverLate
<1>6. shown \in [Panels -> SUBSET Attacks]
  BY DEF TypeOK
<1>7. ASSUME late[p] < n, k < n
      PROVE  Covered(p, a)'
    \* The newest request stays the newest.
  <2> HIDE DEF s, n
  <2>1. k \in Nat /\ k >= 1
    BY <1>2 DEF n
  <2>2. late'[p] < n - 1
    BY <1>2, <1>5, <1>7, <2>1
  <2>3. n - 1 \in 1..(n - 1) /\ n - 1 >= k /\ (n - 1) + 1 = n
    BY <1>2, <1>7, <2>1
  <2>4. inflight'[p][n - 1] = s[n]
    BY <1>4, <2>3
  <2>5. ~s[n].served \/ a \in s[n].known
    BY <1>3, <1>7
  <2> QED
    BY <1>4, <2>2, <2>4, <2>5 DEF Covered
<1>8. ASSUME late[p] < n, k = n
      PROVE  Covered(p, a)'
    \* The newest request is over.
  <2>1. ~(k <= late[p]) /\ ~(late'[p] < Len(inflight'[p]))
    BY <1>2, <1>4, <1>5, <1>8
  <2>2. Answer(p, k) => s[k].served /\ shown'[p] = s[k].known
    BY <1>1, <1>6 DEF Answer
  <2>3. RequestFails(p, k) => p \in stale'
    BY <2>1 DEF RequestFails, Overtaken
  <2>4. a \in shown'[p] \/ p \in stale'
    BY <1>3, <1>8, <2>2, <2>3
  <2> QED
    BY <2>1, <2>4 DEF Covered
<1>9. ASSUME ~(late[p] < n)
      PROVE  Covered(p, a)'
    \* The newest request was over before; this one is late.
  <2>1. k <= late[p] /\ ~(late'[p] < Len(inflight'[p]))
    BY <1>2, <1>4, <1>5, <1>9
  <2>2. Answer(p, k) => p \in stale'
    BY <2>1 DEF Answer, Overtaken
  <2>3. RequestFails(p, k) => shown' = shown /\ stale' = stale
    BY <2>1 DEF RequestFails, Overtaken
  <2>4. a \in shown'[p] \/ p \in stale'
    BY <1>3, <1>9, <2>2, <2>3
  <2> QED
    BY <2>1, <2>4 DEF Covered
<1> QED
  BY <1>2, <1>7, <1>8, <1>9

\* A live page never gives up the answer that will show an announced attack.
LEMMA CoveredStep ==
  ASSUME TypeOK, LateInv, StoredInv, [Next]_vars, page' = "live", page = "live",
         NEW p \in Panels \cap {"alerts", "charts"}, NEW a \in announced, Covered(p, a)
  PROVE  Covered(p, a)'
<1> DEFINE s == inflight[p]
           n == Len(s)
<1>1. p \in Loads /\ p # "feed" /\ p # "stats" /\ p \in Panels
  BY DEF Loads
<1>2. s \in Seq(Request) /\ n \in Nat /\ late[p] \in Nat /\ late[p] <= n
  BY <1>1 DEF TypeOK, LateInv
<1>3. /\ late[p] < n => ~s[n].served \/ a \in s[n].known
      /\ ~(late[p] < n) => p \in stale \/ a \in shown[p]
  BY DEF Covered
<1>4. a \in stored
  BY DEF StoredInv
<1>5. ~OpenPage /\ ~ClosePage
  BY DEF OpenPage, ClosePage
<1>6. CASE \E k \in 1..Len(inflight[p]) : Answer(p, k) \/ RequestFails(p, k)
  BY <1>6, OverCovers
<1>7. CASE ~\E k \in 1..Len(inflight[p]) : Answer(p, k) \/ RequestFails(p, k)
  <2>1. late'[p] = late[p]
    BY <1>1, <1>5, <1>7, LateStep
  <2>2. shown'[p] = shown[p] /\ (p \in stale => p \in stale')
    BY <1>1, <1>7, ShownStep
  <2>3. CASE inflight'[p] = s
    BY <1>3, <2>1, <2>2, <2>3 DEF Covered
  <2>4. CASE inflight'[p] = Append(s, NewRequest)
    BY <1>1, <2>1, <2>4, AskCovers
  <2>5. ASSUME NEW k \in 1..n, Serve(p, k)
        PROVE  Covered(p, a)'
    <3>1. /\ Len(inflight'[p]) = n
          /\ inflight'[p][k] = [served |-> TRUE, known |-> stored]
          /\ \A j \in 1..n : j # k => inflight'[p][j] = s[j]
      BY <1>1, <2>5, ServeElements
    <3>2. n \in 1..n
      BY <1>2
    <3>3. CASE ~(late[p] < n)
      BY <1>3, <2>1, <2>2, <3>1, <3>3 DEF Covered
    <3>4. CASE late[p] < n
      <4>1. ~inflight'[p][n].served \/ a \in inflight'[p][n].known
        BY <1>3, <1>4, <3>1, <3>2, <3>4
      <4> QED
        BY <2>1, <3>1, <3>4, <4>1 DEF Covered
    <3> QED
      BY <3>3, <3>4
  <2> QED
    BY <1>1, <1>5, <1>7, <2>3, <2>4, <2>5, InflightStep
<1> QED
  BY <1>6, <1>7

\* The chart refresh that an announcement schedules asks for the charts.
LEMMA TimerStep ==
  ASSUME TypeOK, LateInv, [Next]_vars, page' = "live", timer, "charts" \in Panels, NEW a
  PROVE  timer' \/ Covered("charts", a)'
<1>1. "charts" \in Loads /\ inflight \in [Loads -> Seq(Request)]
  BY DEF Loads, TypeOK
<1>2. CASE ChartTimer
  <2>1. inflight' = [inflight EXCEPT !["charts"] = Append(inflight["charts"], NewRequest)]
    BY <1>2 DEF ChartTimer, Ask
  <2>2. inflight'["charts"] = Append(inflight["charts"], NewRequest)
    BY <1>1, <2>1
  <2>3. late' = late
    BY <1>2 DEF ChartTimer
  <2> QED
    BY <1>1, <2>2, <2>3, AskCovers
<1>3. ASSUME NEW b \in Attacks, Store(b) \/ Post(b) \/ PostFails(b) \/ Handle(b)
      PROVE  timer' = timer
  BY <1>3 DEF Store, Post, PostFails, Handle, EmitNewAttack, Overview, EmitStatsUpdate,
       OverviewFails, EmitIncidentUpdate, SummaryFails, browserVars
<1>4. CASE \/ OpenPage \/ LiveConnect \/ SocketConnects \/ SocketDrops \/ OnStats \/ OnIncident
           \/ HealthTimer \/ HealthAnswer
  BY <1>4 DEF OpenPage, LiveConnect, SocketConnects, SocketDrops, OnStats, OnIncident,
       HealthTimer, HealthAnswer
<1>5. CASE OnAttack
  BY <1>5 DEF OnAttack
<1>6. ~ClosePage
  BY DEF ClosePage
<1>7. ASSUME NEW q \in Loads, NEW k \in DOMAIN inflight[q],
             Serve(q, k) \/ Answer(q, k) \/ RequestFails(q, k)
      PROVE  timer' = timer
  BY <1>7 DEF Serve, Answer, RequestFails
<1>8. CASE UNCHANGED vars
  BY <1>8 DEF vars, browserVars
<1> QED
  BY <1>2, <1>3, <1>4, <1>5, <1>6, <1>7, <1>8 DEF Next, Rest, OnMessage

\* The handler of an announcement asks for the alerts and schedules the charts.
LEMMA OnAttackCovers ==
  ASSUME TypeOK, LateInv, OnAttack, NEW a
  PROVE  timer' /\ ("alerts" \in Panels => Covered("alerts", a)')
<1>1. timer' = TRUE /\ Ask("alerts")
  BY DEF OnAttack
<1>2. ASSUME "alerts" \in Panels
      PROVE  Covered("alerts", a)'
  <2>1. "alerts" \in Loads /\ inflight \in [Loads -> Seq(Request)]
    BY <1>2 DEF Loads, TypeOK
  <2>2. inflight' = [inflight EXCEPT !["alerts"] = Append(inflight["alerts"], NewRequest)]
    BY <1>1, <1>2 DEF Ask
  <2>3. inflight'["alerts"] = Append(inflight["alerts"], NewRequest)
    BY <2>1, <2>2
  <2>4. late' = late
    BY DEF OnAttack
  <2> QED
    BY <2>1, <2>3, <2>4, AskCovers
<1> QED
  BY <1>1, <1>2

LEMMA CurrentStep ==
  ASSUME TypeOK, TypeOK', LateInv, StoredInv, CurrentInv, [Next]_vars
  PROVE  CurrentInv'
<1> SUFFICES ASSUME page' = "live", NEW a \in announced'
             PROVE  /\ "alerts" \in Panels => InTransit(a)' \/ Covered("alerts", a)'
                    /\ "charts" \in Panels => InTransit(a)' \/ timer' \/ Covered("charts", a)'
  BY DEF CurrentInv
<1>1. CASE page = "live" /\ a \in announced
  <2>1. a \in Attacks
    BY <1>1 DEF TypeOK
  <2>2. /\ "alerts" \in Panels => InTransit(a) \/ Covered("alerts", a)
        /\ "charts" \in Panels => InTransit(a) \/ timer \/ Covered("charts", a)
    BY <1>1 DEF CurrentInv
  <2>3. InTransit(a) => InTransit(a)' \/ OnAttack
    BY <2>1, TransitStep
  <2>4. ASSUME "alerts" \in Panels
        PROVE  InTransit(a)' \/ Covered("alerts", a)'
    BY <1>1, <2>2, <2>3, <2>4, OnAttackCovers, CoveredStep
  <2>5. ASSUME "charts" \in Panels
        PROVE  InTransit(a)' \/ timer' \/ Covered("charts", a)'
    BY <1>1, <2>2, <2>3, <2>5, OnAttackCovers, CoveredStep, TimerStep
  <2> QED
    BY <2>4, <2>5
<1> QED
  BY <1>1, AnnouncedNew

---------------------------------------------------------------------------
(* The theorems.                                                           *)

IInv ==
  /\ TypeOK
  /\ StoredInv
  /\ LiveInv
  /\ RowsInv
  /\ AnnouncedIsShown
  /\ LateInv
  /\ CurrentInv

LEMMA InitInv == Init => IInv
<1> SUFFICES ASSUME Init PROVE IInv
  OBVIOUS
<1>1. StoredInv
  BY DEF Init, StoredInv
<1>2. LiveInv /\ AnnouncedIsShown /\ CurrentInv
  BY DEF Init, LiveInv, Connected, AnnouncedIsShown, CurrentInv
<1>3. RowsInv
  BY DEF Init, RowsInv, OneRow, Carries
<1>4. LateInv
  BY DEF Init, LateInv
<1> QED
  BY <1>1, <1>2, <1>3, <1>4, InitType DEF IInv

LEMMA StepInv == IInv /\ [Next]_vars => IInv'
BY TypeStep, StoredStep, LiveStep, RowsStep, AnnouncedStep, LateInvStep, CurrentStep DEF IInv

\* The inductive invariant of the backend, the socket and the page.
THEOREM Inductive == Spec => []IInv
BY InitInv, StepInv, PTL DEF Spec

\* The feed shows stored attacks only, each at most twice.
THEOREM RowsSound == Spec => []FeedSound
<1>1. IInv => FeedSound
  <2> SUFFICES ASSUME IInv PROVE FeedSound
    OBVIOUS
  <2>1. DOMAIN feed = 1..Len(feed)
    BY DEF IInv, TypeOK
  <2>2. \A k \in DOMAIN feed : feed[k] \in stored
    BY <2>1 DEF IInv, StoredInv
  <2>3. \A a \in Attacks : Cardinality(FeedRows(a)) <= 2
    BY TwoRows DEF IInv
  <2> QED
    BY <2>2, <2>3 DEF FeedSound
<1> QED
  BY <1>1, Inductive, PTL

\* The initial load never overwrites what the socket delivered.
THEOREM NothingOverwritten == Spec => []AnnouncedIsShown
<1>1. IInv => AnnouncedIsShown
  BY DEF IInv
<1> QED
  BY <1>1, Inductive, PTL

\* The counters sent after an attack count it, whichever handler sends them.
THEOREM StatsCount == Spec => []StatsCoverAttack
<1>1. IInv => StatsCoverAttack
  <2> SUFFICES ASSUME IInv PROVE StatsCoverAttack
    OBVIOUS
  <2>1. DOMAIN wire = 1..Len(wire)
    BY DEF IInv, TypeOK
  <2> QED
    BY <2>1 DEF IInv, StoredInv, StatsCoverAttack
<1> QED
  BY <1>1, Inductive, PTL

\* A page that has calmed down shows what it was told of, in whatever order
\* the answers came, except on a panel whose newest request failed or was
\* answered before an older one.
THEOREM CalmIsCurrent == Spec => []PanelsCurrent
<1>1. IInv => PanelsCurrent
  <2> SUFFICES ASSUME IInv, Quiet, NEW p \in ({"alerts", "charts"} \cap Panels) \ stale,
                      NEW a \in announced
               PROVE  a \in shown[p]
    BY DEF PanelsCurrent
  <2>1. page = "live" /\ wire = <<>> /\ ~timer /\ inflight[p] = <<>>
    BY DEF Quiet, Loads
  <2>2. ~InTransit(a)
    BY <2>1 DEF InTransit
  <2>3. Covered(p, a)
    BY <2>1, <2>2 DEF IInv, CurrentInv
  <2>4. ~(late[p] < Len(inflight[p]))
    BY <2>1 DEF IInv, TypeOK, Loads
  <2> QED
    BY <2>3, <2>4 DEF Covered
<1> QED
  BY <1>1, Inductive, PTL

=============================================================================
