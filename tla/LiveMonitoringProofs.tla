------------------------ MODULE LiveMonitoringProofs ------------------------
(***************************************************************************)
(* What LiveMonitoring promises, for any number of connections and of      *)
(* threads that publish, and for queues of any size.                       *)
(***************************************************************************)
EXTENDS LiveMonitoring, FiniteSetTheorems, TLAPS

USE ThreadsAssumption, ComponentsAssumption, BoundsAssumption

\* The provers, in the order in which they try a leaf that names none.
USE Zenon, SMT, ZenonT(60), SMTT(60)

-----------------------------------------------------------------------------
(* The inductive invariant.                                                 *)

Open == {"accept", "initial", "stream"}
Serving == {"put", "evict", "retry"}
Sending == {"list"} \cup Serving
PublisherLabels == {"boot", "idle", "collect", "number", "stopped"} \cup Sending
ClientLabels == {"idle", "refused", "closed"} \cup Open

PcOK ==
    /\ pc \in [Publishers \cup Clients -> PublisherLabels \cup ClientLabels]
    /\ \A c \in Clients : pc[c] \in ClientLabels

\* A publisher has the event it is to publish; only the collector's is a
\* snapshot, and it is the current one.  A queue that is being made room in has
\* been full.
EventsOK ==
    /\ \A t \in Publishers : pc[t] \in Sending => event[t] \in Events
    /\ pc[Collector] \in Sending => event[Collector] = Event("snapshot", sequence)
    /\ \A t \in Tracers : pc[t] \in Sending => event[t].kind = "trace_run"
    /\ \A t \in Publishers : pc[t] \in {"evict", "retry"} => target[t] \in todo[t] \cap overflown

\* After a refresh a component has data or an error.
CacheOK ==
    /\ snapshot.sequence = sequence
    /\ pc[Collector] = "number" => \A c \in Components : cache[c].data \/ cache[c].error

Got(c) == Range(seen[c]) \cup Numbers(queue[c])

\* The current snapshot is still to be offered to the client.
Awaiting(c) == pc[Collector] = "list" \/ (pc[Collector] \in Serving /\ c \in todo[Collector])

NumbersOK ==
    \A c \in Clients : \A n \in Got(c) : n <= sequence /\ (Awaiting(c) => n < sequence)

\* An open connection is in the table.  Unless its queue has been full, it has
\* or is about to get all that was numbered since it was told of a snapshot.
Followed(c) ==
    /\ c \in subscriptions /\ base[c] <= sequence
    /\ c \notin overflown =>
        /\ (base[c] + 1)..LastPublished \subseteq Got(c)
        /\ pc[Collector] \in Serving /\ base[c] < sequence => c \in todo[Collector] \/ sequence \in Got(c)

FollowedOK == \A c \in Clients : pc[c] \in Open => Followed(c)

IInv ==
    /\ TypeOK /\ PcOK /\ EventsOK /\ CacheOK /\ OkIsComplete /\ SubscribersAreClients
    /\ NumbersOK /\ StreamInOrder /\ FollowedOK

-----------------------------------------------------------------------------
(* Queues.                                                                  *)

LEMMA AppendFacts ==
    ASSUME NEW S, NEW q \in Seq(S), NEW e \in S
    PROVE  /\ Append(q, e) \in Seq(S)
           /\ DOMAIN Append(q, e) = DOMAIN q \cup {Len(q) + 1}
           /\ Append(q, e)[Len(q) + 1] = e
           /\ \A i \in DOMAIN q : i <= Len(q) /\ i \in Nat /\ Append(q, e)[i] = q[i]
BY SMT, SMTT(60)

LEMMA TailFacts ==
    ASSUME NEW S, NEW q \in Seq(S), q # <<>>
    PROVE  /\ Tail(q) \in Seq(S) /\ Head(q) \in S
           /\ 1 \in DOMAIN q /\ Head(q) = q[1]
           /\ \A i \in DOMAIN q : i = 1 \/ i - 1 \in DOMAIN Tail(q)
           /\ \A i \in DOMAIN Tail(q) : i \in Nat \ {0} /\ i + 1 \in DOMAIN q /\ Tail(q)[i] = q[i + 1]
BY SMT, SMTT(60)

\* put_nowait adds the number of a snapshot.
LEMMA OfferNumbers ==
    ASSUME NEW q \in Seq(Events), NEW e \in Events
    PROVE  Numbers(Append(q, e)) = Numbers(q) \cup (IF e.kind = "snapshot" THEN {e.sequence} ELSE {})
<1>. DEFINE r == Append(q, e)
<1>1. /\ DOMAIN r = DOMAIN q \cup {Len(q) + 1} /\ r[Len(q) + 1] = e
      /\ \A i \in DOMAIN q : r[i] = q[i]
  BY AppendFacts, SMT, SMTT(60)
<1>. HIDE DEF r
<1>2. Numbers(r) = Numbers(q) \cup (IF e.kind = "snapshot" THEN {e.sequence} ELSE {})
  <2>1. \A n \in Numbers(r) : n \in Numbers(q) \/ (e.kind = "snapshot" /\ n = e.sequence)
    BY <1>1 DEF Numbers, Snapshots
  <2>2. \A n \in Numbers(q) : n \in Numbers(r)
    BY <1>1 DEF Numbers, Snapshots
  <2>3. e.kind = "snapshot" => e.sequence \in Numbers(r)
    BY <1>1 DEF Numbers, Snapshots
  <2>. QED  BY <2>1, <2>2, <2>3
<1>. QED  BY <1>2 DEF r

\* get_nowait takes the oldest event.
LEMMA TailNumbers ==
    ASSUME NEW q \in Seq(Events), q # <<>>
    PROVE  Numbers(q) = Numbers(Tail(q)) \cup (IF Head(q).kind = "snapshot" THEN {Head(q).sequence} ELSE {})
<1>. DEFINE r == Tail(q)
<1>1. /\ 1 \in DOMAIN q /\ Head(q) = q[1]
      /\ \A i \in DOMAIN q : i = 1 \/ i - 1 \in DOMAIN r
      /\ \A i \in DOMAIN r : i \in Nat \ {0} /\ i + 1 \in DOMAIN q /\ r[i] = q[i + 1]
  BY TailFacts, SMT, SMTT(60)
<1>2. \A i \in DOMAIN q : i = 1 \/ \E j \in DOMAIN r : r[j] = q[i]
  <2>. SUFFICES ASSUME NEW i \in DOMAIN q, i # 1 PROVE \E j \in DOMAIN r : r[j] = q[i]
    OBVIOUS
  <2>1. i - 1 \in DOMAIN r /\ i \in Int
    BY <1>1, SMT, SMTT(60)
  <2>2. r[i - 1] = q[i]
    BY <1>1, <2>1, SMT, SMTT(60)
  <2>. QED  BY <2>1, <2>2
<1>3. \A j \in DOMAIN r : \E i \in DOMAIN q : r[j] = q[i]
  BY <1>1
<1>. HIDE DEF r
<1>4. \A n \in Numbers(q) : n \in Numbers(r) \/ (Head(q).kind = "snapshot" /\ n = Head(q).sequence)
  <2>. SUFFICES ASSUME NEW n \in Numbers(q)
                PROVE  n \in Numbers(r) \/ (Head(q).kind = "snapshot" /\ n = Head(q).sequence)
    OBVIOUS
  <2>1. PICK i \in DOMAIN q : q[i].kind = "snapshot" /\ n = q[i].sequence
    BY DEF Numbers, Snapshots
  <2>2. CASE i = 1
    BY <1>1, <2>1, <2>2
  <2>3. CASE i # 1
    <3>1. PICK j \in DOMAIN r : r[j] = q[i]
      BY <1>2, <2>3
    <3>2. j \in Snapshots(r) /\ n = r[j].sequence
      BY <2>1, <3>1 DEF Snapshots
    <3>. QED  BY <3>2 DEF Numbers
  <2>. QED  BY <2>2, <2>3
<1>5. \A n \in Numbers(r) : n \in Numbers(q)
  BY <1>3 DEF Numbers, Snapshots
<1>6. Head(q).kind = "snapshot" => Head(q).sequence \in Numbers(q)
  BY <1>1 DEF Numbers, Snapshots
<1>7. Numbers(q) = Numbers(r) \cup (IF Head(q).kind = "snapshot" THEN {Head(q).sequence} ELSE {})
  BY <1>4, <1>5, <1>6
<1>. QED  BY <1>7 DEF r

LEMMA NumbersType == \A q \in Seq(Events) : Numbers(q) \subseteq Nat
<1>. SUFFICES ASSUME NEW q \in Seq(Events), NEW i \in DOMAIN q PROVE q[i].sequence \in Nat
  BY DEF Numbers, Snapshots
<1>1. q[i] \in Events
  BY SMT, SMTT(60)
<1>. QED  BY <1>1 DEF Events

LEMMA SeenAppend ==
    ASSUME NEW s \in Seq(Nat), NEW n \in Nat
    PROVE  Range(Append(s, n)) = Range(s) \cup {n}
<1>. DEFINE r == Append(s, n)
<1>1. /\ DOMAIN r = DOMAIN s \cup {Len(s) + 1} /\ r[Len(s) + 1] = n
      /\ \A i \in DOMAIN s : r[i] = s[i]
  BY AppendFacts, SMT, SMTT(60)
<1>. HIDE DEF r
<1>2. Range(r) = Range(s) \cup {n}
  <2>1. \A x \in Range(r) : x \in Range(s) \/ x = n
    BY <1>1 DEF Range
  <2>2. \A x \in Range(s) : x \in Range(r)
    BY <1>1 DEF Range
  <2>3. n \in Range(r)
    BY <1>1 DEF Range
  <2>. QED  BY <2>1, <2>2, <2>3
<1>. QED  BY <1>2 DEF r

\* A snapshot that is newer than all others goes to the end.
LEMMA OfferInOrder ==
    ASSUME NEW s \in Seq(Nat), NEW q \in Seq(Events), InOrder(s, q), NEW e \in Events,
           e.kind = "snapshot" => \A n \in Range(s) \cup Numbers(q) : n < e.sequence
    PROVE  InOrder(s, Append(q, e))
<1>. DEFINE r == Append(q, e)
<1>1. /\ DOMAIN r = DOMAIN q \cup {Len(q) + 1} /\ r[Len(q) + 1] = e
      /\ \A i \in DOMAIN q : i <= Len(q) /\ i \in Nat /\ r[i] = q[i]
  BY AppendFacts, SMT, SMTT(60)
<1>2. Numbers(r) = Numbers(q) \cup (IF e.kind = "snapshot" THEN {e.sequence} ELSE {})
  BY OfferNumbers
<1>. HIDE DEF r
<1>3. \A i \in DOMAIN s, n \in Numbers(r) : s[i] < n
  BY <1>2 DEF InOrder, Range
<1>4. ASSUME NEW i \in Snapshots(r), NEW j \in Snapshots(r), i < j
      PROVE  r[i].sequence < r[j].sequence
  <2>1. i \in DOMAIN r /\ j \in DOMAIN r /\ r[i].kind = "snapshot" /\ r[j].kind = "snapshot"
    BY DEF Snapshots
  <2>2. i \in DOMAIN q
    BY <1>1, <1>4, <2>1, SMT, SMTT(60)
  <2>3. i \in Snapshots(q) /\ r[i] = q[i]
    BY <1>1, <2>1, <2>2 DEF Snapshots
  <2>4. CASE j \in DOMAIN q
    BY <1>1, <1>4, <2>1, <2>3, <2>4 DEF InOrder, Snapshots
  <2>5. CASE j = Len(q) + 1
    <3>1. r[j] = e /\ q[i].sequence \in Numbers(q)
      BY <1>1, <2>3, <2>5 DEF Numbers
    <3>. QED  BY <2>1, <2>3, <3>1
  <2>. QED  BY <1>1, <2>1, <2>4, <2>5
<1>5. InOrder(s, r)
  BY <1>3, <1>4 DEF InOrder
<1>. QED  BY <1>5 DEF r

LEMMA TailInOrder ==
    ASSUME NEW s \in Seq(Nat), NEW q \in Seq(Events), InOrder(s, q), q # <<>>
    PROVE  /\ InOrder(s, Tail(q))
           /\ Head(q).kind = "snapshot" => \A n \in Numbers(Tail(q)) : Head(q).sequence < n
<1>. DEFINE r == Tail(q)
<1>1. /\ 1 \in DOMAIN q /\ Head(q) = q[1]
      /\ \A i \in DOMAIN r : i \in Nat \ {0} /\ i + 1 \in DOMAIN q /\ r[i] = q[i + 1]
  BY TailFacts, SMT, SMTT(60)
<1>2. Numbers(q) = Numbers(r) \cup (IF Head(q).kind = "snapshot" THEN {Head(q).sequence} ELSE {})
  BY TailNumbers
<1>. HIDE DEF r
<1>3. \A i \in Snapshots(r) : i \in Nat \ {0} /\ i + 1 \in Snapshots(q) /\ r[i] = q[i + 1]
  BY <1>1 DEF Snapshots
<1>4. ASSUME NEW i \in Snapshots(r), NEW j \in Snapshots(r), i < j
      PROVE  r[i].sequence < r[j].sequence
  <2>1. i + 1 < j + 1
    BY <1>3, <1>4, SMT, SMTT(60)
  <2>. QED  BY <1>3, <2>1 DEF InOrder
<1>5. ASSUME Head(q).kind = "snapshot", NEW n \in Numbers(r) PROVE Head(q).sequence < n
  <2>1. PICK i \in Snapshots(r) : n = r[i].sequence
    BY <1>5 DEF Numbers
  <2>2. 1 < i + 1
    BY <1>3, SMT, SMTT(60)
  <2>3. 1 \in Snapshots(q)
    BY <1>1, <1>5 DEF Snapshots
  <2>. QED  BY <1>1, <1>3, <2>1, <2>2, <2>3 DEF InOrder
<1>6. InOrder(s, r)
  BY <1>2, <1>4 DEF InOrder
<1>. QED  BY <1>5, <1>6 DEF r

\* The client sends what it takes from its queue.
LEMMA AppendInOrder ==
    ASSUME NEW s \in Seq(Nat), NEW q \in Seq(Events), InOrder(s, q), NEW n \in Nat,
           \A m \in Range(s) : m < n, \A m \in Numbers(q) : n < m
    PROVE  InOrder(Append(s, n), q)
<1>. DEFINE r == Append(s, n)
<1>1. /\ DOMAIN r = DOMAIN s \cup {Len(s) + 1} /\ r[Len(s) + 1] = n
      /\ \A i \in DOMAIN s : i <= Len(s) /\ i \in Nat /\ r[i] = s[i]
  BY AppendFacts, SMT, SMTT(60)
<1>. HIDE DEF r
<1>2. ASSUME NEW i \in DOMAIN r, NEW j \in DOMAIN r, i < j PROVE r[i] < r[j]
  <2>1. i \in DOMAIN s
    BY <1>1, <1>2, SMT, SMTT(60)
  <2>2. CASE j \in DOMAIN s
    BY <1>1, <1>2, <2>1, <2>2 DEF InOrder
  <2>3. CASE j = Len(s) + 1
    BY <1>1, <2>1, <2>3 DEF Range
  <2>. QED  BY <1>1, <2>2, <2>3
<1>3. \A i \in DOMAIN r, m \in Numbers(q) : r[i] < m
  BY <1>1 DEF InOrder
<1>4. InOrder(r, q)
  BY <1>2, <1>3 DEF InOrder
<1>. QED  BY <1>4 DEF r

-----------------------------------------------------------------------------
(* What a step keeps.                                                       *)

LEMMA GotoFacts ==
    ASSUME PcOK, NEW t \in Publishers \cup Clients, NEW l, Goto(t, l)
    PROVE  pc'[t] = l /\ \A u \in Publishers \cup Clients : u # t => pc'[u] = pc[u]
BY DEF PcOK, Goto

LEMMA PublisherMoves ==
    ASSUME PcOK, NEW t \in Publishers, NEW l \in PublisherLabels, Goto(t, l)
    PROVE  /\ PcOK' /\ pc'[t] = l /\ \A u \in Publishers : u # t => pc'[u] = pc[u]
           /\ \A c \in Clients : pc'[c] = pc[c]
<1>1. t \notin Clients
  BY DEF Publishers
<1>2. pc'[t] = l /\ \A u \in Publishers \cup Clients : u # t => pc'[u] = pc[u]
  BY GotoFacts
<1>3. pc' \in [Publishers \cup Clients -> PublisherLabels \cup ClientLabels]
  BY DEF PcOK, Goto
<1>. QED  BY <1>1, <1>2, <1>3 DEF PcOK

LEMMA ClientMoves ==
    ASSUME PcOK, NEW c \in Clients, NEW l \in ClientLabels, Goto(c, l)
    PROVE  /\ PcOK' /\ pc'[c] = l /\ \A d \in Clients : d # c => pc'[d] = pc[d]
           /\ \A u \in Publishers : pc'[u] = pc[u]
<1>1. c \notin Publishers
  BY DEF Publishers
<1>2. pc'[c] = l /\ \A u \in Publishers \cup Clients : u # c => pc'[u] = pc[u]
  BY GotoFacts
<1>3. pc' \in [Publishers \cup Clients -> PublisherLabels \cup ClientLabels]
  BY DEF PcOK, Goto
<1>. QED  BY <1>1, <1>2, <1>3 DEF PcOK

LEMMA GotType == ASSUME TypeOK, NEW c \in Clients PROVE Got(c) \subseteq Nat
<1>1. seen[c] \in Seq(Nat) /\ queue[c] \in Seq(Events)
  BY DEF TypeOK
<1>2. Range(seen[c]) \subseteq Nat
  BY <1>1, SMT, SMTT(60) DEF Range
<1>. QED  BY <1>1, <1>2, NumbersType DEF Got

LEMMA EvictingTypes ==
    ASSUME EventsOK'
    PROVE  \A t \in Publishers : pc'[t] \in {"evict", "retry"} => target'[t] \in todo'[t] /\ event'[t] \in Events
BY DEF EventsOK, Sending, Serving

LEMMA EmptyRange ==
    ASSUME NEW a \in Nat, NEW b \in Int, b <= a
    PROVE  (a + 1)..b = {} /\ a <= a /\ ~ (a < a)
BY SMT, SMTT(60)

\* A publisher moves: the same connections are open.
LEMMA KeepCount ==
    ASSUME SubscribersAreClients, wsClients' = wsClients, subscriptions' = subscriptions,
           \A c \in Clients : pc'[c] = pc[c], TypeOK
    PROVE  SubscribersAreClients'
<1>. DEFINE S == {c \in Clients : pc[c] \in {"accept", "initial", "stream"}}
<1>1. S' = S
  OBVIOUS
<1>2. subscriptions \subseteq Clients
  BY DEF TypeOK
<1>3. wsClients = Cardinality(S)
  BY DEF SubscribersAreClients
<1>4. wsClients' = Cardinality(S')
  BY <1>1, <1>3
<1>. QED  BY <1>2, <1>4 DEF SubscribersAreClients

\* Nothing new has come, and nobody awaits the current snapshot who did not.
LEMMA KeepNumbers ==
    ASSUME NumbersOK, sequence' = sequence, \A c \in Clients : Got(c)' \subseteq Got(c),
           \A c \in Clients : Awaiting(c)' => Awaiting(c)
    PROVE  NumbersOK'
BY DEF NumbersOK

\* No connection opens, and the queues of those that follow lose nothing.
LEMMA KeepFollowed ==
    ASSUME FollowedOK, sequence' = sequence, LastPublished' = LastPublished,
           base' = base, overflown \subseteq overflown',
           pc'[Collector] \in Serving => pc[Collector] \in Serving,
           NEW c \in Clients, pc'[c] \in Open => pc[c] \in Open /\ (c \in subscriptions => c \in subscriptions'),
           c \in overflown' \/ Got(c) \subseteq Got(c)',
           c \in todo[Collector] => \/ c \in todo'[Collector] \/ c \in overflown'
                                   \/ sequence \in Got(c)'
    PROVE  pc'[c] \in Open => Followed(c)'
<1>. SUFFICES ASSUME pc'[c] \in Open PROVE Followed(c)'
  OBVIOUS
<1>1. Followed(c)
  BY DEF FollowedOK
<1>2. c \in subscriptions' /\ base'[c] <= sequence'
  BY <1>1 DEF Followed
<1>3. ASSUME c \notin overflown' PROVE (base'[c] + 1)..LastPublished' \subseteq Got(c)'
  BY <1>1, <1>3 DEF Followed
<1>4. ASSUME c \notin overflown', pc'[Collector] \in Serving, base'[c] < sequence'
      PROVE  c \in todo'[Collector] \/ sequence' \in Got(c)'
  BY <1>1, <1>4 DEF Followed
<1>. QED  BY <1>2, <1>3, <1>4 DEF Followed

LEMMA SameStreams ==
    ASSUME queue' = queue, seen' = seen
    PROVE  /\ \A c \in Clients : Got(c)' = Got(c)
           /\ StreamInOrder => StreamInOrder'
BY DEF Got, StreamInOrder

\* The collector moves where it does not publish.
LEMMA QuietMove ==
    ASSUME IInv, NEW l \in {"collect", "number", "stopped"}, Goto(Collector, l), pc[Collector] \notin Sending,
           UNCHANGED <<sequence, fanoutVars, clientVars, queue, overflown>>
    PROVE  /\ PcOK' /\ EventsOK' /\ SubscribersAreClients' /\ NumbersOK' /\ StreamInOrder' /\ FollowedOK'
           /\ pc'[Collector] = l
<1>1. TypeOK /\ PcOK /\ EventsOK /\ SubscribersAreClients /\ NumbersOK /\ StreamInOrder /\ FollowedOK
  BY DEF IInv
<1>2. /\ PcOK' /\ pc'[Collector] = l /\ \A u \in Publishers : u # Collector => pc'[u] = pc[u]
      /\ \A c \in Clients : pc'[c] = pc[c]
  <2>1. Collector \in Publishers /\ l \in PublisherLabels
    BY DEF Publishers, PublisherLabels
  <2>. QED  BY <1>1, <2>1, PublisherMoves
<1>3. /\ sequence' = sequence /\ event' = event /\ todo' = todo /\ target' = target /\ subscriptions' = subscriptions
      /\ wsClients' = wsClients /\ base' = base /\ seen' = seen /\ queue' = queue /\ overflown' = overflown
  BY DEF fanoutVars, clientVars
<1>4. pc'[Collector] \notin Sending /\ pc'[Collector] \notin Serving /\ pc'[Collector] # "list"
  BY <1>2 DEF Sending, Serving
<1>5. EventsOK'
  <2>1. \A t \in Publishers : pc'[t] \in Sending \/ pc'[t] \in {"evict", "retry"} => pc'[t] = pc[t]
    BY <1>2, <1>4 DEF Sending, Serving
  <2>2. Tracers \subseteq Publishers
    BY DEF Publishers
  <2>. QED  BY <1>1, <1>3, <1>4, <2>1, <2>2 DEF EventsOK
<1>6. SubscribersAreClients'
  BY <1>1, <1>2, <1>3, KeepCount
<1>7. (\A c \in Clients : Got(c)' = Got(c)) /\ StreamInOrder'
  BY <1>1, <1>3, SameStreams
<1>8. NumbersOK'
  <2>1. \A c \in Clients : ~ Awaiting(c)'
    BY <1>4 DEF Awaiting
  <2>. QED  BY <1>1, <1>3, <1>7, <2>1, KeepNumbers
<1>9. LastPublished' = LastPublished
  BY <1>3, <1>4 DEF LastPublished, Sending, Serving
<1>10. FollowedOK'
  <2>. SUFFICES ASSUME NEW c \in Clients PROVE pc'[c] \in Open => Followed(c)'
    BY DEF FollowedOK
  <2>. QED  BY <1>1, <1>2, <1>3, <1>4, <1>7, <1>9, KeepFollowed
<1>. QED  BY <1>2, <1>5, <1>6, <1>7, <1>8, <1>10

-----------------------------------------------------------------------------
(* The collector.                                                           *)

LEMMA StartHolds == IInv /\ Start => IInv'
<1>. SUFFICES ASSUME IInv, Start PROVE IInv'
  OBVIOUS
<1>1. /\ PcOK' /\ EventsOK' /\ SubscribersAreClients' /\ NumbersOK' /\ StreamInOrder' /\ FollowedOK'
      /\ pc'[Collector] = "collect"
  <2>1. /\ Goto(Collector, "collect") /\ pc[Collector] \notin Sending
        /\ UNCHANGED <<sequence, fanoutVars, clientVars, queue, overflown>>
    BY DEF Start, Sending, Serving
  <2>. QED  BY <2>1, QuietMove
<1>2. TypeOK'
  BY <1>1, EvictingTypes DEF IInv, Start, TypeOK, fanoutVars, clientVars
<1>3. CacheOK' /\ OkIsComplete'
  BY <1>1 DEF IInv, Start, CacheOK, OkIsComplete
<1>. QED  BY <1>1, <1>2, <1>3 DEF IInv

LEMMA WakeHolds == IInv /\ Wake => IInv'
<1>. SUFFICES ASSUME IInv, Wake PROVE IInv'
  BY SMT, SMTT(60)
<1>1. /\ PcOK' /\ EventsOK' /\ SubscribersAreClients' /\ NumbersOK' /\ StreamInOrder' /\ FollowedOK'
      /\ pc'[Collector] = "collect"
  <2>1. /\ Goto(Collector, "collect") /\ pc[Collector] \notin Sending
        /\ UNCHANGED <<sequence, fanoutVars, clientVars, queue, overflown>>
    BY DEF Wake, Sending, Serving, cacheVars
  <2>. QED  BY <2>1, QuietMove
<1>2. TypeOK'
  BY <1>1, EvictingTypes DEF IInv, Wake, TypeOK, cacheVars, fanoutVars, clientVars
<1>3. CacheOK' /\ OkIsComplete'
  BY <1>1 DEF IInv, Wake, CacheOK, OkIsComplete, cacheVars
<1>. QED  BY <1>1, <1>2, <1>3 DEF IInv

LEMMA StopHolds == IInv /\ Stop => IInv'
<1>. SUFFICES ASSUME IInv, Stop PROVE IInv'
  OBVIOUS
<1>1. /\ PcOK' /\ EventsOK' /\ SubscribersAreClients' /\ NumbersOK' /\ StreamInOrder' /\ FollowedOK'
      /\ pc'[Collector] = "stopped"
  <2>1. /\ Goto(Collector, "stopped") /\ pc[Collector] \notin Sending
        /\ UNCHANGED <<sequence, fanoutVars, clientVars, queue, overflown>>
    BY DEF Stop, Sending, Serving
  <2>. QED  BY <2>1, QuietMove
<1>2. TypeOK'
  BY <1>1, EvictingTypes DEF IInv, Stop, TypeOK, fanoutVars, clientVars
<1>3. CacheOK' /\ OkIsComplete'
  BY <1>1 DEF IInv, Stop, CacheOK, OkIsComplete
<1>. QED  BY <1>1, <1>2, <1>3 DEF IInv

\* A refresh leaves every component with data or with an error, and never takes
\* the data away.
LEMMA CollectHolds == IInv /\ Collect => IInv'
<1>. SUFFICES ASSUME IInv, Collect PROVE IInv'
  OBVIOUS
<1>1. /\ PcOK' /\ EventsOK' /\ SubscribersAreClients' /\ NumbersOK' /\ StreamInOrder' /\ FollowedOK'
      /\ pc'[Collector] = "number"
  <2>1. /\ Goto(Collector, "number") /\ pc[Collector] \notin Sending
        /\ UNCHANGED <<sequence, fanoutVars, clientVars, queue, overflown>>
    BY DEF Collect, Sending, Serving
  <2>. QED  BY <2>1, QuietMove
<1>. DEFINE State == [data : BOOLEAN, error : BOOLEAN]
<1>2. PICK ok \in [Components -> BOOLEAN], latencyDue \in BOOLEAN :
        cache' = [c \in Components |->
                     IF c = "latency" /\ cache[c].data /\ ~ latencyDue THEN cache[c]
                     ELSE UpdateState(cache[c], ok[c])]
  BY DEF Collect
<1>3. cache \in [Components -> State] /\ snapshot.available \subseteq Components
  BY DEF IInv, TypeOK
<1>4. ASSUME NEW state \in State, NEW b \in BOOLEAN
      PROVE  LET new == UpdateState(state, b)
             IN  new \in State /\ (new.data \/ new.error) /\ (state.data => new.data)
  BY DEF UpdateState
<1>5. \A c \in Components : /\ cache'[c] \in State /\ (cache'[c].data \/ cache'[c].error)
                            /\ cache[c].data => cache'[c].data
  <2>. SUFFICES ASSUME NEW c \in Components
                PROVE  /\ cache'[c] \in State /\ (cache'[c].data \/ cache'[c].error)
                       /\ cache[c].data => cache'[c].data
    OBVIOUS
  <2>1. cache[c] \in State /\ ok[c] \in BOOLEAN
    BY <1>3
  <2>. HIDE DEF State
  <2>2. CASE c = "latency" /\ cache[c].data /\ ~ latencyDue
    BY <1>2, <2>1, <2>2
  <2>3. CASE ~ (c = "latency" /\ cache[c].data /\ ~ latencyDue)
    <3>1. cache'[c] = UpdateState(cache[c], ok[c])
      BY <1>2, <2>3
    <3>. QED  BY <1>4, <2>1, <3>1
  <2>. QED  BY <2>2, <2>3
<1>6. cache' \in [Components -> State]
  BY <1>2, <1>5
<1>7. TypeOK'
  BY <1>1, <1>6, EvictingTypes DEF IInv, Collect, TypeOK, fanoutVars, clientVars
<1>8. CacheOK' /\ OkIsComplete'
  <2>1. snapshot' = snapshot /\ sequence' = sequence
    BY DEF Collect
  <2>. QED  BY <1>3, <1>5, <2>1 DEF IInv, CacheOK, OkIsComplete
<1>. QED  BY <1>1, <1>7, <1>8 DEF IInv

\* A new number is greater than all that were offered.
LEMMA NumberHolds == IInv /\ Number => IInv'
<1>. SUFFICES ASSUME IInv, Number PROVE IInv'
  OBVIOUS
<1>1. /\ TypeOK /\ PcOK /\ EventsOK /\ CacheOK /\ OkIsComplete /\ SubscribersAreClients
      /\ NumbersOK /\ StreamInOrder /\ FollowedOK
  BY DEF IInv
<1>2. /\ PcOK' /\ pc'[Collector] = "list" /\ \A u \in Publishers : u # Collector => pc'[u] = pc[u]
      /\ \A c \in Clients : pc'[c] = pc[c]
  <2>1. Collector \in Publishers /\ "list" \in PublisherLabels /\ Goto(Collector, "list")
    BY DEF Publishers, PublisherLabels, Sending, Number
  <2>. QED  BY <1>1, <2>1, PublisherMoves
<1>3. /\ sequence \in Nat /\ sequence' = sequence + 1 /\ pc[Collector] = "number" /\ Collector \in Publishers
      /\ event' = [event EXCEPT ![Collector] = Event("snapshot", sequence + 1)]
      /\ UNCHANGED <<cache, listening, todo, target, updates, clientVars, queue, overflown>>
      /\ snapshot' = [sequence |-> sequence + 1,
                       status |-> IF \E c \in Components : cache[c].error THEN "degraded" ELSE "ok",
                       available |-> {c \in Components : cache[c].data}]
  BY <1>1 DEF Number, TypeOK, Publishers
<1>4. UNCHANGED <<cache, listening, todo, target, updates, subscriptions, wsClients, base, seen, queue, overflown>>
  BY <1>3 DEF clientVars
<1>5. Event("snapshot", sequence + 1) \in Events
  BY <1>3, SMT, SMTT(60) DEF Event, Events
<1>6. event' \in [Publishers -> Events \cup {None}] /\ event'[Collector] = Event("snapshot", sequence')
      /\ \A t \in Publishers : t # Collector => event'[t] = event[t]
  BY <1>1, <1>3, <1>5 DEF TypeOK
<1>7. EventsOK'
  <2>1. Tracers \subseteq Publishers /\ Collector \notin Tracers
    BY DEF Publishers
  <2>. QED  BY <1>1, <1>2, <1>3, <1>4, <1>5, <1>6, <2>1 DEF EventsOK
<1>8. TypeOK'
  <2>1. snapshot' \in [sequence : Nat, status : {"none", "ok", "degraded"}, available : SUBSET Components]
        /\ sequence' \in Nat
    BY <1>3, SMT, SMTT(60)
  <2>. QED  BY <1>1, <1>4, <1>6, <1>7, <2>1, EvictingTypes DEF TypeOK
<1>9. CacheOK' /\ OkIsComplete'
  <2>1. snapshot'.sequence = sequence' /\ snapshot'.available = {c \in Components : cache[c].data}
        /\ (snapshot'.status = "ok" => ~ \E c \in Components : cache[c].error)
    BY <1>3
  <2>2. \A c \in Components : cache[c].data \/ cache[c].error
    BY <1>1, <1>3 DEF CacheOK
  <2>. QED  BY <1>2, <1>4, <2>1, <2>2 DEF CacheOK, OkIsComplete
<1>10. SubscribersAreClients'
  BY <1>1, <1>2, <1>4, KeepCount
<1>11. (\A c \in Clients : Got(c)' = Got(c)) /\ StreamInOrder'
  BY <1>1, <1>4, SameStreams
<1>12. NumbersOK'
  <2>. SUFFICES ASSUME NEW c \in Clients, NEW n \in Got(c)' PROVE n <= sequence' /\ n < sequence'
    BY DEF NumbersOK
  <2>1. n <= sequence /\ n \in Nat
    BY <1>1, <1>11, GotType DEF NumbersOK
  <2>. QED  BY <1>3, <2>1, SMT, SMTT(60)
<1>13. LastPublished' = LastPublished
  <2>1. LastPublished = sequence /\ LastPublished' = sequence' - 1
    BY <1>2, <1>3 DEF LastPublished
  <2>. QED  BY <1>3, <2>1, SMT, SMTT(60)
<1>14. FollowedOK'
  <2>. SUFFICES ASSUME NEW c \in Clients, pc'[c] \in Open PROVE Followed(c)'
    BY DEF FollowedOK
  <2>1. Followed(c)
    BY <1>1, <1>2 DEF FollowedOK
  <2>2. base[c] <= sequence /\ base[c] \in Nat
    BY <1>1, <2>1 DEF Followed, TypeOK
  <2>3. base'[c] <= sequence'
    BY <1>3, <1>4, <2>2, SMT, SMTT(60)
  <2>4. pc'[Collector] \notin Serving
    BY <1>2 DEF Serving
  <2>. QED  BY <1>4, <1>11, <1>13, <2>1, <2>3, <2>4 DEF Followed
<1>. QED  BY <1>2, <1>7, <1>8, <1>9, <1>10, <1>11, <1>12, <1>14 DEF IInv

-----------------------------------------------------------------------------
(* Publishing.                                                              *)

LEMMA PublisherFacts == Tracers \subseteq Publishers /\ Collector \in Publishers /\ Collector \notin Tracers
                        /\ \A t \in Publishers : t # Collector => t \in Tracers
BY DEF Publishers

\* What a step of another thread leaves of the collector.
LEMMA CollectorKept ==
    ASSUME pc'[Collector] = pc[Collector], todo'[Collector] = todo[Collector], sequence' = sequence
    PROVE  LastPublished' = LastPublished /\ \A c \in Clients : Awaiting(c)' = Awaiting(c)
<1>1. LastPublished' = LastPublished
  BY DEF LastPublished
<1>2. \A c \in Clients : Awaiting(c)' = Awaiting(c)
  BY DEF Awaiting
<1>. QED  BY <1>1, <1>2

LEMMA PublishTraceRunHolds == ASSUME IInv, NEW t \in Tracers, PublishTraceRun(t) PROVE IInv'
<1>1. /\ TypeOK /\ PcOK /\ EventsOK /\ CacheOK /\ OkIsComplete /\ SubscribersAreClients
      /\ NumbersOK /\ StreamInOrder /\ FollowedOK
  BY DEF IInv
<1>2. t \in Publishers /\ t # Collector /\ Collector \in Publishers /\ Tracers \subseteq Publishers
  BY PublisherFacts
<1>3. /\ PcOK' /\ pc'[t] = "list" /\ \A u \in Publishers : u # t => pc'[u] = pc[u]
      /\ \A c \in Clients : pc'[c] = pc[c]
  <2>1. "list" \in PublisherLabels /\ Goto(t, "list")
    BY DEF PublisherLabels, Sending, PublishTraceRun
  <2>. QED  BY <1>1, <1>2, <2>1, PublisherMoves
<1>4. /\ updates' = updates + 1 /\ event' = [event EXCEPT ![t] = Event("trace_run", sequence)]
      /\ UNCHANGED <<cache, sequence, snapshot, listening, todo, target, subscriptions, wsClients, base, seen, queue, overflown>>
  BY DEF PublishTraceRun, cacheVars, clientVars
<1>5. Event("trace_run", sequence) \in Events /\ Event("trace_run", sequence).kind = "trace_run"
  BY <1>1 DEF Event, Events, TypeOK
<1>6. event' \in [Publishers -> Events \cup {None}] /\ event'[t] = Event("trace_run", sequence)
      /\ \A u \in Publishers : u # t => event'[u] = event[u]
  BY <1>1, <1>2, <1>4, <1>5 DEF TypeOK
<1>7. EventsOK'
  BY <1>1, <1>2, <1>3, <1>4, <1>5, <1>6 DEF EventsOK
<1>8. TypeOK'
  <2>1. updates' \in Nat
    BY <1>1, <1>4, SMT, SMTT(60) DEF TypeOK
  <2>. QED  BY <1>1, <1>4, <1>6, <1>7, <2>1, EvictingTypes DEF TypeOK
<1>9. CacheOK' /\ OkIsComplete'
  BY <1>1, <1>2, <1>3, <1>4 DEF CacheOK, OkIsComplete
<1>10. SubscribersAreClients'
  BY <1>1, <1>3, <1>4, KeepCount
<1>11. (\A c \in Clients : Got(c)' = Got(c)) /\ StreamInOrder'
  BY <1>1, <1>4, SameStreams
<1>12. LastPublished' = LastPublished /\ (\A c \in Clients : Awaiting(c)' = Awaiting(c)) /\ pc'[Collector] = pc[Collector]
  BY <1>2, <1>3, <1>4, CollectorKept
<1>13. NumbersOK'
  BY <1>1, <1>4, <1>11, <1>12, KeepNumbers
<1>14. FollowedOK'
  <2>. SUFFICES ASSUME NEW c \in Clients PROVE pc'[c] \in Open => Followed(c)'
    BY DEF FollowedOK
  <2>. QED  BY <1>1, <1>3, <1>4, <1>11, <1>12, KeepFollowed
<1>. QED  BY <1>3, <1>7, <1>8, <1>9, <1>10, <1>11, <1>13, <1>14 DEF IInv

\* A publisher goes on with its event: what is left to show of the step is what
\* it does to the streams.
LEMMA PublisherStepKeeps ==
    ASSUME IInv, NEW t \in Publishers, pc[t] \in Sending, NEW l \in Serving \cup {"idle"}, Goto(t, l),
           UNCHANGED <<cacheVars, clientVars, updates>>, overflown' \subseteq Clients, overflown \subseteq overflown',
           event' \in [Publishers -> Events \cup {None}], l # "idle" => event' = event,
           \A u \in Publishers : u # t => event'[u] = event[u] /\ target'[u] = target[u] /\ todo'[u] = todo[u],
           todo' \in [Publishers -> SUBSET Clients], target' \in [Publishers -> Clients \cup {None}],
           l \in {"evict", "retry"} => target'[t] \in todo'[t] \cap overflown',
           queue' \in [Clients -> Seq(Events)]
    PROVE  /\ TypeOK' /\ PcOK' /\ EventsOK' /\ CacheOK' /\ OkIsComplete' /\ SubscribersAreClients'
           /\ pc'[t] = l /\ \A u \in Publishers : u # t => pc'[u] = pc[u]
           /\ \A c \in Clients : pc'[c] = pc[c]
<1>1. TypeOK /\ PcOK /\ EventsOK /\ CacheOK /\ OkIsComplete /\ SubscribersAreClients
  BY DEF IInv
<1>2. /\ PcOK' /\ pc'[t] = l /\ \A u \in Publishers : u # t => pc'[u] = pc[u]
      /\ \A c \in Clients : pc'[c] = pc[c]
  <2>1. l \in PublisherLabels
    BY DEF PublisherLabels, Sending
  <2>. QED  BY <1>1, <2>1, PublisherMoves
<1>3. UNCHANGED <<cache, sequence, snapshot, listening, subscriptions, wsClients, base, seen, updates>>
  BY DEF cacheVars, clientVars
<1>4. l # "idle" => l \in Sending
  BY DEF Sending
<1>5. \A u \in Publishers : pc'[u] \in Sending => pc[u] \in Sending /\ event'[u] = event[u]
  BY <1>2 DEF Sending, Serving
<1>6. EventsOK'
  <2>1. \A u \in Publishers : pc'[u] \in {"evict", "retry"} => target'[u] \in todo'[u] \cap overflown'
    <3>. SUFFICES ASSUME NEW u \in Publishers, u # t, pc'[u] \in {"evict", "retry"}
                  PROVE  target'[u] \in todo'[u] \cap overflown'
      BY <1>2
    <3>. QED  BY <1>1, <1>2 DEF EventsOK
  <2>. QED  BY <1>1, <1>3, <1>5, <2>1, PublisherFacts DEF EventsOK
<1>7. \A u \in Publishers : pc'[u] \in {"evict", "retry"} => target'[u] \in todo'[u] /\ event'[u] \in Events
  BY <1>6 DEF EventsOK, Sending, Serving
<1>8. TypeOK'
  BY <1>1, <1>3, <1>7 DEF TypeOK
<1>9. CacheOK' /\ OkIsComplete'
  <2>1. pc'[Collector] = "number" => pc[Collector] = "number"
    BY <1>2, PublisherFacts DEF Serving
  <2>. QED  BY <1>1, <1>3, <2>1 DEF CacheOK, OkIsComplete
<1>10. SubscribersAreClients'
  BY <1>1, <1>2, <1>3, KeepCount
<1>. QED  BY <1>2, <1>6, <1>8, <1>9, <1>10

\* The queues are listed after the snapshot was numbered.
LEMMA ListHolds == ASSUME IInv, NEW t \in Publishers, List(t) PROVE IInv'
<1>1. /\ TypeOK /\ PcOK /\ NumbersOK /\ StreamInOrder /\ FollowedOK
  BY DEF IInv
<1>2. /\ pc[t] = "list" /\ Goto(t, "put") /\ todo' = [todo EXCEPT ![t] = subscriptions]
      /\ UNCHANGED <<cacheVars, clientVars, updates>> /\ UNCHANGED <<event, target, queue, overflown>>
  BY DEF List
<1>3. UNCHANGED <<sequence, subscriptions, base, seen>>
  BY <1>2 DEF cacheVars, clientVars
<1>4. todo' \in [Publishers -> SUBSET Clients] /\ todo'[t] = subscriptions /\ \A u \in Publishers : u # t => todo'[u] = todo[u]
  BY <1>1, <1>2 DEF TypeOK
<1>5. /\ TypeOK' /\ PcOK' /\ EventsOK' /\ CacheOK' /\ OkIsComplete' /\ SubscribersAreClients'
      /\ pc'[t] = "put" /\ \A u \in Publishers : u # t => pc'[u] = pc[u]
      /\ \A c \in Clients : pc'[c] = pc[c]
  <2>1. /\ pc[t] \in Sending /\ "put" \in Serving \cup {"idle"} /\ "put" \notin {"evict", "retry"}
        /\ overflown' \subseteq Clients /\ overflown \subseteq overflown'
        /\ event' \in [Publishers -> Events \cup {None}] /\ target' \in [Publishers -> Clients \cup {None}]
        /\ queue' \in [Clients -> Seq(Events)]
    BY <1>1, <1>2 DEF Sending, Serving, TypeOK
  <2>. QED  BY <1>2, <1>4, <2>1, PublisherStepKeeps
<1>6. (\A c \in Clients : Got(c)' = Got(c)) /\ StreamInOrder'
  BY <1>1, <1>2, <1>3, SameStreams
<1>7. CASE t # Collector
  <2>1. LastPublished' = LastPublished /\ (\A c \in Clients : Awaiting(c)' = Awaiting(c))
        /\ pc'[Collector] = pc[Collector] /\ todo'[Collector] = todo[Collector]
    BY <1>3, <1>4, <1>5, <1>7, PublisherFacts, CollectorKept
  <2>2. NumbersOK'
    BY <1>1, <1>3, <1>6, <2>1, KeepNumbers
  <2>3. FollowedOK'
    <3>. SUFFICES ASSUME NEW c \in Clients PROVE pc'[c] \in Open => Followed(c)'
      BY DEF FollowedOK
    <3>. QED  BY <1>1, <1>2, <1>3, <1>5, <1>6, <2>1, KeepFollowed
  <2>. QED  BY <1>5, <1>6, <2>2, <2>3 DEF IInv
<1>8. CASE t = Collector
  <2>1. \A c \in Clients : Awaiting(c)
    BY <1>2, <1>8 DEF Awaiting
  <2>2. NumbersOK'
    BY <1>1, <1>3, <1>6, <2>1, KeepNumbers
  <2>3. LastPublished' = LastPublished
    BY <1>2, <1>3, <1>5, <1>8 DEF LastPublished
  <2>4. FollowedOK'
    <3>. SUFFICES ASSUME NEW c \in Clients, pc'[c] \in Open PROVE Followed(c)'
      BY DEF FollowedOK
    <3>1. Followed(c)
      BY <1>1, <1>5 DEF FollowedOK
    <3>2. c \in subscriptions' /\ base'[c] <= sequence' /\ c \in todo'[Collector]
      BY <1>3, <1>4, <1>8, <3>1 DEF Followed
    <3>3. c \notin overflown' => (base'[c] + 1)..LastPublished' \subseteq Got(c)'
      BY <1>2, <1>3, <1>6, <2>3, <3>1 DEF Followed
    <3>. QED  BY <3>2, <3>3 DEF Followed
  <2>. QED  BY <1>5, <1>6, <2>2, <2>4 DEF IInv
<1>. QED  BY <1>7, <1>8

\* A publisher is done with a queue, or goes to make room in it: LastPublished
\* is the same, and who awaited the current snapshot and no longer does was c.
LEMMA ServingFrame ==
    ASSUME NEW t \in Publishers, pc[t] \in Serving, pc'[t] \in Serving, sequence' = sequence,
           \A u \in Publishers : u # t => pc'[u] = pc[u] /\ todo'[u] = todo[u], todo'[t] \subseteq todo[t]
    PROVE  /\ LastPublished' = LastPublished /\ (pc'[Collector] \in Serving => pc[Collector] \in Serving)
           /\ \A c \in Clients : Awaiting(c)' => Awaiting(c)
<1>1. CASE t # Collector
  BY <1>1, CollectorKept, PublisherFacts
<1>2. CASE t = Collector
  <2>1. pc[Collector] # "list" /\ pc'[Collector] # "list"
    BY <1>2 DEF Serving
  <2>2. \A c \in Clients : Awaiting(c)' => Awaiting(c)
    BY <1>2, <2>1 DEF Awaiting
  <2>3. LastPublished' = LastPublished
    BY <1>2 DEF LastPublished, Serving
  <2>. QED  BY <1>2, <2>2, <2>3
<1>. QED  BY <1>1, <1>2

\* put_nowait with room in the queue, at the first or at the second attempt.
LEMMA OfferHolds ==
    ASSUME IInv, NEW t \in Publishers, NEW c \in Clients, pc[t] \in Serving, c \in todo[t],
           Offer(t, c), Served(t, c), UNCHANGED <<cacheVars, event, updates, clientVars, overflown>>
    PROVE  IInv'
<1>1. /\ TypeOK /\ PcOK /\ EventsOK /\ NumbersOK /\ StreamInOrder /\ FollowedOK
  BY DEF IInv
<1>2. UNCHANGED <<sequence, subscriptions, base, seen>>
  BY DEF cacheVars, clientVars
<1>. DEFINE e == event[t]
<1>3. e \in Events /\ pc[t] \in Sending
  BY <1>1 DEF EventsOK, Sending
<1>4. seen[c] \in Seq(Nat) /\ queue[c] \in Seq(Events) /\ Append(queue[c], e) \in Seq(Events)
  <2>1. seen[c] \in Seq(Nat) /\ queue[c] \in Seq(Events)
    BY <1>1 DEF TypeOK
  <2>. QED  BY <1>3, <2>1, AppendFacts
<1>5. /\ queue' \in [Clients -> Seq(Events)] /\ queue'[c] = Append(queue[c], e)
      /\ \A d \in Clients : d # c => queue'[d] = queue[d]
  BY <1>1, <1>4 DEF Offer, TypeOK
<1>6. /\ todo' \in [Publishers -> SUBSET Clients] /\ todo'[t] = todo[t] \ {c}
      /\ target' \in [Publishers -> Clients \cup {None}]
      /\ \A u \in Publishers : u # t => todo'[u] = todo[u] /\ target'[u] = target[u]
  BY <1>1 DEF Served, TypeOK
<1>7. /\ TypeOK' /\ PcOK' /\ EventsOK' /\ CacheOK' /\ OkIsComplete' /\ SubscribersAreClients'
      /\ pc'[t] = "put" /\ \A u \in Publishers : u # t => pc'[u] = pc[u]
      /\ \A d \in Clients : pc'[d] = pc[d]
  <2>1. /\ "put" \in Serving \cup {"idle"} /\ "put" \notin {"evict", "retry"} /\ Goto(t, "put")
        /\ overflown' \subseteq Clients /\ overflown \subseteq overflown' /\ event' = event
        /\ event' \in [Publishers -> Events \cup {None}] /\ UNCHANGED <<cacheVars, clientVars, updates>>
    BY <1>1 DEF Sending, Serving, TypeOK, Served
  <2>. QED  BY <1>3, <1>5, <1>6, <2>1, PublisherStepKeeps
<1>8. /\ LastPublished' = LastPublished /\ (pc'[Collector] \in Serving => pc[Collector] \in Serving)
      /\ \A d \in Clients : Awaiting(d)' => Awaiting(d)
  <2>1. pc'[t] \in Serving
    BY <1>7 DEF Serving
  <2>. QED  BY <1>2, <1>6, <1>7, <2>1, ServingFrame
<1>9. Numbers(queue'[c]) = Numbers(queue[c]) \cup (IF e.kind = "snapshot" THEN {e.sequence} ELSE {})
  BY <1>3, <1>4, <1>5, OfferNumbers
<1>10. \A d \in Clients : d # c => Got(d)' = Got(d)
  BY <1>2, <1>5 DEF Got
<1>11. Got(c)' = Got(c) \cup (IF e.kind = "snapshot" THEN {e.sequence} ELSE {})
  BY <1>2, <1>9 DEF Got
<1>12. t = Collector => e.kind = "snapshot" /\ e.sequence = sequence /\ Awaiting(c) /\ ~ Awaiting(c)'
  <2>. SUFFICES ASSUME t = Collector PROVE e.kind = "snapshot" /\ e.sequence = sequence /\ Awaiting(c) /\ ~ Awaiting(c)'
    OBVIOUS
  <2>1. e = Event("snapshot", sequence)
    BY <1>1, <1>3 DEF EventsOK
  <2>2. Awaiting(c)
    BY DEF Awaiting
  <2>3. ~ Awaiting(c)'
    BY <1>6, <1>7 DEF Awaiting
  <2>4. Event("snapshot", sequence).kind = "snapshot" /\ Event("snapshot", sequence).sequence = sequence
    BY DEF Event
  <2>. QED  BY <2>1, <2>2, <2>3, <2>4
<1>13. t # Collector => e.kind # "snapshot"
  BY <1>1, <1>3, PublisherFacts DEF EventsOK
<1>. HIDE DEF e
<1>14. StreamInOrder'
  <2>1. e.kind = "snapshot" => \A n \in Range(seen[c]) \cup Numbers(queue[c]) : n < e.sequence
    BY <1>1, <1>12, <1>13 DEF NumbersOK, Got
  <2>2. InOrder(seen[c], queue[c])
    BY <1>1 DEF StreamInOrder
  <2>3. InOrder(seen[c], Append(queue[c], e))
    BY <1>3, <1>4, <2>1, <2>2, OfferInOrder
  <2>. QED  BY <1>1, <1>2, <1>5, <2>3 DEF StreamInOrder
<1>15. NumbersOK'
  <2>. SUFFICES ASSUME NEW d \in Clients, NEW n \in Got(d)' PROVE n <= sequence' /\ (Awaiting(d)' => n < sequence')
    BY DEF NumbersOK
  <2>1. CASE n \in Got(d)
    BY <1>1, <1>2, <1>8, <2>1 DEF NumbersOK
  <2>2. CASE n \notin Got(d)
    <3>1. d = c /\ n = e.sequence /\ e.kind = "snapshot"
      BY <1>10, <1>11, <2>2
    <3>2. n = sequence /\ ~ Awaiting(d)'
      BY <1>12, <1>13, <3>1
    <3>3. sequence <= sequence
      BY <1>1, SMT, SMTT(60) DEF TypeOK
    <3>. QED  BY <1>2, <3>2, <3>3
  <2>. QED  BY <2>1, <2>2
<1>16. FollowedOK'
  <2>. SUFFICES ASSUME NEW d \in Clients PROVE pc'[d] \in Open => Followed(d)'
    BY DEF FollowedOK
  <2>1. Got(d) \subseteq Got(d)'
    BY <1>10, <1>11
  <2>2. d \in todo[Collector] => d \in todo'[Collector] \/ sequence \in Got(d)'
    <3>1. CASE t # Collector
      BY <1>6, <3>1, PublisherFacts
    <3>2. CASE t = Collector
      BY <1>6, <1>11, <1>12, <3>2
    <3>. QED  BY <3>1, <3>2
  <2>. QED  BY <1>1, <1>2, <1>7, <1>8, <2>1, <2>2, KeepFollowed
<1>. QED  BY <1>7, <1>14, <1>15, <1>16 DEF IInv

\* The queue of c has been full: an event is dropped from it, or not offered.
LEMMA DropHolds ==
    ASSUME IInv, NEW t \in Publishers, NEW c \in Clients, pc[t] \in Serving, NEW l \in Serving, Goto(t, l),
           UNCHANGED <<cacheVars, event, updates, clientVars>>, overflown' = overflown \cup {c},
           \A d \in Clients : d # c => queue'[d] = queue[d],
           queue' \in [Clients -> Seq(Events)], Numbers(queue'[c]) \subseteq Numbers(queue[c]), InOrder(seen[c], queue'[c]),
           \A u \in Publishers : u # t => target'[u] = target[u] /\ todo'[u] = todo[u],
           todo' \in [Publishers -> SUBSET Clients], target' \in [Publishers -> Clients \cup {None}],
           todo'[t] \in {todo[t], todo[t] \ {c}},
           l \in {"evict", "retry"} => target'[t] = c /\ c \in todo'[t]
    PROVE  IInv'
<1>1. /\ TypeOK /\ PcOK /\ EventsOK /\ NumbersOK /\ StreamInOrder /\ FollowedOK
  BY DEF IInv
<1>2. UNCHANGED <<sequence, subscriptions, base, seen>>
  BY DEF cacheVars, clientVars
<1>3. /\ TypeOK' /\ PcOK' /\ EventsOK' /\ CacheOK' /\ OkIsComplete' /\ SubscribersAreClients'
      /\ pc'[t] = l /\ \A u \in Publishers : u # t => pc'[u] = pc[u]
      /\ \A d \in Clients : pc'[d] = pc[d]
  <2>1. /\ pc[t] \in Sending /\ l \in Serving \cup {"idle"} /\ event' = event
        /\ overflown' \subseteq Clients /\ overflown \subseteq overflown'
        /\ event' \in [Publishers -> Events \cup {None}] /\ UNCHANGED <<cacheVars, clientVars, updates>>
        /\ (l \in {"evict", "retry"} => target'[t] \in todo'[t] \cap overflown')
    BY <1>1 DEF Sending, TypeOK
  <2>. QED  BY <2>1, PublisherStepKeeps
<1>4. /\ LastPublished' = LastPublished /\ (pc'[Collector] \in Serving => pc[Collector] \in Serving)
      /\ \A d \in Clients : Awaiting(d)' => Awaiting(d)
  <2>1. pc'[t] \in Serving /\ todo'[t] \subseteq todo[t]
    BY <1>3
  <2>. QED  BY <1>2, <1>3, <2>1, ServingFrame
<1>5. \A d \in Clients : d # c => Got(d)' = Got(d)
  BY <1>2 DEF Got
<1>6. Got(c)' \subseteq Got(c)
  BY <1>2 DEF Got
<1>7. StreamInOrder'
  BY <1>1, <1>2 DEF StreamInOrder
<1>8. NumbersOK'
  BY <1>1, <1>2, <1>4, <1>5, <1>6, KeepNumbers
<1>9. FollowedOK'
  <2>. SUFFICES ASSUME NEW d \in Clients PROVE pc'[d] \in Open => Followed(d)'
    BY DEF FollowedOK
  <2>1. d \in overflown' \/ Got(d) \subseteq Got(d)'
    BY <1>5
  <2>2. d \in todo[Collector] => d \in todo'[Collector] \/ d \in overflown'
    BY PublisherFacts
  <2>3. overflown \subseteq overflown'
    OBVIOUS
  <2>. QED  BY <1>1, <1>2, <1>3, <1>4, <2>1, <2>2, <2>3, KeepFollowed
<1>. QED  BY <1>3, <1>7, <1>8, <1>9 DEF IInv

LEMMA PutHolds == ASSUME IInv, NEW t \in Publishers, Put(t) PROVE IInv'
<1>1. TypeOK /\ StreamInOrder
  BY DEF IInv
<1>2. todo[t] \subseteq Clients /\ pc[t] = "put" /\ pc[t] \in Serving
  BY <1>1 DEF Put, TypeOK, Serving
<1>3. ASSUME NEW c \in todo[t], Offer(t, c), Served(t, c), UNCHANGED overflown PROVE IInv'
  <2>1. UNCHANGED <<cacheVars, event, updates, clientVars, overflown>>
    BY <1>3 DEF Put
  <2>. QED  BY <1>2, <1>3, <2>1, OfferHolds
<1>4. ASSUME NEW c \in todo[t], target' = [target EXCEPT ![t] = c], overflown' = overflown \cup {c},
             Goto(t, "evict"), UNCHANGED <<queue, todo>>
      PROVE  IInv'
  <2>1. UNCHANGED <<cacheVars, event, updates, clientVars>> /\ "evict" \in Serving /\ c \in Clients
    BY <1>2 DEF Put, Serving
  <2>2. /\ target' \in [Publishers -> Clients \cup {None}] /\ target'[t] = c
        /\ todo' = todo /\ queue' = queue /\ todo' \in [Publishers -> SUBSET Clients]
        /\ \A u \in Publishers : u # t => target'[u] = target[u]
    BY <1>1, <1>4, <2>1 DEF TypeOK
  <2>3. queue' \in [Clients -> Seq(Events)] /\ InOrder(seen[c], queue'[c])
    BY <1>1, <2>1, <2>2 DEF TypeOK, StreamInOrder
  <2>. QED  BY <1>2, <1>4, <2>1, <2>2, <2>3, DropHolds
<1>. QED  BY <1>3, <1>4 DEF Put

LEMMA WorkingOn ==
    ASSUME IInv, NEW t \in Publishers, pc[t] \in {"evict", "retry"}
    PROVE  /\ target[t] \in Clients /\ target[t] \in todo[t] /\ target[t] \in overflown
           /\ pc[t] \in Serving
BY DEF IInv, TypeOK, EventsOK, Serving

LEMMA EvictHolds == ASSUME IInv, NEW t \in Publishers, Evict(t) PROVE IInv'
<1>. DEFINE c == target[t]
<1>1. TypeOK /\ StreamInOrder
  BY DEF IInv
<1>2. pc[t] = "evict" /\ Goto(t, "retry") /\ "retry" \in Serving
      /\ queue' = [queue EXCEPT ![c] = IF @ = <<>> THEN @ ELSE Tail(@)]
      /\ UNCHANGED <<cacheVars, event, todo, target, updates, clientVars, overflown>>
  BY DEF Evict, Serving, fanoutVars
<1>3. c \in Clients /\ c \in todo[t] /\ c \in overflown /\ pc[t] \in Serving
  BY <1>2, WorkingOn
<1>. DEFINE r == IF queue[c] = <<>> THEN queue[c] ELSE Tail(queue[c])
<1>4. r \in Seq(Events) /\ Numbers(r) \subseteq Numbers(queue[c]) /\ InOrder(seen[c], r)
  <2>1. seen[c] \in Seq(Nat) /\ queue[c] \in Seq(Events) /\ InOrder(seen[c], queue[c])
    BY <1>1, <1>3 DEF TypeOK, StreamInOrder
  <2>2. CASE queue[c] = <<>>
    BY <2>1, <2>2
  <2>3. CASE queue[c] # <<>>
    <3>1. Tail(queue[c]) \in Seq(Events)
      BY <2>1, <2>3, TailFacts
    <3>2. Numbers(Tail(queue[c])) \subseteq Numbers(queue[c]) /\ InOrder(seen[c], Tail(queue[c]))
      BY <2>1, <2>3, TailNumbers, TailInOrder
    <3>. QED  BY <2>3, <3>1, <3>2
  <2>. QED  BY <2>2, <2>3
<1>. HIDE DEF r
<1>5. /\ queue' \in [Clients -> Seq(Events)] /\ queue'[c] = r
      /\ \A d \in Clients : d # c => queue'[d] = queue[d]
  <2>1. queue' = [queue EXCEPT ![c] = r]
    BY <1>2 DEF r
  <2>. QED  BY <1>1, <1>3, <1>4, <2>1 DEF TypeOK
<1>6. /\ todo' \in [Publishers -> SUBSET Clients] /\ target' \in [Publishers -> Clients \cup {None}]
      /\ todo' = todo /\ target' = target /\ overflown' = overflown \cup {c}
      /\ UNCHANGED <<cacheVars, event, updates, clientVars>>
  <2>1. todo \in [Publishers -> SUBSET Clients] /\ target \in [Publishers -> Clients \cup {None}]
    BY <1>1 DEF TypeOK
  <2>2. overflown = overflown \cup {c}
    BY <1>3
  <2>. QED  BY <1>2, <2>1, <2>2
<1>. QED  BY <1>2, <1>3, <1>4, <1>5, <1>6, DropHolds

LEMMA RetryHolds == ASSUME IInv, NEW t \in Publishers, Retry(t) PROVE IInv'
<1>. DEFINE c == target[t]
<1>1. TypeOK /\ StreamInOrder
  BY DEF IInv
<1>2. pc[t] = "retry" /\ Served(t, c) /\ (Offer(t, c) \/ queue' = queue)
      /\ UNCHANGED <<cacheVars, event, updates, clientVars, overflown>>
  BY DEF Retry
<1>3. c \in Clients /\ c \in todo[t] /\ c \in overflown /\ pc[t] \in Serving
  BY <1>2, WorkingOn
<1>4. CASE Offer(t, c)
  BY <1>2, <1>3, <1>4, OfferHolds
<1>5. CASE queue' = queue
  <2>1. /\ todo' \in [Publishers -> SUBSET Clients] /\ todo'[t] = todo[t] \ {c}
        /\ target' \in [Publishers -> Clients \cup {None}]
        /\ \A u \in Publishers : u # t => todo'[u] = todo[u] /\ target'[u] = target[u]
    BY <1>1, <1>2 DEF Served, TypeOK
  <2>2. Goto(t, "put") /\ "put" \in Serving /\ "put" \notin {"evict", "retry"} /\ overflown' = overflown \cup {c}
        /\ UNCHANGED <<cacheVars, event, updates, clientVars>>
    BY <1>2, <1>3 DEF Served, Serving
  <2>3. queue' \in [Clients -> Seq(Events)] /\ InOrder(seen[c], queue'[c])
    BY <1>1, <1>3, <1>5 DEF TypeOK, StreamInOrder
  <2>. QED  BY <1>3, <1>5, <2>1, <2>2, <2>3, DropHolds
<1>. QED  BY <1>2, <1>4, <1>5

\* All queues have been served: whoever follows has the snapshot.
LEMMA PublishedHolds == ASSUME IInv, NEW t \in Publishers, Published(t) PROVE IInv'
<1>1. /\ TypeOK /\ PcOK /\ NumbersOK /\ StreamInOrder /\ FollowedOK
  BY DEF IInv
<1>2. /\ pc[t] = "put" /\ todo[t] = {} /\ Goto(t, "idle") /\ event' = [event EXCEPT ![t] = None]
      /\ UNCHANGED <<cacheVars, clientVars, updates>> /\ UNCHANGED <<todo, target, queue, overflown>>
  BY DEF Published
<1>3. UNCHANGED <<sequence, subscriptions, base, seen>>
  BY <1>2 DEF cacheVars, clientVars
<1>4. event' \in [Publishers -> Events \cup {None}] /\ \A u \in Publishers : u # t => event'[u] = event[u]
  BY <1>1, <1>2 DEF TypeOK
<1>5. /\ TypeOK' /\ PcOK' /\ EventsOK' /\ CacheOK' /\ OkIsComplete' /\ SubscribersAreClients'
      /\ pc'[t] = "idle" /\ \A u \in Publishers : u # t => pc'[u] = pc[u]
      /\ \A c \in Clients : pc'[c] = pc[c]
  <2>1. /\ pc[t] \in Sending /\ "idle" \in Serving \cup {"idle"} /\ "idle" \notin {"evict", "retry"}
        /\ overflown' \subseteq Clients /\ overflown \subseteq overflown'
        /\ todo' \in [Publishers -> SUBSET Clients] /\ target' \in [Publishers -> Clients \cup {None}]
        /\ queue' \in [Clients -> Seq(Events)]
    BY <1>1, <1>2 DEF Sending, Serving, TypeOK
  <2>. QED  BY <1>2, <1>4, <2>1, PublisherStepKeeps
<1>6. (\A c \in Clients : Got(c)' = Got(c)) /\ StreamInOrder'
  BY <1>1, <1>2, <1>3, SameStreams
<1>7. CASE t # Collector
  <2>1. LastPublished' = LastPublished /\ (\A c \in Clients : Awaiting(c)' = Awaiting(c))
        /\ pc'[Collector] = pc[Collector] /\ todo'[Collector] = todo[Collector]
    BY <1>2, <1>3, <1>5, <1>7, PublisherFacts, CollectorKept
  <2>2. NumbersOK'
    BY <1>1, <1>3, <1>6, <2>1, KeepNumbers
  <2>3. FollowedOK'
    <3>. SUFFICES ASSUME NEW c \in Clients PROVE pc'[c] \in Open => Followed(c)'
      BY DEF FollowedOK
    <3>. QED  BY <1>1, <1>2, <1>3, <1>5, <1>6, <2>1, KeepFollowed
  <2>. QED  BY <1>5, <1>6, <2>2, <2>3 DEF IInv
<1>8. CASE t = Collector
  <2>1. pc'[Collector] \notin Serving /\ pc'[Collector] # "list"
    BY <1>5, <1>8 DEF Serving
  <2>2. \A c \in Clients : ~ Awaiting(c)'
    BY <2>1 DEF Awaiting
  <2>3. NumbersOK'
    BY <1>1, <1>3, <1>6, <2>2, KeepNumbers
  <2>4. LastPublished = sequence - 1 /\ LastPublished' = sequence
    BY <1>2, <1>3, <1>5, <1>8 DEF LastPublished
  <2>5. FollowedOK'
    <3>. SUFFICES ASSUME NEW c \in Clients, pc'[c] \in Open PROVE Followed(c)'
      BY DEF FollowedOK
    <3>1. Followed(c)
      BY <1>1, <1>5 DEF FollowedOK
    <3>2. c \notin overflown => (base[c] + 1)..(sequence - 1) \subseteq Got(c) /\ (base[c] < sequence => sequence \in Got(c))
      BY <1>2, <1>8, <2>4, <3>1 DEF Followed, Serving
    <3>3. base[c] \in Nat /\ sequence \in Nat
      BY <1>1 DEF TypeOK
    <3>4. c \notin overflown => (base[c] + 1)..sequence \subseteq Got(c)
      <4>. SUFFICES ASSUME c \notin overflown, NEW n \in (base[c] + 1)..sequence PROVE n \in Got(c)
        OBVIOUS
      <4>1. n \in (base[c] + 1)..(sequence - 1) \/ (n = sequence /\ base[c] < sequence)
        BY <3>3, SMT, SMTT(60)
      <4>. QED  BY <3>2, <4>1
    <3>. QED  BY <1>2, <1>3, <1>6, <2>1, <2>4, <3>1, <3>4 DEF Followed
  <2>. QED  BY <1>5, <1>6, <2>3, <2>5 DEF IInv
<1>. QED  BY <1>7, <1>8

-----------------------------------------------------------------------------
(* Connections.                                                             *)

OpenClients == {c \in Clients : pc[c] \in {"accept", "initial", "stream"}}

LEMMA CountOpened ==
    ASSUME wsClients = Cardinality(OpenClients), NEW c \in Clients, pc[c] \notin Open, pc'[c] \in Open,
           \A d \in Clients : d # c => pc'[d] = pc[d], wsClients' = wsClients + 1
    PROVE  wsClients' = Cardinality(OpenClients') /\ wsClients' \in Nat
<1>1. OpenClients' = OpenClients \cup {c} /\ c \notin OpenClients /\ OpenClients \in SUBSET Clients
  BY DEF OpenClients, Open
<1>2. IsFiniteSet(OpenClients)
  BY <1>1, FS_Subset
<1>3. Cardinality(OpenClients \cup {c}) = Cardinality(OpenClients) + 1
  BY <1>1, <1>2, FS_AddElement
<1>4. Cardinality(OpenClients) \in Nat
  BY <1>2, FS_CardinalityType
<1>5. Cardinality(OpenClients') = wsClients'
  BY <1>1, <1>3
<1>. QED  BY <1>4, <1>5, SMT, SMTT(60)

LEMMA CountClosed ==
    ASSUME wsClients = Cardinality(OpenClients), NEW c \in Clients, pc[c] \in Open, pc'[c] \notin Open,
           \A d \in Clients : d # c => pc'[d] = pc[d], wsClients' = wsClients - 1
    PROVE  wsClients' = Cardinality(OpenClients') /\ wsClients' \in Nat
<1>1. OpenClients' = OpenClients \ {c} /\ c \in OpenClients /\ OpenClients \in SUBSET Clients
  BY DEF OpenClients, Open
<1>2. IsFiniteSet(OpenClients) /\ IsFiniteSet(OpenClients \ {c})
  BY <1>1, FS_Subset, FS_RemoveElement
<1>3. Cardinality(OpenClients \ {c}) = Cardinality(OpenClients) - 1
  BY <1>1, <1>2, FS_RemoveElement
<1>4. Cardinality(OpenClients \ {c}) \in Nat
  BY <1>2, FS_CardinalityType
<1>. QED  BY <1>1, <1>3, <1>4

\* A connection moves and no publisher does.
LEMMA ClientStepKeeps ==
    ASSUME IInv, PcOK', \A u \in Publishers : pc'[u] = pc[u], UNCHANGED <<cacheVars, fanoutVars, overflown>>
    PROVE  /\ EventsOK' /\ CacheOK' /\ OkIsComplete' /\ pc'[Collector] = pc[Collector]
           /\ sequence' = sequence /\ todo' = todo /\ overflown' = overflown
           /\ LastPublished' = LastPublished /\ \A c \in Clients : Awaiting(c)' = Awaiting(c)
<1>1. UNCHANGED <<cache, sequence, snapshot, event, todo, target, overflown>>
  BY DEF cacheVars, fanoutVars
<1>2. EventsOK'
  BY <1>1, PublisherFacts DEF IInv, EventsOK
<1>3. pc'[Collector] = pc[Collector]
  BY PublisherFacts
<1>4. CacheOK' /\ OkIsComplete'
  BY <1>1, <1>3 DEF IInv, CacheOK, OkIsComplete
<1>. QED  BY <1>1, <1>2, <1>3, <1>4, CollectorKept

\* The types, but for what a connection changes.
LEMMA ClientStepTypes ==
    ASSUME TypeOK, EventsOK', UNCHANGED <<cacheVars, fanoutVars, overflown>>, wsClients' \in Nat,
           subscriptions' \subseteq Clients, base' \in [Clients -> Nat], seen' \in [Clients -> Seq(Nat)],
           queue' \in [Clients -> Seq(Events)]
    PROVE  TypeOK'
<1>1. UNCHANGED <<cache, sequence, snapshot, listening, event, todo, target, updates, overflown>>
  BY DEF cacheVars, fanoutVars
<1>2. \A u \in Publishers : pc'[u] \in {"evict", "retry"} => target'[u] \in todo'[u] /\ event'[u] \in Events
  BY DEF EventsOK, Sending, Serving
<1>. QED  BY <1>1, <1>2 DEF TypeOK

LEMMA LastPublishedBound == ASSUME TypeOK PROVE LastPublished <= sequence /\ LastPublished \in Int
BY SMT, SMTT(60) DEF TypeOK, LastPublished

\* The handler subscribes before anything newer can be published.
LEMMA SubscribeHolds == ASSUME IInv, NEW c \in Clients, Subscribe(c) PROVE IInv'
<1>1. /\ TypeOK /\ PcOK /\ SubscribersAreClients /\ NumbersOK /\ StreamInOrder /\ FollowedOK
  BY DEF IInv
<1>2. /\ pc[c] = "idle" /\ wsClients' = wsClients + 1 /\ subscriptions' = subscriptions \cup {c}
      /\ base' = [base EXCEPT ![c] = sequence] /\ seen' = seen /\ queue' = queue
      /\ UNCHANGED <<cacheVars, fanoutVars, overflown>> /\ Goto(c, "accept")
  BY DEF Subscribe
<1>3. /\ PcOK' /\ pc'[c] = "accept" /\ \A d \in Clients : d # c => pc'[d] = pc[d]
      /\ \A u \in Publishers : pc'[u] = pc[u]
  <2>1. "accept" \in ClientLabels
    BY DEF ClientLabels, Open
  <2>. QED  BY <1>1, <1>2, <2>1, ClientMoves
<1>4. /\ EventsOK' /\ CacheOK' /\ OkIsComplete' /\ pc'[Collector] = pc[Collector]
      /\ sequence' = sequence /\ todo' = todo /\ overflown' = overflown
      /\ LastPublished' = LastPublished /\ \A d \in Clients : Awaiting(d)' = Awaiting(d)
  BY <1>2, <1>3, ClientStepKeeps
<1>5. wsClients' = Cardinality(OpenClients') /\ wsClients' \in Nat
  <2>1. pc[c] \notin Open /\ pc'[c] \in Open /\ wsClients = Cardinality(OpenClients)
    BY <1>1, <1>2, <1>3 DEF Open, SubscribersAreClients, OpenClients
  <2>. QED  BY <1>2, <1>3, <2>1, CountOpened
<1>6. SubscribersAreClients'
  <2>1. \A d \in subscriptions' : pc'[d] \in {"accept", "initial", "stream", "refused"}
    BY <1>1, <1>2, <1>3 DEF SubscribersAreClients, TypeOK
  <2>. QED  BY <1>5, <2>1 DEF SubscribersAreClients, OpenClients
<1>7. base' \in [Clients -> Nat] /\ base'[c] = sequence /\ \A d \in Clients : d # c => base'[d] = base[d]
  BY <1>1, <1>2 DEF TypeOK
<1>8. TypeOK'
  <2>1. subscriptions' \subseteq Clients /\ seen' \in [Clients -> Seq(Nat)] /\ queue' \in [Clients -> Seq(Events)]
    BY <1>1, <1>2 DEF TypeOK
  <2>. QED  BY <1>1, <1>2, <1>4, <1>5, <1>7, <2>1, ClientStepTypes
<1>9. (\A d \in Clients : Got(d)' = Got(d)) /\ StreamInOrder'
  BY <1>1, <1>2, SameStreams
<1>10. NumbersOK'
  BY <1>1, <1>4, <1>9, KeepNumbers
<1>11. Followed(c)'
  <2>1. LastPublished <= sequence /\ LastPublished \in Int /\ sequence \in Nat
    BY <1>1, LastPublishedBound DEF TypeOK
  <2>2. (base'[c] + 1)..LastPublished' = {} /\ base'[c] <= sequence' /\ ~ (base'[c] < sequence')
    BY <1>4, <1>7, <2>1, EmptyRange
  <2>3. c \in subscriptions'
    BY <1>2
  <2>. QED  BY <2>2, <2>3 DEF Followed
<1>12. FollowedOK'
  <2>. SUFFICES ASSUME NEW d \in Clients, d # c, pc'[d] \in Open PROVE Followed(d)'
    BY <1>11 DEF FollowedOK
  <2>1. Followed(d)
    BY <1>1, <1>3 DEF FollowedOK
  <2>. QED  BY <1>2, <1>4, <1>7, <1>9, <2>1 DEF Followed
<1>. QED  BY <1>3, <1>4, <1>6, <1>8, <1>9, <1>10, <1>12 DEF IInv

\* A connection goes on, or ends; one that ends need not be in the table.
LEMMA MoveOnHolds ==
    ASSUME IInv, NEW c \in Clients, pc[c] \in Open, NEW l \in ClientLabels \ {"idle"}, Goto(c, l),
           UNCHANGED <<cacheVars, fanoutVars, base, seen, queue, overflown>>,
           subscriptions' \in {subscriptions, subscriptions \ {c}}, l # "refused" /\ l \notin Open => subscriptions' = subscriptions \ {c},
           l \in Open => subscriptions' = subscriptions,
           wsClients' = IF l \in Open THEN wsClients ELSE wsClients - 1
    PROVE  IInv'
<1>1. /\ TypeOK /\ PcOK /\ SubscribersAreClients /\ NumbersOK /\ StreamInOrder /\ FollowedOK
  BY DEF IInv
<1>2. /\ PcOK' /\ pc'[c] = l /\ \A d \in Clients : d # c => pc'[d] = pc[d]
      /\ \A u \in Publishers : pc'[u] = pc[u]
  BY <1>1, ClientMoves
<1>3. /\ EventsOK' /\ CacheOK' /\ OkIsComplete' /\ pc'[Collector] = pc[Collector]
      /\ sequence' = sequence /\ todo' = todo /\ overflown' = overflown
      /\ LastPublished' = LastPublished /\ \A d \in Clients : Awaiting(d)' = Awaiting(d)
  BY <1>2, ClientStepKeeps
<1>4. wsClients = Cardinality(OpenClients) /\ wsClients \in Nat
  BY <1>1 DEF SubscribersAreClients, OpenClients, TypeOK
<1>5. wsClients' = Cardinality(OpenClients') /\ wsClients' \in Nat
  <2>1. CASE l \in Open
    <3>1. OpenClients' = OpenClients
      BY <1>2, <2>1 DEF OpenClients, Open
    <3>. QED  BY <1>4, <2>1, <3>1
  <2>2. CASE l \notin Open
    BY <1>2, <1>4, <2>2, CountClosed
  <2>. QED  BY <2>1, <2>2
<1>6. SubscribersAreClients'
  <2>1. \A d \in subscriptions' : pc'[d] \in {"accept", "initial", "stream", "refused"}
    <3>. SUFFICES ASSUME NEW d \in subscriptions' PROVE pc'[d] \in {"accept", "initial", "stream", "refused"}
      OBVIOUS
    <3>1. d \in subscriptions /\ d \in Clients
      BY <1>1 DEF TypeOK
    <3>2. d = c => l = "refused" \/ l \in Open
      OBVIOUS
    <3>. QED  BY <1>1, <1>2, <3>1, <3>2 DEF SubscribersAreClients, Open
  <2>. QED  BY <1>5, <2>1 DEF SubscribersAreClients, OpenClients
<1>7. TypeOK'
  <2>1. /\ subscriptions' \subseteq Clients /\ seen' \in [Clients -> Seq(Nat)] /\ queue' \in [Clients -> Seq(Events)]
        /\ base' \in [Clients -> Nat]
    BY <1>1 DEF TypeOK
  <2>2. UNCHANGED <<cacheVars, fanoutVars, overflown>>
    OBVIOUS
  <2>. QED  BY <1>1, <1>3, <1>5, <2>1, <2>2, ClientStepTypes
<1>8. (\A d \in Clients : Got(d)' = Got(d)) /\ StreamInOrder'
  BY <1>1, SameStreams
<1>9. NumbersOK'
  BY <1>1, <1>3, <1>8, KeepNumbers
<1>10. FollowedOK'
  <2>. SUFFICES ASSUME NEW d \in Clients PROVE pc'[d] \in Open => Followed(d)'
    BY DEF FollowedOK
  <2>1. pc'[d] \in Open => pc[d] \in Open /\ (d \in subscriptions => d \in subscriptions')
    BY <1>2
  <2>. QED  BY <1>1, <1>3, <1>8, <2>1, KeepFollowed
<1>. QED  BY <1>2, <1>3, <1>6, <1>7, <1>8, <1>9, <1>10 DEF IInv

LEMMA AcceptHolds == ASSUME IInv, NEW c \in Clients, Accept(c) PROVE IInv'
<1>1. pc[c] \in Open /\ UNCHANGED <<cacheVars, fanoutVars, base, seen, queue, overflown>> /\ subscriptions' = subscriptions
  BY DEF Accept, Open
<1>2. CASE Goto(c, "initial") /\ UNCHANGED wsClients
  <2>1. "initial" \in ClientLabels \ {"idle"} /\ "initial" \in Open
    BY DEF ClientLabels, Open
  <2>. QED  BY <1>1, <1>2, <2>1, MoveOnHolds
<1>3. CASE Goto(c, "refused") /\ wsClients' = wsClients - 1
  <2>1. "refused" \in ClientLabels \ {"idle"} /\ "refused" \notin Open
    BY DEF ClientLabels, Open
  <2>. QED  BY <1>1, <1>3, <2>1, MoveOnHolds
<1>. QED  BY <1>2, <1>3 DEF Accept

LEMMA DisconnectHolds == ASSUME IInv, NEW c \in Clients, Disconnect(c) PROVE IInv'
<1>1. /\ pc[c] \in Open /\ UNCHANGED <<cacheVars, fanoutVars, base, seen, queue, overflown>>
      /\ subscriptions' = subscriptions \ {c} /\ Goto(c, "closed") /\ wsClients' = wsClients - 1
  BY DEF Disconnect, Open
<1>2. "closed" \in ClientLabels \ {"idle"} /\ "closed" \notin Open
  BY DEF ClientLabels, Open
<1>. QED  BY <1>1, <1>2, MoveOnHolds

\* The current snapshot stands for all that were published before it.
LEMMA SendInitialHolds == ASSUME IInv, NEW c \in Clients, SendInitial(c) PROVE IInv'
<1>1. /\ TypeOK /\ PcOK /\ CacheOK /\ SubscribersAreClients /\ NumbersOK /\ StreamInOrder /\ FollowedOK
  BY DEF IInv
<1>2. /\ pc[c] = "initial" /\ base' \in {[base EXCEPT ![c] = sequence], base} /\ Goto(c, "stream")
      /\ UNCHANGED <<cacheVars, fanoutVars, overflown>>
      /\ subscriptions' = subscriptions /\ wsClients' = wsClients /\ seen' = seen /\ queue' = queue
  BY <1>1 DEF SendInitial, CacheOK
<1>3. /\ PcOK' /\ pc'[c] = "stream" /\ \A d \in Clients : d # c => pc'[d] = pc[d]
      /\ \A u \in Publishers : pc'[u] = pc[u]
  <2>1. "stream" \in ClientLabels
    BY DEF ClientLabels, Open
  <2>. QED  BY <1>1, <1>2, <2>1, ClientMoves
<1>4. /\ EventsOK' /\ CacheOK' /\ OkIsComplete' /\ pc'[Collector] = pc[Collector]
      /\ sequence' = sequence /\ todo' = todo /\ overflown' = overflown
      /\ LastPublished' = LastPublished /\ \A d \in Clients : Awaiting(d)' = Awaiting(d)
  BY <1>2, <1>3, ClientStepKeeps
<1>5. SubscribersAreClients' /\ wsClients' \in Nat
  <2>1. OpenClients' = OpenClients
    BY <1>2, <1>3 DEF OpenClients
  <2>2. \A d \in subscriptions' : pc'[d] \in {"accept", "initial", "stream", "refused"}
    BY <1>1, <1>2, <1>3 DEF SubscribersAreClients, TypeOK
  <2>3. wsClients = Cardinality(OpenClients)
    BY <1>1 DEF SubscribersAreClients, OpenClients
  <2>4. wsClients' = Cardinality(OpenClients')
    BY <1>2, <2>1, <2>3
  <2>. QED  BY <1>1, <1>2, <2>2, <2>4 DEF SubscribersAreClients, OpenClients, TypeOK
<1>6. base' \in [Clients -> Nat] /\ base'[c] \in {sequence, base[c]} /\ \A d \in Clients : d # c => base'[d] = base[d]
  <2>1. base \in [Clients -> Nat] /\ sequence \in Nat
    BY <1>1 DEF TypeOK
  <2>2. CASE base' = base
    BY <2>1, <2>2
  <2>3. CASE base' = [base EXCEPT ![c] = sequence]
    BY <2>1, <2>3
  <2>. QED  BY <1>2, <2>2, <2>3
<1>7. TypeOK'
  <2>1. subscriptions' \subseteq Clients /\ seen' \in [Clients -> Seq(Nat)] /\ queue' \in [Clients -> Seq(Events)]
    BY <1>1, <1>2 DEF TypeOK
  <2>. QED  BY <1>1, <1>2, <1>4, <1>5, <1>6, <2>1, ClientStepTypes
<1>8. (\A d \in Clients : Got(d)' = Got(d)) /\ StreamInOrder'
  BY <1>1, <1>2, SameStreams
<1>9. NumbersOK'
  BY <1>1, <1>4, <1>8, KeepNumbers
<1>10. Followed(c)'
  <2>1. Followed(c)
    BY <1>1, <1>2 DEF FollowedOK, Open
  <2>2. CASE base'[c] = sequence
    <3>1. LastPublished <= sequence /\ LastPublished \in Int /\ sequence \in Nat
      BY <1>1, LastPublishedBound DEF TypeOK
    <3>2. (base'[c] + 1)..LastPublished' = {} /\ base'[c] <= sequence' /\ ~ (base'[c] < sequence')
      BY <1>4, <2>2, <3>1, EmptyRange
    <3>. QED  BY <1>2, <2>1, <3>2 DEF Followed
  <2>3. CASE base'[c] = base[c]
    BY <1>2, <1>4, <1>8, <2>1, <2>3 DEF Followed
  <2>. QED  BY <1>6, <2>2, <2>3
<1>11. FollowedOK'
  <2>. SUFFICES ASSUME NEW d \in Clients, d # c, pc'[d] \in Open PROVE Followed(d)'
    BY <1>10 DEF FollowedOK
  <2>1. Followed(d)
    BY <1>1, <1>3 DEF FollowedOK
  <2>. QED  BY <1>2, <1>4, <1>6, <1>8, <2>1 DEF Followed
<1>. QED  BY <1>3, <1>4, <1>5, <1>7, <1>8, <1>9, <1>11 DEF IInv

\* What leaves the queue is sent.
LEMMA ReceiveHolds == ASSUME IInv, NEW c \in Clients, Receive(c) PROVE IInv'
<1>1. /\ TypeOK /\ PcOK /\ SubscribersAreClients /\ NumbersOK /\ StreamInOrder /\ FollowedOK
  BY DEF IInv
<1>. DEFINE q == queue[c]
            e == Head(q)
            s == IF e.kind = "snapshot" THEN Append(seen[c], e.sequence) ELSE seen[c]
<1>2. /\ q # <<>> /\ seen' = [seen EXCEPT ![c] = s] /\ queue' = [queue EXCEPT ![c] = Tail(q)]
      /\ UNCHANGED <<cacheVars, fanoutVars, overflown>> /\ pc' = pc
      /\ subscriptions' = subscriptions /\ wsClients' = wsClients /\ base' = base
  BY DEF Receive
<1>3. seen[c] \in Seq(Nat) /\ q \in Seq(Events) /\ InOrder(seen[c], q)
  BY <1>1 DEF TypeOK, StreamInOrder
<1>4. e \in Events /\ Tail(q) \in Seq(Events) /\ e.sequence \in Nat
  <2>1. e \in Events /\ Tail(q) \in Seq(Events)
    BY <1>2, <1>3, TailFacts
  <2>. QED  BY <2>1 DEF Events
<1>5. Numbers(q) = Numbers(Tail(q)) \cup (IF e.kind = "snapshot" THEN {e.sequence} ELSE {})
  BY <1>2, <1>3, TailNumbers
<1>6. /\ InOrder(seen[c], Tail(q))
      /\ e.kind = "snapshot" => \A n \in Numbers(Tail(q)) : e.sequence < n
  BY <1>2, <1>3, TailInOrder
<1>7. s \in Seq(Nat) /\ InOrder(s, Tail(q)) /\ Range(s) \cup Numbers(Tail(q)) = Range(seen[c]) \cup Numbers(q)
  <2>1. CASE e.kind = "snapshot"
    <3>1. Append(seen[c], e.sequence) \in Seq(Nat) /\ Range(Append(seen[c], e.sequence)) = Range(seen[c]) \cup {e.sequence}
      BY <1>3, <1>4, AppendFacts, SeenAppend, SMT, SMTT(60)
    <3>2. e.sequence \in Numbers(q)
      BY <1>5, <2>1
    <3>3. \A m \in Range(seen[c]) : m < e.sequence
      BY <1>3, <3>2 DEF InOrder, Range
    <3>4. InOrder(Append(seen[c], e.sequence), Tail(q))
      BY <1>3, <1>4, <1>6, <2>1, <3>3, AppendInOrder
    <3>. QED  BY <1>5, <2>1, <3>1, <3>4
  <2>2. CASE e.kind # "snapshot"
    BY <1>3, <1>5, <1>6, <2>2
  <2>. QED  BY <2>1, <2>2
<1>. HIDE DEF e, s
<1>8. /\ seen' \in [Clients -> Seq(Nat)] /\ seen'[c] = s /\ \A d \in Clients : d # c => seen'[d] = seen[d]
      /\ queue' \in [Clients -> Seq(Events)] /\ queue'[c] = Tail(q) /\ \A d \in Clients : d # c => queue'[d] = queue[d]
  BY <1>1, <1>2, <1>4, <1>7 DEF TypeOK
<1>9. \A d \in Clients : Got(d)' = Got(d)
  BY <1>7, <1>8 DEF Got
<1>10. StreamInOrder'
  BY <1>1, <1>7, <1>8 DEF StreamInOrder
<1>11. PcOK' /\ \A u \in Publishers : pc'[u] = pc[u]
  BY <1>1, <1>2 DEF PcOK
<1>12. /\ EventsOK' /\ CacheOK' /\ OkIsComplete' /\ pc'[Collector] = pc[Collector]
      /\ sequence' = sequence /\ todo' = todo /\ overflown' = overflown
      /\ LastPublished' = LastPublished /\ \A d \in Clients : Awaiting(d)' = Awaiting(d)
  BY <1>2, <1>11, ClientStepKeeps
<1>13. SubscribersAreClients' /\ TypeOK'
  <2>1. SubscribersAreClients'
    BY <1>1, <1>2, KeepCount
  <2>2. wsClients' \in Nat /\ subscriptions' \subseteq Clients /\ base' \in [Clients -> Nat]
    BY <1>1, <1>2 DEF TypeOK
  <2>. QED  BY <1>1, <1>2, <1>8, <1>12, <2>1, <2>2, ClientStepTypes
<1>14. NumbersOK'
  BY <1>1, <1>9, <1>12, KeepNumbers
<1>15. FollowedOK'
  <2>. SUFFICES ASSUME NEW d \in Clients PROVE pc'[d] \in Open => Followed(d)'
    BY DEF FollowedOK
  <2>. QED  BY <1>1, <1>2, <1>9, <1>12, KeepFollowed
<1>. QED  BY <1>10, <1>11, <1>12, <1>13, <1>14, <1>15 DEF IInv

-----------------------------------------------------------------------------
(* The invariant.                                                           *)

LEMMA InitHolds == Init => IInv
<1>. SUFFICES ASSUME Init PROVE IInv
  OBVIOUS
<1>1. (\A t \in Publishers : pc[t] \in {"boot", "idle"}) /\ \A c \in Clients : pc[c] = "idle"
  BY DEF Init, Publishers
<1>2. PcOK
  <2>1. pc \in [Publishers \cup Clients -> {"boot", "idle"}]
    BY DEF Init
  <2>2. "boot" \in PublisherLabels /\ "idle" \in PublisherLabels /\ "idle" \in ClientLabels
    BY DEF PublisherLabels, ClientLabels
  <2>. QED  BY <1>1, <2>1, <2>2 DEF PcOK
<1>3. <<>> \in Seq(Events) /\ <<>> \in Seq(Nat) /\ DOMAIN <<>> = {} /\ 0 \in Nat
  BY SMT, SMTT(60)
<1>4. TypeOK
  <2>1. snapshot \in [sequence : Nat, status : {"none", "ok", "degraded"}, available : SUBSET Components]
    BY <1>3 DEF Init
  <2>2. cache \in [Components -> [data : BOOLEAN, error : BOOLEAN]]
    BY DEF Init
  <2>3. queue \in [Clients -> Seq(Events)] /\ seen \in [Clients -> Seq(Nat)] /\ base \in [Clients -> Nat]
    BY <1>3 DEF Init
  <2>4. /\ event \in [Publishers -> Events \cup {None}] /\ todo \in [Publishers -> SUBSET Clients]
        /\ target \in [Publishers -> Clients \cup {None}]
    BY DEF Init
  <2>5. \A t \in Publishers : pc[t] \notin {"evict", "retry"}
    BY <1>1
  <2>. QED  BY <1>3, <2>1, <2>2, <2>3, <2>4, <2>5 DEF Init, TypeOK
<1>5. EventsOK
  BY <1>1, PublisherFacts DEF EventsOK, Sending, Serving
<1>6. CacheOK /\ OkIsComplete
  BY <1>1, PublisherFacts DEF Init, CacheOK, OkIsComplete
<1>7. SubscribersAreClients
  <2>1. {c \in Clients : pc[c] \in {"accept", "initial", "stream"}} = {}
    BY <1>1
  <2>. QED  BY <2>1, FS_EmptySet DEF Init, SubscribersAreClients
<1>8. \A c \in Clients : Got(c) = {} /\ seen[c] = <<>> /\ queue[c] = <<>>
  BY <1>3 DEF Init, Got, Range, Numbers, Snapshots
<1>9. NumbersOK
  BY <1>8 DEF NumbersOK
<1>10. StreamInOrder
  BY <1>3, <1>8 DEF StreamInOrder, InOrder, Numbers, Snapshots
<1>11. FollowedOK
  BY <1>1 DEF FollowedOK, Open
<1>. QED  BY <1>2, <1>4, <1>5, <1>6, <1>7, <1>9, <1>10, <1>11 DEF IInv

LEMMA StutterHolds == IInv /\ UNCHANGED vars => IInv'
<1>. SUFFICES ASSUME IInv, UNCHANGED vars PROVE IInv'
  OBVIOUS
<1>1. UNCHANGED <<cache, sequence, snapshot, listening, event, todo, target, updates, subscriptions, wsClients, base, seen, queue, pc, overflown>>
  BY DEF vars, cacheVars, fanoutVars, clientVars
<1>2. TypeOK'
  BY <1>1 DEF IInv, TypeOK
<1>3. PcOK' /\ EventsOK' /\ CacheOK' /\ OkIsComplete' /\ SubscribersAreClients'
  BY <1>1 DEF IInv, PcOK, EventsOK, CacheOK, OkIsComplete, SubscribersAreClients
<1>4. NumbersOK' /\ StreamInOrder' /\ FollowedOK'
  BY <1>1 DEF IInv, NumbersOK, StreamInOrder, FollowedOK, Followed, Got, Awaiting, LastPublished
<1>. QED  BY <1>2, <1>3, <1>4 DEF IInv

LEMMA NextHolds == IInv /\ [Next]_vars => IInv'
<1>. SUFFICES ASSUME IInv, [Next]_vars PROVE IInv'
  OBVIOUS
<1>1. ASSUME NEW t \in Publishers, PublisherStep(t) PROVE IInv'
  BY <1>1, ListHolds, PutHolds, EvictHolds, RetryHolds, PublishedHolds DEF PublisherStep
<1>2. ASSUME NEW c \in Clients, ClientStep(c) PROVE IInv'
  BY <1>2, SubscribeHolds, AcceptHolds, DisconnectHolds, SendInitialHolds, ReceiveHolds DEF ClientStep
<1>3. CASE CollectorStep \/ Wake \/ Stop
  BY <1>1, <1>3, StartHolds, CollectHolds, NumberHolds, WakeHolds, StopHolds, PublisherFacts DEF CollectorStep
<1>4. ASSUME NEW t \in Tracers, PublishTraceRun(t) \/ PublisherStep(t) PROVE IInv'
  BY <1>1, <1>4, PublishTraceRunHolds, PublisherFacts
<1>. QED  BY <1>2, <1>3, <1>4, StutterHolds DEF Next

LEMMA Invariance == Spec => []IInv
BY InitHolds, NextHolds, PTL DEF Spec

-----------------------------------------------------------------------------
(* What it implies.                                                         *)

\* The types of the service's state; a publisher that makes room in a queue has
\* an event to offer to it.
THEOREM TypesCorrect == Spec => []TypeOK
<1>1. IInv => TypeOK
  BY DEF IInv
<1>. QED  BY <1>1, Invariance, PTL

\* _publish_event: whatever the publishers and the reader do to a full queue
\* between its three operations, the snapshots of a stream are in the order of
\* their numbers.
THEOREM StreamsAreOrdered == Spec => []StreamInOrder
<1>1. IInv => StreamInOrder
  BY DEF IInv
<1>. QED  BY <1>1, Invariance, PTL

\* stream_live_monitoring subscribes before it reads the current snapshot: a
\* client whose queue was never full misses none.
THEOREM StreamsAreComplete == Spec => []NothingMissed
<1>1. IInv => NothingMissed
  BY DEF IInv, FollowedOK, Followed, Open, Got, NothingMissed
<1>. QED  BY <1>1, Invariance, PTL

\* _collect_snapshot: a snapshot that says ok has data of every component, and
\* no refresh that fails takes data away.
THEOREM StatusIsHonest == Spec => []OkIsComplete
<1>1. IInv => OkIsComplete
  BY DEF IInv
<1>. QED  BY <1>1, Invariance, PTL

\* The middleware and the handler: as many connections are counted as are open,
\* and only those that were never accepted leave a subscription behind.
THEOREM ConnectionsAreCounted == Spec => []SubscribersAreClients
<1>1. IInv => SubscribersAreClients
  BY DEF IInv
<1>. QED  BY <1>1, Invariance, PTL
=============================================================================
