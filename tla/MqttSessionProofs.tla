-------------------------- MODULE MqttSessionProofs --------------------------
(***************************************************************************)
(* Proofs about MqttSession, for every configuration and any number of     *)
(* publications and outages.                                               *)
(***************************************************************************)
EXTENDS MqttSession, SequenceTheorems, FiniteSetTheorems, TLAPS

Statuses == [topic: Topics, id: Nat \ {0}]

TypeInv ==
  /\ config \in Configs
  /\ published \in [Topics -> Nat]
  /\ inbox \in Seq(Statuses)
  /\ routes \in [Topics -> Nat]
  /\ next \in [Subscribers -> Nat]
  /\ IF pc = "serve" THEN status \in [Devices -> Nat] ELSE status = <<>>

\* The callback of a topic is that of a device with this topic.
RouteInv ==
  \A t \in Topics : routes[t] # 0 =>
    routes[t] \in Devices /\ config.statusTopic[routes[t]] = t

\* Of the statuses on the way, none overtakes a newer one, or what the broker retains.
Ordered(in, pub) ==
  \A i \in 1 .. Len(in) :
    /\ in[i].id <= pub[in[i].topic]
    /\ \A j \in i .. Len(in) : in[j].topic = in[i].topic => in[i].id <= in[j].id

\* The status n of a device is not newer than what is on the way on its topic.
Before(n, topic, in, pub) ==
  /\ topic \in Topics => n <= pub[topic]
  /\ \A i \in 1 .. Len(in) : in[i].topic = topic => n <= in[i].id

OrderInv == Ordered(inbox, published)
BehindInv ==
  pc = "serve" => \A d \in Devices : Before(status[d], config.statusTopic[d], inbox, published)

IInv == TypeInv /\ RouteInv /\ OrderInv /\ BehindInv

------------------------------------------------------------------------------
\* A configuration names topics.
LEMMA Configuration ==
  ASSUME config \in Configs
  PROVE  /\ config.statusTopic \in Seq(Topics \cup {NoTopic})
         /\ Devices = 1 .. Len(config.statusTopic) /\ Len(config.statusTopic) \in Nat
         /\ \A d \in Devices : config.statusTopic[d] \in Topics \cup {NoTopic}
BY SessionAssumption DEF Devices

\* The fields of a status.
LEMMA StatusFields ==
  /\ \A m \in Statuses : m.topic \in Topics /\ m.id \in Nat /\ m.id # 0
  /\ \A t \in Topics, n \in Nat \ {0} : [topic |-> t, id |-> n] \in Statuses
BY DEF Statuses

\* What a sequence of statuses holds.
LEMMA StatusSeq ==
  ASSUME NEW s \in Seq(Statuses)
  PROVE  /\ Len(s) \in Nat /\ \A i \in 1 .. Len(s) : s[i] \in Statuses
         /\ \A i \in 1 .. Len(s) : s[i].topic \in Topics /\ s[i].id \in Nat
<1>1. Len(s) \in Nat /\ \A i \in 1 .. Len(s) : s[i] \in Statuses
  BY LenProperties, ElementOfSeq
<1> QED BY <1>1, StatusFields

\* A function on 1 .. n is a sequence.
LEMMA FunctionIsSeq ==
  ASSUME NEW S, NEW n \in Nat, NEW f \in [1 .. n -> S]
  PROVE  f \in Seq(S)
BY SeqDef

\* What a subscription sends is what is retained on topics, that of the filter in
\* particular.
LEMMA RetainedStatuses ==
  ASSUME NEW filter, published \in [Topics -> Nat]
  PROVE  /\ Retained(filter) \in Seq(Statuses)
         /\ \A i \in 1 .. Len(Retained(filter)) :
              Retained(filter)[i].id = published[Retained(filter)[i].topic]
         /\ filter \in Topics /\ published[filter] > 0 =>
              \E i \in 1 .. Len(Retained(filter)) :
                Retained(filter)[i] = [topic |-> filter, id |-> published[filter]]
<1> DEFINE ts == {t \in Topics : filter \in {t, All} /\ published[t] > 0}
           f == SetToSeq(ts)
<1>1. IsFiniteSet(ts)
  BY SessionAssumption, FS_Subset
<1>2. Cardinality(ts) \in Nat /\ ExistsBijection(1 .. Cardinality(ts), ts)
  BY <1>1, FS_CardinalityType
<1>3. \E g \in [1 .. Cardinality(ts) -> ts] : IsInjective(g)
  BY <1>2 DEF ExistsBijection, Bijection, Injection, IsInjective
<1>4. f \in [1 .. Cardinality(ts) -> ts]
  BY <1>3 DEF SetToSeq
<1>5. /\ Len(f) = Cardinality(ts) /\ Len(f) \in Nat
      /\ \A i \in 1 .. Len(f) : f[i] \in ts /\ f[i] \in Topics /\ published[f[i]] \in Nat \ {0}
  <2>1. \A t \in ts : t \in Topics /\ published[t] \in Nat \ {0}
    OBVIOUS
  <2> HIDE DEF f, ts
  <2>2. f \in Seq(ts)
    BY <1>2, <1>4, FunctionIsSeq
  <2>3. Len(f) = Cardinality(ts)
    BY <1>2, <1>4, <2>2, LenProperties
  <2> QED BY <1>2, <1>4, <2>1, <2>3
<1>s. filter \in Topics /\ published[filter] > 0 => Len(f) = 1 /\ f[1] = filter
  <2> SUFFICES ASSUME filter \in Topics, published[filter] > 0
               PROVE  Len(f) = 1 /\ f[1] = filter
    OBVIOUS
  <2>1. ts = {filter}
    BY SessionAssumption
  <2>2. Cardinality(ts) = 1
    BY <2>1, FS_Singleton
  <2> HIDE DEF f, ts
  <2> QED BY <1>5, <2>1, <2>2
<1>6. Retained(filter) = [i \in 1 .. Len(f) |-> [topic |-> f[i], id |-> published[f[i]]]]
  BY DEF Retained
<1> HIDE DEF f, ts
<1>7. [i \in 1 .. Len(f) |-> [topic |-> f[i], id |-> published[f[i]]]]
        \in [1 .. Len(f) -> Statuses]
  BY <1>5, StatusFields
<1>8. Retained(filter) \in Seq(Statuses) /\ Len(Retained(filter)) = Len(f)
  <2>1. Retained(filter) \in Seq(Statuses)
    BY <1>5, <1>6, <1>7, FunctionIsSeq
  <2>2. DOMAIN Retained(filter) = 1 .. Len(Retained(filter)) /\ Len(Retained(filter)) \in Nat
    BY <2>1, LenProperties
  <2>3. DOMAIN Retained(filter) = 1 .. Len(f)
    BY <1>6
  <2> QED BY <1>5, <2>1, <2>2, <2>3
<1>9. \A i \in 1 .. Len(f) : Retained(filter)[i] = [topic |-> f[i], id |-> published[f[i]]]
  BY <1>6
<1> QED BY <1>5, <1>s, <1>8, <1>9

\* Statuses may get lost at the end.
LEMMA Prefix ==
  ASSUME TypeInv, OrderInv, NEW n \in 0 .. Len(inbox)
  PROVE  LET in == SubSeq(inbox, 1, n)
         IN  /\ in \in Seq(Statuses) /\ Ordered(in, published)
             /\ \A k, topic : Before(k, topic, inbox, published) => Before(k, topic, in, published)
<1> DEFINE in == SubSeq(inbox, 1, n)
<1>1. inbox \in Seq(Statuses) /\ Len(inbox) \in Nat
  BY LenProperties DEF TypeInv
<1>2. in \in Seq(Statuses) /\ Len(in) = n /\ \A i \in 1 .. n : in[i] = inbox[i]
  <2>1. \A i \in 1 .. n : inbox[i] \in Statuses
    BY <1>1, StatusSeq
  <2> QED BY <1>1, <2>1, SubSeqProperties
<1> HIDE DEF in
<1>3. Ordered(in, published)
  <2>1. \A i \in 1 .. n : i \in 1 .. Len(inbox) /\ i .. n \subseteq i .. Len(inbox)
    BY <1>1
  <2> QED BY <1>2, <2>1 DEF OrderInv, Ordered
<1>4. \A k, topic : Before(k, topic, inbox, published) => Before(k, topic, in, published)
  BY <1>1, <1>2 DEF Before
<1> QED BY <1>2, <1>3, <1>4 DEF in

\* Statuses are added at the end, which are the newest of their topics.
LEMMA Added ==
  ASSUME NEW in \in Seq(Statuses), NEW pub \in [Topics -> Nat],
         NEW more \in Seq(Statuses), NEW new \in [Topics -> Nat],
         Ordered(in, pub), \A t \in Topics : pub[t] <= new[t],
         \A i \in 1 .. Len(more) : more[i].id = new[more[i].topic]
  PROVE  /\ in \o more \in Seq(Statuses) /\ Ordered(in \o more, new)
         /\ \A k \in Nat, topic \in Topics \cup {NoTopic} :
              Before(k, topic, in, pub) => Before(k, topic, in \o more, new)
<1> DEFINE all == in \o more  n == Len(in)  m == Len(more)
<1>1. /\ n \in Nat /\ m \in Nat
      /\ \A i \in 1 .. n : in[i] \in Statuses
      /\ \A i \in 1 .. m : more[i] \in Statuses
  BY StatusSeq
<1>2. /\ all \in Seq(Statuses) /\ Len(all) = n + m
      /\ \A i \in 1 .. n : all[i] = in[i]
      /\ \A i \in n + 1 .. n + m : all[i] = more[i - n] /\ i - n \in 1 .. m
  BY <1>1, ConcatProperties
<1> HIDE DEF all, n, m
<1>3. ASSUME NEW i \in 1 .. n
      PROVE  /\ all[i].topic \in Topics /\ all[i].id \in Nat
             /\ all[i].id <= pub[all[i].topic] /\ pub[all[i].topic] <= new[all[i].topic]
             /\ \A j \in i .. n : all[j].topic = all[i].topic => all[i].id <= all[j].id
  <2>1. all[i] = in[i] /\ in[i].topic \in Topics /\ in[i].id \in Nat
    BY <1>1, <1>2, StatusFields
  <2>2. /\ in[i].id <= pub[in[i].topic]
        /\ \A j \in i .. n : in[j].topic = in[i].topic => in[i].id <= in[j].id
    BY DEF Ordered, n
  <2>3. \A j \in i .. n : all[j] = in[j]
    BY <1>1, <1>2
  <2> QED BY <2>1, <2>2, <2>3
<1>4. ASSUME NEW i \in n + 1 .. n + m
      PROVE  all[i].topic \in Topics /\ all[i].id = new[all[i].topic]
  <2>1. all[i] = more[i - n] /\ i - n \in 1 .. m
    BY <1>2
  <2> QED BY <1>1, <2>1, StatusFields DEF m
<1>5. Ordered(all, new)
  <2> SUFFICES ASSUME NEW i \in 1 .. n + m
               PROVE  /\ all[i].id <= new[all[i].topic]
                      /\ \A j \in i .. n + m : all[j].topic = all[i].topic => all[i].id <= all[j].id
    BY <1>2 DEF Ordered
  <2>1. CASE i \in 1 .. n
    <3>1. all[i].id <= new[all[i].topic]
      BY <1>3, <2>1
    <3>2. ASSUME NEW j \in i .. n + m, all[j].topic = all[i].topic PROVE all[i].id <= all[j].id
      <4>1. CASE j <= n
        BY <1>3, <2>1, <3>2, <4>1
      <4>2. CASE j > n
        <5>1. j \in n + 1 .. n + m
          BY <1>1, <2>1, <4>2
        <5> QED BY <1>4, <3>1, <3>2, <5>1
      <4> QED BY <1>1, <2>1, <4>1, <4>2
    <3> QED BY <3>1, <3>2
  <2>2. CASE i \in n + 1 .. n + m
    <3>1. all[i].id = new[all[i].topic] /\ all[i].topic \in Topics
      BY <1>4, <2>2
    <3>2. ASSUME NEW j \in i .. n + m, all[j].topic = all[i].topic PROVE all[i].id <= all[j].id
      <4>1. j \in n + 1 .. n + m
        BY <1>1, <2>2
      <4> QED BY <1>4, <3>1, <3>2, <4>1
    <3> QED BY <3>1, <3>2
  <2> QED BY <1>1, <2>1, <2>2
<1>6. ASSUME NEW k \in Nat, NEW topic \in Topics \cup {NoTopic}, Before(k, topic, in, pub)
      PROVE  Before(k, topic, all, new)
  <2>1. topic \in Topics => k <= new[topic]
    BY <1>6 DEF Before
  <2>2. ASSUME NEW i \in 1 .. n + m, all[i].topic = topic PROVE k <= all[i].id
    <3>1. CASE i \in 1 .. n
      BY <1>2, <1>6, <2>2, <3>1 DEF Before, n
    <3>2. CASE i \in n + 1 .. n + m
      BY <1>4, <2>1, <2>2, <3>2
    <3> QED BY <1>1, <3>1, <3>2
  <2> QED BY <1>2, <2>1, <2>2 DEF Before
<1> QED BY <1>2, <1>5, <1>6 DEF all

------------------------------------------------------------------------------
LEMMA InvInit == Init => IInv
<1> SUFFICES ASSUME Init PROVE IInv
  OBVIOUS
<1>1. TypeInv
  BY DEF Init, TypeInv
<1>2. RouteInv /\ OrderInv /\ BehindInv
  BY DEF Init, RouteInv, OrderInv, Ordered, BehindInv
<1> QED BY <1>1, <1>2 DEF IInv

\* A step that changes neither what is on the way nor what is shown.
LEMMA InvSame ==
  ASSUME IInv, UNCHANGED <<config, published, inbox, routes, status>>,
         next' \in [Subscribers -> Nat], pc' = "serve" <=> pc = "serve"
  PROVE  IInv'
<1>1. TypeInv'
  BY DEF IInv, TypeInv, Devices
<1>2. RouteInv' /\ OrderInv' /\ BehindInv'
  BY DEF IInv, RouteInv, OrderInv, Ordered, BehindInv, Before, Devices
<1> QED BY <1>1, <1>2 DEF IInv

\* A step that adds statuses to what is on the way, or takes some from its end.
LEMMA InvInbox ==
  ASSUME IInv, UNCHANGED <<config, routes, status, pc>>, next' \in [Subscribers -> Nat],
         published' \in [Topics -> Nat], inbox' \in Seq(Statuses),
         Ordered(inbox', published'),
         \A k \in Nat, topic \in Topics \cup {NoTopic} :
           Before(k, topic, inbox, published) => Before(k, topic, inbox', published')
  PROVE  IInv'
<1>1. TypeInv' /\ RouteInv' /\ OrderInv'
  BY DEF IInv, TypeInv, RouteInv, OrderInv, Ordered, Devices
<1>2. ASSUME pc = "serve", NEW d \in Devices
      PROVE  Before(status[d], config.statusTopic[d], inbox', published')
  <2>1. config.statusTopic[d] \in Topics \cup {NoTopic}
    BY Configuration DEF IInv, TypeInv
  <2>2. status[d] \in Nat /\ Before(status[d], config.statusTopic[d], inbox, published)
    BY <1>2 DEF IInv, TypeInv, BehindInv
  <2> QED BY <2>1, <2>2
<1>3. BehindInv'
  BY <1>2 DEF BehindInv, Before, Devices
<1> QED BY <1>1, <1>3 DEF IInv

\* What a subscriber subscribes to is the topic of a device, or the wildcard.
LEMMA FilterTopics ==
  ASSUME config \in Configs, NEW p \in Subscribers, next[p] \in Nat, ~Done(p),
         Filters(p)[next[p]] \in Topics
  PROVE  next[p] \in Devices /\ config.statusTopic[next[p]] = Filters(p)[next[p]]
<1> DEFINE topics == config.statusTopic
<1>1. topics \in Seq(Topics \cup {NoTopic}) /\ Devices = 1 .. Len(topics) /\ Len(topics) \in Nat
  BY Configuration
<1>2. CASE Filters(p) = topics
  BY <1>1, <1>2 DEF Done
<1>3. CASE Filters(p) = Append(topics, All)
  <2>1. Len(Filters(p)) = Len(topics) + 1 /\ Filters(p)[Len(topics) + 1] = All
    BY <1>1, <1>3
  <2>2. next[p] \in 1 .. Len(topics)
    BY <1>1, <2>1, SessionAssumption DEF Done
  <2> QED BY <1>1, <1>3, <2>2
<1> QED BY <1>2, <1>3 DEF Filters

\* Every step keeps the invariant, and the statuses that are shown do not go back.
LEMMA InvStep ==
  IInv /\ [Next]_vars => IInv' /\ \A d \in DOMAIN status : status'[d] >= status[d]
<1> SUFFICES ASSUME IInv, [Next]_vars
             PROVE  IInv' /\ \A d \in DOMAIN status : status'[d] >= status[d]
  OBVIOUS
<1>0. /\ config \in Configs /\ published \in [Topics -> Nat]
      /\ inbox \in Seq(Statuses) /\ Len(inbox) \in Nat
      /\ routes \in [Topics -> Nat] /\ next \in [Subscribers -> Nat]
      /\ Ordered(inbox, published)
  BY DEF IInv, TypeInv, OrderInv
<1>d. /\ pc = "serve" => status \in [Devices -> Nat] /\ DOMAIN status = Devices
      /\ pc # "serve" => DOMAIN status = {}
  BY DEF IInv, TypeInv
<1> DEFINE Goal == IInv' /\ \A d \in DOMAIN status : status'[d] >= status[d]
<1>s. ASSUME status' = status PROVE \A d \in DOMAIN status : status'[d] >= status[d]
  BY <1>d, <1>s
<1>1. CASE Outage
  <2>1. inbox' = inbox \/ \E n \in 0 .. Len(inbox) : inbox' = SubSeq(inbox, 1, n)
    BY <1>1 DEF Outage
  <2>2. UNCHANGED <<config, published, routes, next, status, pc>>
    BY <1>1 DEF Outage, start
  <2>3. CASE inbox' = inbox
    BY <1>0, <1>s, <2>2, <2>3, InvSame
  <2>4. ASSUME NEW n \in 0 .. Len(inbox), inbox' = SubSeq(inbox, 1, n) PROVE IInv'
    <3>1. /\ inbox' \in Seq(Statuses) /\ Ordered(inbox', published)
          /\ \A k, topic : Before(k, topic, inbox, published) => Before(k, topic, inbox', published)
      BY <2>4, Prefix DEF IInv
    <3> QED BY <1>0, <2>2, <3>1, InvInbox
  <2> QED BY <1>s, <2>1, <2>2, <2>3, <2>4
<1>2. ASSUME NEW t \in Topics, Publish(t) PROVE Goal
  <2> DEFINE m == [topic |-> t, id |-> published'[t]]
  <2>1. /\ UNCHANGED <<config, routes, next, status, pc>>
        /\ published' = [published EXCEPT ![t] = @ + 1]
        /\ inbox' = Append(inbox, m) \/ inbox' = inbox
    BY <1>2 DEF Publish, start
  <2>2. /\ published' \in [Topics -> Nat] /\ \A u \in Topics : published[u] <= published'[u]
        /\ m \in Statuses /\ m.id = published'[m.topic]
    <3>1. published' \in [Topics -> Nat] /\ published'[t] \in Nat \ {0}
      BY <1>0, <2>1
    <3>2. ASSUME NEW u \in Topics PROVE published[u] <= published'[u]
      BY <1>0, <2>1
    <3>3. m \in Statuses /\ m.id = published'[m.topic]
      BY <3>1, StatusFields
    <3> QED BY <3>1, <3>2, <3>3
  <2> HIDE DEF m
  <2>3. PICK more \in {<<>>, <<m>>} : inbox' = inbox \o more
    <3>1. Append(inbox, m) = inbox \o <<m>>
      BY <1>0, <2>2, AppendIsConcat
    <3>2. inbox = inbox \o <<>>
      BY <1>0, ConcatEmptySeq
    <3> QED BY <2>1, <3>1, <3>2
  <2>4. /\ more \in Seq(Statuses)
        /\ \A i \in 1 .. Len(more) : more[i].id = published'[more[i].topic]
    <3>1. CASE more = <<>>
      BY <3>1, EmptySeq
    <3>2. CASE more = <<m>>
      <4>1. <<m>> \in Seq(Statuses) /\ Len(<<m>>) = 1 /\ <<m>>[1] = m
        BY <2>2
      <4> QED BY <2>2, <3>2, <4>1
    <3> QED BY <2>3, <3>1, <3>2
  <2>5. /\ inbox' \in Seq(Statuses) /\ Ordered(inbox', published')
        /\ \A k \in Nat, topic \in Topics \cup {NoTopic} :
             Before(k, topic, inbox, published) => Before(k, topic, inbox', published')
    BY <1>0, <2>2, <2>3, <2>4, Added
  <2> QED BY <1>0, <1>s, <2>1, <2>2, <2>5, InvInbox
<1>3. ASSUME NEW p \in Subscribers, Granted(p) PROVE Goal
  <2> DEFINE more == Retained(Filters(p)[next[p]])
  <2>1. /\ UNCHANGED <<config, published, routes, status, pc>>
        /\ next' = [next EXCEPT ![p] = @ + 1] /\ inbox' = inbox \o more
    BY <1>3 DEF Granted, Answered, net, start
  <2>2. /\ more \in Seq(Statuses)
        /\ \A i \in 1 .. Len(more) : more[i].id = published[more[i].topic]
    BY <1>0, RetainedStatuses
  <2> HIDE DEF more
  <2>3. \A t \in Topics : published[t] <= published[t]
    BY <1>0
  <2>4. /\ inbox' \in Seq(Statuses) /\ Ordered(inbox', published)
        /\ \A k \in Nat, topic \in Topics \cup {NoTopic} :
             Before(k, topic, inbox, published) => Before(k, topic, inbox', published)
    BY <1>0, <2>1, <2>2, <2>3, Added
  <2>5. next' \in [Subscribers -> Nat]
    BY <1>0, <2>1
  <2> QED BY <1>0, <1>s, <2>1, <2>4, <2>5, InvInbox
<1>4. CASE Restored \/ Reconnect \/ Connect \/ ConnectFails \/ Sleep \/ Idle
  <2>1. /\ UNCHANGED <<config, published, inbox, routes, status>>
        /\ next' = next \/ next' = [next EXCEPT ![conns'] = 1]
        /\ pc' = "serve" <=> pc = "serve"
    BY <1>4 DEF Restored, Reconnect, Connect, Connected, ConnectFails, Sleep, Idle, vars, net,
                client, start
  <2>2. next' \in [Subscribers -> Nat]
    BY <1>0, <2>1
  <2> QED BY <1>s, <2>1, <2>2, InvSame
<1>5. ASSUME NEW p \in Subscribers, Skip(p) \/ NotGranted(p) PROVE Goal
  <2>1. /\ UNCHANGED <<config, published, inbox, routes, status, pc>>
        /\ next' = [next EXCEPT ![p] = @ + 1]
    BY <1>5 DEF Skip, NotGranted, Answered, net, client, start
  <2>2. next' \in [Subscribers -> Nat]
    BY <1>0, <2>1
  <2> QED BY <1>s, <2>1, <2>2, InvSame
<1>6. ASSUME NEW p \in Subscribers, Subscribe(p) PROVE Goal
  <2> DEFINE filter == Filters(p)[next[p]]
  <2>1. /\ UNCHANGED <<config, published, inbox, next, status, pc>> /\ ~Done(p)
        /\ routes' = IF filter \in Topics THEN [routes EXCEPT ![filter] = next[p]] ELSE routes
    BY <1>6 DEF Subscribe, net, start
  <2>2. filter \in Topics => next[p] \in Devices /\ config.statusTopic[next[p]] = filter
    BY <1>0, <2>1, FilterTopics
  <2> HIDE DEF filter
  <2>3. RouteInv'
    BY <1>0, <2>1, <2>2 DEF IInv, RouteInv, Devices
  <2>4. TypeInv' /\ OrderInv' /\ BehindInv'
    BY <1>0, <2>1 DEF IInv, TypeInv, OrderInv, Ordered, BehindInv, Before, Devices
  <2> QED BY <1>s, <2>1, <2>3, <2>4 DEF IInv
<1>7. CASE Initialize
  <2>1. /\ UNCHANGED <<config, published, inbox, routes>> /\ pc = "init" /\ pc' = "serve"
        /\ status' = [d \in Devices |-> 0] /\ next' = [next EXCEPT ![Main] = 1]
    BY <1>7 DEF Initialize, net, client
  <2>2. TypeInv'
    BY <1>0, <2>1 DEF IInv, TypeInv, Devices
  <2>3. RouteInv' /\ OrderInv'
    BY <2>1 DEF IInv, RouteInv, OrderInv, Ordered, Devices
  <2>4. \A d \in Devices : Before(0, config.statusTopic[d], inbox, published)
    <3>1. \A i \in 1 .. Len(inbox) : inbox[i].id \in Nat
      BY <1>0, StatusSeq
    <3> QED BY <1>0, <3>1 DEF Before
  <2>5. BehindInv'
    BY <2>1, <2>4 DEF BehindInv, Before, Devices
  <2> QED BY <1>d, <2>1, <2>2, <2>3, <2>5 DEF IInv
<1>8. CASE HandleStatusUpdate
  <2> DEFINE m == Head(inbox)  device == routes[m.topic]
  <2>1. /\ UNCHANGED <<config, published, routes, next, pc>> /\ inbox # <<>>
        /\ inbox' = Tail(inbox)
        /\ status' = IF device \in DOMAIN status THEN [status EXCEPT ![device] = m.id] ELSE status
    BY <1>8 DEF HandleStatusUpdate, net, start
  <2>2. /\ m = inbox[1] /\ m \in Statuses /\ Len(inbox) \in Nat \ {0}
        /\ inbox' \in Seq(Statuses) /\ Len(inbox') = Len(inbox) - 1
        /\ \A i \in 1 .. Len(inbox) - 1 : inbox'[i] = inbox[i + 1]
    BY <1>0, <2>1
  <2> HIDE DEF m
  <2>3. OrderInv'
    BY <1>0, <2>1, <2>2 DEF OrderInv, Ordered
  <2>4. ASSUME NEW k, NEW topic, Before(k, topic, inbox, published)
        PROVE  Before(k, topic, inbox', published)
    BY <2>2, <2>4 DEF Before
  <2>5. Before(m.id, m.topic, inbox', published)
    <3>1. 1 \in 1 .. Len(inbox)
      BY <2>2
    <3>2. /\ m.id <= published[m.topic]
          /\ \A j \in 1 .. Len(inbox) : inbox[j].topic = m.topic => m.id <= inbox[j].id
      BY <1>0, <2>2, <3>1 DEF Ordered
    <3>3. \A i \in 1 .. Len(inbox') : inbox'[i] = inbox[i + 1] /\ i + 1 \in 1 .. Len(inbox)
      BY <2>2
    <3> QED BY <3>2, <3>3 DEF Before
  <2>6. TypeInv'
    <3>1. IF pc = "serve" THEN status' \in [Devices -> Nat] ELSE status' = <<>>
      <4>1. m.id \in Nat
        BY <2>2, StatusFields
      <4> QED BY <1>d, <2>1, <4>1 DEF IInv, TypeInv
    <3> QED BY <1>0, <2>1, <2>2, <3>1 DEF TypeInv, Devices
  <2>7. RouteInv'
    BY <2>1 DEF IInv, RouteInv, Devices
  <2>8. ASSUME device \in DOMAIN status
        PROVE  /\ pc = "serve" /\ device \in Devices /\ config.statusTopic[device] = m.topic
               /\ status[device] <= m.id
    <3>1. pc = "serve" /\ device \in Devices
      BY <1>d, <2>8
    <3>2. device # 0
      BY <1>0, <3>1, Configuration
    <3>3. config.statusTopic[device] = m.topic
      <4>1. m.topic \in Topics
        BY <2>2, StatusFields
      <4> QED BY <3>2, <4>1 DEF IInv, RouteInv
    <3>4. Before(status[device], m.topic, inbox, published)
      BY <3>1, <3>3 DEF IInv, BehindInv
    <3> QED BY <2>2, <3>1, <3>3, <3>4 DEF Before
  <2> HIDE DEF device
  <2>9. BehindInv'
    <3> SUFFICES ASSUME pc = "serve", NEW d \in Devices
                 PROVE  Before(status'[d], config.statusTopic[d], inbox', published)
      BY <2>1 DEF BehindInv, Before, Devices
    <3>1. CASE status'[d] = status[d]
      BY <2>4, <3>1 DEF IInv, BehindInv
    <3>2. CASE device \in DOMAIN status /\ d = device
      <4>1. status'[d] = m.id /\ config.statusTopic[d] = m.topic
        BY <1>d, <2>1, <2>8, <3>2
      <4> QED BY <2>5, <4>1
    <3> QED BY <1>d, <2>1, <3>1, <3>2
  <2>10. \A d \in DOMAIN status : status'[d] >= status[d]
    BY <1>d, <2>1, <2>2, <2>8
  <2> QED BY <2>3, <2>6, <2>7, <2>9, <2>10 DEF IInv
<1>9. CASE UNCHANGED vars
  BY <1>0, <1>9, <1>s, InvSame DEF vars, net, client, start
<1> QED BY <1>1, <1>2, <1>3, <1>4, <1>5, <1>6, <1>7, <1>8, <1>9
        DEF Next, Environment, Start, Subscribing

\* The inductive invariant, for every configuration: what is on the way is ordered by
\* topic, and no device shows anything newer than what is on the way to it.
THEOREM SessionInvariance == Spec => []IInv
<1>1. IInv /\ [Next]_vars => IInv'
  BY InvStep
<1> QED BY <1>1, InvInit, PTL DEF Spec

\* However main, the handlers of any number of connections, and losses interleave, no
\* device goes back to an older status.
THEOREM StatusesNeverGoBack == Spec => StatusNeverGoesBack
<1> DEFINE A == \A d \in DOMAIN status : status'[d] >= status[d]
<1>1. IInv /\ [Next]_vars => [A]_vars
  BY InvStep
<1>2. Spec => [][A]_vars
  BY <1>1, SessionInvariance, PTL DEF Spec
<1> QED BY <1>2 DEF StatusNeverGoesBack

------------------------------------------------------------------------------
(***************************************************************************)
(* main connects once, before it subscribes; whoever has finished with the *)
(* wildcard while the first connection lasts has subscribed to it.         *)
(***************************************************************************)
WildcardInv ==
  /\ config \in Configs /\ conns \in Nat
  /\ next \in [Subscribers -> Nat] /\ waiting \in [Subscribers -> BOOLEAN]
  /\ (conns = 0) = (pc \in {"connect", "sleep", "failed"}) /\ (conns = 0 => link = "none")
  /\ (next[Main] = 0) = (pc # "serve") /\ (waiting[Main] => next[Main] # 0)
  /\ conns = 1 /\ link = "up" /\ config.wildcard /\ next[Main] > Len(Filters(Main)) => All \in subs

\* The last filter of main is the wildcard.
LEMMA WildcardIsLast ==
  ASSUME config \in Configs, config.wildcard
  PROVE  Len(Filters(Main)) \in Nat \ {0} /\ Filters(Main)[Len(Filters(Main))] = All
<1> DEFINE topics == config.statusTopic
<1>1. topics \in Seq(Topics \cup {NoTopic}) /\ Len(topics) \in Nat
  BY Configuration
<1>2. Filters(Main) = Append(topics, All)
  BY DEF Filters
<1> HIDE DEF topics
<1>3. /\ topics \in Seq(Topics \cup {NoTopic, All})
      /\ Len(Append(topics, All)) = Len(topics) + 1 /\ Append(topics, All)[Len(topics) + 1] = All
  BY <1>1
<1> QED BY <1>1, <1>2, <1>3

\* A step that keeps the subscriptions and the session, and passes no filter of main.
LEMMA WildcardSame ==
  ASSUME WildcardInv, UNCHANGED <<config, conns, subs>>, link' = "up" => link = "up",
         link = "none" => link' = "none", next' \in [Subscribers -> Nat],
         next'[Main] = next[Main], (pc' = "serve") = (pc = "serve"),
         (pc' \in {"connect", "sleep", "failed"}) = (pc \in {"connect", "sleep", "failed"}),
         waiting' \in [Subscribers -> BOOLEAN], waiting'[Main] => waiting[Main] \/ next[Main] # 0
  PROVE  WildcardInv'
BY DEF WildcardInv, Filters

LEMMA WildcardInit == Init => WildcardInv
BY DEF Init, WildcardInv, Subscribers, Main, Handlers

LEMMA WildcardStep == WildcardInv /\ [Next]_vars => WildcardInv'
<1> SUFFICES ASSUME WildcardInv, [Next]_vars PROVE WildcardInv'
  OBVIOUS
<1> USE DEF net, client, start
<1>0. /\ config \in Configs /\ conns \in Nat /\ Main \in Subscribers
      /\ next \in [Subscribers -> Nat] /\ waiting \in [Subscribers -> BOOLEAN]
  BY DEF WildcardInv, Subscribers
<1>1. CASE Environment \/ HandleStatusUpdate \/ Sleep \/ ConnectFails \/ Idle \/ UNCHANGED vars
  <2>1. UNCHANGED <<config, conns, subs, next, waiting>> /\ (link' = link \/ (link = "up" /\ link' = "lost"))
    BY <1>1 DEF Environment, Outage, Restored, Publish, HandleStatusUpdate, Sleep, ConnectFails,
                Idle, vars
  <2>2. pc' = pc \/ (pc \in {"connect", "sleep"} /\ pc' \in {"connect", "sleep", "failed"})
    BY <1>1 DEF Environment, Outage, Restored, Publish, HandleStatusUpdate, Sleep, ConnectFails,
                Idle, vars
  <2> QED BY <1>0, <2>1, <2>2, WildcardSame
<1>2. CASE Connect
  <2>1. /\ pc = "connect" /\ pc' = "init" /\ conns' = conns + 1
        /\ UNCHANGED <<config, waiting>>
        /\ next' = [next EXCEPT ![conns'] = 1]
    BY <1>2 DEF Connect, Connected
  <2>2. conns = 0 /\ next[Main] = 0 /\ next'[Main] = 0
    BY <1>0, <2>1 DEF WildcardInv, Main
  <2>3. next' \in [Subscribers -> Nat]
    BY <1>0, <2>1
  <2>4. Len(Filters(Main)') \in Nat
    BY <1>0, <2>1, Configuration DEF Filters
  <2> QED BY <1>0, <2>1, <2>2, <2>3, <2>4 DEF WildcardInv
<1>3. CASE Reconnect
  <2>1. /\ link = "lost" /\ conns' = conns + 1 /\ UNCHANGED <<config, pc, waiting>>
        /\ next' = [next EXCEPT ![conns'] = 1]
    BY <1>3 DEF Reconnect, Connected
  <2>2. conns # 0 /\ conns' > 1 /\ next'[Main] = next[Main] /\ next' \in [Subscribers -> Nat]
    <3>1. conns # 0
      BY <2>1 DEF WildcardInv
    <3>2. conns' > 1 /\ conns' # Main
      BY <1>0, <2>1, <3>1 DEF Main
    <3> QED BY <1>0, <2>1, <3>1, <3>2
  <2> QED BY <1>0, <2>1, <2>2 DEF WildcardInv
<1>4. CASE Initialize
  <2>1. /\ pc = "init" /\ pc' = "serve" /\ next' = [next EXCEPT ![Main] = 1]
        /\ UNCHANGED <<config, conns, link, subs, waiting>>
    BY <1>4 DEF Initialize
  <2>2. next'[Main] = 1 /\ next' \in [Subscribers -> Nat] /\ Filters(Main)' = Filters(Main)
    BY <1>0, <2>1 DEF Filters
  <2>3. config.wildcard => Len(Filters(Main)) \in Nat \ {0}
    BY <1>0, WildcardIsLast
  <2>4. config.wildcard => Filters(Main) # <<>> /\ ~(1 > Len(Filters(Main)))
    BY <2>3
  <2> QED BY <1>0, <2>1, <2>2, <2>4 DEF WildcardInv
<1>5. ASSUME NEW p \in Subscribers, Subscribing(p) PROVE WildcardInv'
  <2>1. CASE Subscribe(p)
    <3>1. /\ UNCHANGED <<config, conns, subs, link, next, pc>> /\ next[p] # 0
          /\ waiting' = [waiting EXCEPT ![p] = TRUE]
      BY <2>1 DEF Subscribe, Done
    <3>2. waiting' \in [Subscribers -> BOOLEAN] /\ (waiting'[Main] => waiting[Main] \/ next[Main] # 0)
      BY <1>0, <3>1
    <3> QED BY <1>0, <3>1, <3>2, WildcardSame
  <2>2. CASE ~Subscribe(p)
    <3>1. /\ UNCHANGED <<config, conns, link, pc>> /\ next' = [next EXCEPT ![p] = @ + 1]
          /\ waiting' = waiting \/ (waiting[p] /\ waiting' = [waiting EXCEPT ![p] = FALSE])
          /\ (p = Main => next[p] # 0)
          /\ \/ link # "up" /\ subs' = subs
             \/ ~Done(p) /\ Filters(p)[next[p]] = NoTopic /\ subs' = subs
             \/ subs' = subs \cup {Filters(p)[next[p]]}
      BY <1>5, <2>2 DEF Subscribing, Skip, Granted, NotGranted, Answered, Done, WildcardInv
    <3>2. /\ next' \in [Subscribers -> Nat] /\ Filters(Main)' = Filters(Main) /\ subs \subseteq subs'
          /\ next'[Main] = IF p = Main THEN next[Main] + 1 ELSE next[Main]
          /\ waiting' \in [Subscribers -> BOOLEAN] /\ (waiting'[Main] => waiting[Main])
      <4>1. next' \in [Subscribers -> Nat] /\ subs \subseteq subs'
        BY <1>0, <3>1
      <4>2. Filters(Main)' = Filters(Main)
        BY <3>1 DEF Filters
      <4>3. next'[Main] = IF p = Main THEN next[Main] + 1 ELSE next[Main]
        BY <1>0, <3>1
      <4>4. waiting' \in [Subscribers -> BOOLEAN] /\ (waiting'[Main] => waiting[Main])
        BY <1>0, <3>1
      <4> QED BY <4>1, <4>2, <4>3, <4>4
    <3>3. ASSUME config.wildcard, conns = 1, link = "up", next'[Main] > Len(Filters(Main))
          PROVE  All \in subs'
      <4>1. Len(Filters(Main)) \in Nat /\ Filters(Main)[Len(Filters(Main))] = All
        BY <1>0, <3>3, WildcardIsLast
      <4>2. CASE next[Main] > Len(Filters(Main))
        BY <3>2, <3>3, <4>2 DEF WildcardInv
      <4>3. CASE ~(next[Main] > Len(Filters(Main)))
        <5>1. p = Main /\ next[Main] = Len(Filters(Main))
          BY <1>0, <3>2, <3>3, <4>1, <4>3
        <5> QED BY <3>1, <3>3, <4>1, <5>1, SessionAssumption
      <4> QED BY <4>2, <4>3
    <3>4. (next'[Main] = 0) = (next[Main] = 0)
      BY <1>0, <3>1, <3>2
    <3> QED BY <1>0, <3>1, <3>2, <3>3, <3>4 DEF WildcardInv
  <2> QED BY <2>1, <2>2
<1> QED BY <1>1, <1>2, <1>3, <1>4, <1>5 DEF Next, Start

\* While the first connection lasts, the flag -log-all-mqtt keeps what it promises: however
\* main and the handler interleave, a settled session has subscribed to the wildcard.
THEOREM FirstSessionLogsAll == Spec => []LogsAllAtFirst
<1>1. WildcardInv => LogsAllAtFirst
  BY DEF WildcardInv, LogsAllAtFirst, Settled, Done, Subscribers
<1> QED BY <1>1, WildcardInit, WildcardStep, PTL DEF Spec
------------------------------------------------------------------------------
(***************************************************************************)
(* The connections, of which there is one more than outages at most, the   *)
(* subscribers, and the attempts.                                          *)
(***************************************************************************)
ConnInv ==
  /\ reachable \in BOOLEAN /\ outages \in 0 .. MaxOutages
  /\ link \in {"none", "up", "lost"} /\ (link = "none" => conns = 0)
  /\ (link = "up" => conns <= outages + 1) /\ (link = "lost" => conns <= outages)

AttemptInv ==
  /\ pc \in {"connect", "sleep", "failed", "init", "serve"}
  /\ attempts \in Nat /\ attempts <= config.maxRetries
  /\ (pc \in {"connect", "sleep"} /\ config.maxRetries > 0 => attempts < config.maxRetries)

\* The handler of a connection to come has not begun, and whoever waits has asked for
\* something.
SubscriberInv(p) ==
  /\ (p > conns => next[p] = 0) /\ next[p] <= Len(Filters(p)) + 1
  /\ (waiting[p] => next[p] \in 1 .. Len(Filters(p)) /\ Filters(p)[next[p]] # NoTopic)

SubscribeInv ==
  /\ subs \subseteq Topics \cup {All}
  /\ \A p \in Subscribers : SubscriberInv(p)

ControlInv == WildcardInv /\ ConnInv /\ AttemptInv /\ SubscribeInv

\* The filters of a subscriber are those of the devices, and perhaps the wildcard.
LEMMA FilterSeq ==
  ASSUME config \in Configs, NEW p \in Subscribers
  PROVE  /\ Len(Filters(p)) \in Nat
         /\ Len(config.statusTopic) \in Nat
         /\ Len(config.statusTopic) <= Len(Filters(p))
         /\ Len(Filters(p)) <= Len(config.statusTopic) + 1
         /\ \A i \in 1 .. Len(Filters(p)) : Filters(p)[i] \in Topics \cup {NoTopic, All}
         /\ \A d \in Devices : Filters(p)[d] = config.statusTopic[d]
<1> DEFINE topics == config.statusTopic
<1>1. topics \in Seq(Topics \cup {NoTopic}) /\ Devices = 1 .. Len(topics) /\ Len(topics) \in Nat
  BY Configuration
<1>2. \A i \in 1 .. Len(topics) : topics[i] \in Topics \cup {NoTopic, All}
  BY <1>1, Configuration
<1>3. CASE Filters(p) = topics
  BY <1>1, <1>2, <1>3
<1>4. CASE Filters(p) = Append(topics, All)
  <2> HIDE DEF topics
  <2>1. /\ Len(Append(topics, All)) = Len(topics) + 1
        /\ Append(topics, All)[Len(topics) + 1] = All
        /\ \A i \in 1 .. Len(topics) : Append(topics, All)[i] = topics[i]
    BY <1>1
  <2>2. \A i \in 1 .. Len(topics) + 1 : i \in 1 .. Len(topics) \/ i = Len(topics) + 1
    BY <1>1
  <2>3. Len(Filters(p)) = Len(topics) + 1
    BY <1>4, <2>1
  <2>4. \A i \in 1 .. Len(Filters(p)) : Filters(p)[i] \in Topics \cup {NoTopic, All}
    BY <1>2, <1>4, <2>1, <2>2, <2>3
  <2>5. \A d \in Devices : Filters(p)[d] = topics[d]
    BY <1>1, <1>4, <2>1
  <2> QED BY <1>1, <2>3, <2>4, <2>5 DEF topics
<1> QED BY <1>3, <1>4 DEF Filters

LEMMA ConnStep ==
  WildcardInv /\ ConnInv /\ [Next]_vars => ConnInv'
<1> SUFFICES ASSUME WildcardInv, ConnInv, [Next]_vars PROVE ConnInv'
  OBVIOUS
<1> USE DEF net, client, start
<1>0. conns \in Nat /\ outages \in Nat /\ MaxOutages \in Nat
  BY SessionAssumption DEF WildcardInv, ConnInv
<1>1. CASE Outage
  <2>1. /\ outages < MaxOutages /\ outages' = outages + 1 /\ reachable' \in BOOLEAN
        /\ conns' = conns /\ link' = IF link = "up" THEN "lost" ELSE link
    BY <1>1 DEF Outage
  <2> QED BY <1>0, <2>1 DEF ConnInv
<1>2. CASE Connect \/ Reconnect
  <2>1. /\ UNCHANGED <<reachable, outages>> /\ link' = "up" /\ conns' = conns + 1
        /\ link = "lost" \/ pc = "connect"
    BY <1>2 DEF Connect, Reconnect, Connected
  <2>2. conns <= outages
    BY <1>0, <2>1 DEF WildcardInv, ConnInv
  <2> QED BY <1>0, <2>1, <2>2 DEF ConnInv
<1>3. CASE Restored
  <2>1. UNCHANGED <<outages, link, conns>> /\ reachable' = TRUE
    BY <1>3 DEF Restored
  <2> QED BY <2>1 DEF ConnInv
<1>4. ASSUME UNCHANGED <<reachable, outages, link, conns>> PROVE ConnInv'
  BY <1>4 DEF ConnInv
<1> QED
  BY <1>1, <1>2, <1>3, <1>4
    DEF Next, Environment, Publish, Start, ConnectFails, Sleep, Initialize, Subscribing, Skip,
        Subscribe, Granted, NotGranted, Answered, HandleStatusUpdate, Idle, vars

LEMMA AttemptStep ==
  config \in Configs /\ AttemptInv /\ [Next]_vars => AttemptInv'
<1> SUFFICES ASSUME config \in Configs, AttemptInv, [Next]_vars PROVE AttemptInv'
  OBVIOUS
<1> USE DEF net, client, start
<1>0. config.maxRetries \in Nat /\ attempts \in Nat
  BY SessionAssumption DEF AttemptInv
<1>1. CASE ConnectFails
  <2>1. /\ pc = "connect" /\ config' = config
        /\ attempts' = IF config.maxRetries > 0 THEN attempts + 1 ELSE attempts
        /\ pc' = IF config.maxRetries > 0 /\ attempts' >= config.maxRetries THEN "failed" ELSE "sleep"
    BY <1>1 DEF ConnectFails, GivesUp
  <2> QED BY <1>0, <2>1 DEF AttemptInv
<1>2. ASSUME UNCHANGED <<config, attempts>>,
             pc' = pc \/ (pc = "sleep" /\ pc' = "connect") \/ pc' \in {"init", "serve"}
      PROVE  AttemptInv'
  BY <1>2 DEF AttemptInv
<1> QED
  BY <1>1, <1>2
    DEF Next, Environment, Outage, Restored, Publish, Reconnect, Start, Connect, Connected, Sleep,
        Initialize, Subscribing, Skip, Subscribe, Granted, NotGranted, Answered,
        HandleStatusUpdate, Idle, vars

LEMMA SubscribeStep ==
  WildcardInv /\ ConnInv /\ SubscribeInv /\ [Next]_vars => SubscribeInv'
<1> SUFFICES ASSUME WildcardInv, ConnInv, SubscribeInv, [Next]_vars PROVE SubscribeInv'
  OBVIOUS
<1> USE DEF net, client, start
<1>0. /\ config \in Configs /\ conns \in Nat /\ Main \in Subscribers /\ Main = 0
      /\ next \in [Subscribers -> Nat] /\ waiting \in [Subscribers -> BOOLEAN]
      /\ subs \subseteq Topics \cup {All}
      /\ \A p \in Subscribers : p \in Nat /\ Len(Filters(p)) \in Nat
  BY FilterSeq, SessionAssumption DEF WildcardInv, SubscribeInv, Subscribers, Main, Handlers
<1>c. config' = config /\ \A p \in Subscribers : Filters(p)' = Filters(p)
  <2>1. config' = config
    BY DEF Next, Environment, Outage, Restored, Publish, Reconnect, Start, Connect, Connected,
           ConnectFails, Sleep, Initialize, Subscribing, Skip, Subscribe, Granted, NotGranted,
           Answered, HandleStatusUpdate, Idle, vars
  <2> QED BY <2>1 DEF Filters
<1>h. \A p \in Subscribers : SubscriberInv(p)
  BY DEF SubscribeInv
<1>1. ASSUME UNCHANGED <<conns, next, waiting>>, subs' = subs PROVE SubscribeInv'
  BY <1>c, <1>1 DEF SubscribeInv, SubscriberInv
<1>2. CASE Connect \/ Reconnect
  <2>1. /\ subs' = {} /\ conns' = conns + 1 /\ waiting' = waiting
        /\ next' = [next EXCEPT ![conns'] = 1]
    BY <1>2 DEF Connect, Reconnect, Connected
  <2>2. ASSUME NEW p \in Subscribers PROVE SubscriberInv(p)'
    <3>1. CASE p = conns'
      <4>1. next[p] = 0 /\ ~waiting[p] /\ next'[p] = 1
        BY <1>0, <1>h, <2>1, <3>1 DEF SubscriberInv
      <4> QED BY <1>0, <1>c, <2>1, <3>1, <4>1 DEF SubscriberInv
    <3>2. CASE p # conns'
      <4>1. next'[p] = next[p] /\ (p > conns' => p > conns)
        BY <1>0, <2>1, <3>2
      <4> QED BY <1>c, <1>h, <2>1, <4>1 DEF SubscriberInv
    <3> QED BY <3>1, <3>2
  <2> QED BY <2>1, <2>2 DEF SubscribeInv
<1>3. CASE Initialize
  <2>1. /\ pc = "init" /\ UNCHANGED <<conns, waiting, subs>>
        /\ next' = [next EXCEPT ![Main] = 1]
    BY <1>3 DEF Initialize
  <2>2. ASSUME NEW p \in Subscribers PROVE SubscriberInv(p)'
    <3>1. CASE p = Main
      <4>1. next[p] = 0 /\ ~waiting[p] /\ next'[p] = 1
        BY <1>0, <2>1, <3>1 DEF WildcardInv
      <4> QED BY <1>0, <1>c, <2>1, <3>1, <4>1 DEF SubscriberInv
    <3>2. CASE p # Main
      BY <1>0, <1>c, <1>h, <2>1, <3>2 DEF SubscriberInv
    <3> QED BY <3>1, <3>2
  <2> QED BY <1>0, <2>1, <2>2 DEF SubscribeInv
<1>4. ASSUME NEW q \in Subscribers, Subscribe(q) PROVE SubscribeInv'
  <2>1. /\ UNCHANGED <<conns, next, subs>> /\ waiting' = [waiting EXCEPT ![q] = TRUE]
        /\ next[q] # 0 /\ ~(next[q] > Len(Filters(q))) /\ Filters(q)[next[q]] # NoTopic
    BY <1>4 DEF Subscribe, Done
  <2>2. next[q] \in 1 .. Len(Filters(q))
    BY <1>0, <2>1
  <2>3. ASSUME NEW p \in Subscribers PROVE SubscriberInv(p)'
    <3>1. CASE p = q
      BY <1>0, <1>c, <1>h, <2>1, <2>2, <3>1 DEF SubscriberInv
    <3>2. CASE p # q
      BY <1>0, <1>c, <1>h, <2>1, <3>2 DEF SubscriberInv
    <3> QED BY <3>1, <3>2
  <2> QED BY <1>0, <2>1, <2>3 DEF SubscribeInv
<1>5. ASSUME NEW q \in Subscribers, Skip(q) \/ Granted(q) \/ NotGranted(q) PROVE SubscribeInv'
  <2>1. /\ conns' = conns /\ next' = [next EXCEPT ![q] = @ + 1]
        /\ \/ waiting' = waiting /\ ~waiting[q] /\ next[q] # 0 /\ ~(next[q] > Len(Filters(q)))
           \/ waiting' = [waiting EXCEPT ![q] = FALSE] /\ waiting[q]
        /\ subs' = subs \/ (waiting[q] /\ subs' = subs \cup {Filters(q)[next[q]]})
    BY <1>5 DEF Skip, Granted, NotGranted, Answered, Done
  <2>2. next[q] \in 1 .. Len(Filters(q)) /\ ~waiting'[q] /\ next'[q] = next[q] + 1
    <3>1. next[q] \in 1 .. Len(Filters(q))
      BY <1>0, <1>h, <2>1 DEF SubscriberInv
    <3> QED BY <1>0, <2>1, <3>1
  <2>3. ASSUME NEW p \in Subscribers PROVE SubscriberInv(p)'
    <3>1. CASE p = q
      BY <1>0, <1>c, <1>h, <2>1, <2>2, <3>1 DEF SubscriberInv
    <3>2. CASE p # q
      <4>1. next'[p] = next[p] /\ waiting'[p] = waiting[p]
        BY <1>0, <2>1, <3>2
      <4> QED BY <1>0, <1>c, <1>h, <2>1, <4>1 DEF SubscriberInv
    <3> QED BY <3>1, <3>2
  <2>4. subs' \subseteq Topics \cup {All}
    <3>1. waiting[q] => Filters(q)[next[q]] \in Topics \cup {All}
      BY <1>0, <1>h, <2>2, FilterSeq DEF SubscriberInv
    <3> QED BY <1>0, <2>1, <3>1
  <2> QED BY <2>3, <2>4 DEF SubscribeInv
<1> QED
  BY <1>1, <1>2, <1>3, <1>4, <1>5
    DEF Next, Environment, Outage, Restored, Publish, Start, ConnectFails, Sleep, Subscribing,
        HandleStatusUpdate, Idle, vars

LEMMA ControlInit == Init => ControlInv
<1> SUFFICES ASSUME Init PROVE ControlInv
  OBVIOUS
<1>1. config \in Configs /\ config.maxRetries \in Nat
  BY SessionAssumption DEF Init
<1>2. ConnInv
  BY SessionAssumption DEF Init, ConnInv
<1>3. AttemptInv
  BY <1>1 DEF Init, AttemptInv
<1>4. SubscribeInv
  <2>1. \A p \in Subscribers : Len(Filters(p)) \in Nat
    BY <1>1, FilterSeq
  <2> QED BY <2>1 DEF Init, SubscribeInv, SubscriberInv
<1> QED BY <1>2, <1>3, <1>4, WildcardInit DEF ControlInv

\* The control of main and the handlers, with the connections and the attempts.
THEOREM ControlInvariance == Spec => []ControlInv
<1>1. ControlInv /\ [Next]_vars => ControlInv'
  <2>1. WildcardInv => config \in Configs
    BY DEF WildcardInv
  <2> QED BY <2>1, WildcardStep, ConnStep, AttemptStep, SubscribeStep DEF ControlInv
<1> QED BY <1>1, ControlInit, PTL DEF Spec

\* Types: there are never more connections than handlers (one more than outages), nobody
\* subscribes to what is not a topic, and main never tries more often than maxRetries.
THEOREM TypeCorrect == Spec => []TypeOK
<1>1. IInv /\ ControlInv => TypeOK
  <2> SUFFICES ASSUME IInv, ControlInv PROVE TypeOK
    OBVIOUS
  <2>0. /\ config \in Configs /\ Len(config.statusTopic) \in Nat /\ MaxOutages \in Nat
        /\ Devices = 1 .. Len(config.statusTopic) /\ conns \in Nat
    BY Configuration, SessionAssumption DEF IInv, TypeInv, ControlInv, WildcardInv
  <2>1. conns \in 0 .. MaxOutages + 1
    BY <2>0 DEF ControlInv, ConnInv
  <2>2. inbox \in Seq([topic: Topics, id: Nat \ {0}])
    BY DEF IInv, TypeInv, Statuses
  <2>3. routes \in [Topics -> 0 .. Len(config.statusTopic)]
    BY <2>0 DEF IInv, TypeInv, RouteInv
  <2>4. next \in [Subscribers -> 0 .. Len(config.statusTopic) + 2]
    <3>1. next \in [Subscribers -> Nat]
      BY DEF IInv, TypeInv
    <3>2. ASSUME NEW p \in Subscribers PROVE next[p] \in 0 .. Len(config.statusTopic) + 2
      <4>1. /\ Len(Filters(p)) \in Nat /\ Len(Filters(p)) <= Len(config.statusTopic) + 1
            /\ next[p] <= Len(Filters(p)) + 1 /\ next[p] \in Nat
        BY <2>0, <3>1, FilterSeq DEF ControlInv, SubscribeInv, SubscriberInv
      <4> QED BY <2>0, <4>1
    <3> QED BY <3>1, <3>2
  <2>5. status \in {<<>>} \cup [Devices -> Nat]
    BY DEF IInv, TypeInv
  <2> QED
    BY <2>0, <2>1, <2>2, <2>3, <2>4, <2>5
      DEF TypeOK, IInv, TypeInv, ControlInv, ConnInv, AttemptInv, SubscribeInv, WildcardInv
<1> QED BY <1>1, SessionInvariance, ControlInvariance, PTL

------------------------------------------------------------------------------
(***************************************************************************)
(* Why a settled session is current.  While somebody has still to register *)
(* the callback of the last device of a topic, anything may be registered; *)
(* afterwards, it is this one.  While somebody has still to subscribe to   *)
(* the topic, statuses may be lost; afterwards, the latest one is shown or *)
(* on the way.                                                             *)
(***************************************************************************)
ToRegister(p, d) == next[p] \in 1 .. d /\ ~(next[p] = d /\ waiting[p])

Registered(d) ==
  link = "up" /\ (\A p \in Subscribers : ~ToRegister(p, d)) => routes[config.statusTopic[d]] = d

\* The latest status of the topic is shown, or on the way.
Informed(d, topic) ==
  \/ status[d] = published[topic]
  \/ \E i \in 1 .. Len(inbox) : inbox[i] = [topic |-> topic, id |-> published[topic]]

Subscribed(d) ==
  link = "up" /\ pc = "serve" /\ (\A p \in Subscribers : next[p] \notin 1 .. d) =>
    config.statusTopic[d] \in subs /\ Informed(d, config.statusTopic[d])

CurrentInv == \A d \in Devices : LastOfTopic(d) => Registered(d) /\ Subscribed(d)

\* The handler of a new connection, and main when it begins, have everything to do.
LEMMA Beginning ==
  ASSUME ControlInv, [Next]_vars, Connect \/ Reconnect \/ Initialize
  PROVE  \E p \in Subscribers : next'[p] = 1 /\ ~waiting'[p]
<1> USE DEF net, client, start
<1>0. /\ conns \in Nat /\ MaxOutages \in Nat /\ outages \in 0 .. MaxOutages
      /\ next \in [Subscribers -> Nat] /\ waiting \in [Subscribers -> BOOLEAN]
      /\ Main \in Subscribers
      /\ \A n \in 1 .. MaxOutages + 1 : n \in Subscribers
  BY SessionAssumption DEF ControlInv, WildcardInv, ConnInv, Subscribers, Handlers
<1>1. CASE Connect \/ Reconnect
  <2>1. /\ conns' = conns + 1 /\ waiting' = waiting /\ next' = [next EXCEPT ![conns'] = 1]
        /\ link = "lost" \/ pc = "connect"
    BY <1>1 DEF Connect, Reconnect, Connected
  <2>2. conns' \in Subscribers /\ conns' > conns
    BY <1>0, <2>1 DEF ControlInv, WildcardInv, ConnInv
  <2>3. next[conns'] = 0
    BY <2>2 DEF ControlInv, SubscribeInv, SubscriberInv
  <2>4. ~waiting[conns']
    BY <2>2, <2>3 DEF ControlInv, SubscribeInv, SubscriberInv
  <2> QED BY <1>0, <2>1, <2>2, <2>4
<1>2. CASE Initialize
  <2>1. pc = "init" /\ waiting' = waiting /\ next' = [next EXCEPT ![Main] = 1]
    BY <1>2 DEF Initialize
  <2>2. ~waiting[Main]
    BY <2>1 DEF ControlInv, WildcardInv
  <2> QED BY <1>0, <2>1, <2>2
<1> QED BY <1>1, <1>2

\* Whoever leaves a device behind has registered its callback.
LEMMA RegisteredStep ==
  ASSUME IInv, ControlInv, [Next]_vars, NEW d \in Devices, LastOfTopic(d), Registered(d)
  PROVE  Registered(d)'
<1> USE DEF net, client, start
<1> DEFINE t == config.statusTopic[d]
<1>0. /\ config \in Configs /\ d \in Nat \ {0} /\ Devices = 1 .. Len(config.statusTopic)
      /\ next \in [Subscribers -> Nat] /\ waiting \in [Subscribers -> BOOLEAN]
      /\ routes \in [Topics -> Nat] /\ t \in Topics /\ t # NoTopic
      /\ \A p \in Subscribers : Filters(p)[d] = t
  BY Configuration, FilterSeq, SessionAssumption
    DEF IInv, TypeInv, ControlInv, WildcardInv, LastOfTopic
<1>1. CASE Connect \/ Reconnect \/ Initialize
  <2>1. PICK p \in Subscribers : next'[p] = 1 /\ ~waiting'[p]
    BY <1>1, Beginning
  <2> QED BY <1>0, <2>1 DEF Registered, ToRegister
<1>2. ASSUME NEW q \in Subscribers, Skip(q) \/ Granted(q) \/ NotGranted(q) PROVE Registered(d)'
  <2>1. SUFFICES ASSUME link' = "up", \A p \in Subscribers : ~ToRegister(p, d)'
                 PROVE  routes'[t] = d
    BY <1>2 DEF Registered, Skip, Granted, NotGranted, Answered
  <2>2. /\ UNCHANGED <<link, routes>> /\ next' = [next EXCEPT ![q] = @ + 1]
        /\ \/ /\ ~waiting[q] /\ waiting' = waiting /\ next[q] # 0
              /\ Filters(q)[next[q]] = NoTopic
           \/ waiting[q] /\ waiting' = [waiting EXCEPT ![q] = FALSE]
    BY <1>2, <2>1 DEF Skip, Granted, NotGranted, Answered, Done
  <2>3. ~ToRegister(q, d)
    <3>1. next'[q] = next[q] + 1 /\ ~waiting'[q] /\ next[q] \in Nat
      BY <1>0, <2>2
    <3>2. next'[q] \notin 1 .. d
      BY <2>1, <3>1 DEF ToRegister
    <3>3. next[q] = 0 \/ next[q] >= d
      BY <1>0, <3>1, <3>2
    <3>4. next[q] = d => waiting[q]
      BY <1>0, <2>2
    <3> QED BY <1>0, <3>1, <3>3, <3>4 DEF ToRegister
  <2>4. ASSUME NEW p \in Subscribers, p # q PROVE ~ToRegister(p, d)
    <3>1. next'[p] = next[p] /\ waiting'[p] = waiting[p]
      BY <1>0, <2>2, <2>4
    <3> QED BY <2>1, <3>1 DEF ToRegister
  <2> QED BY <2>1, <2>2, <2>3, <2>4 DEF Registered
<1>3. ASSUME NEW q \in Subscribers, Subscribe(q) PROVE Registered(d)'
  <2> DEFINE filter == Filters(q)[next[q]]
  <2>1. SUFFICES ASSUME link' = "up", \A p \in Subscribers : ~ToRegister(p, d)'
                 PROVE  routes'[t] = d
    BY <1>3 DEF Registered, Subscribe
  <2>2. /\ UNCHANGED <<link, next>> /\ waiting' = [waiting EXCEPT ![q] = TRUE] /\ ~Done(q)
        /\ routes' = IF filter \in Topics THEN [routes EXCEPT ![filter] = next[q]] ELSE routes
    BY <1>3 DEF Subscribe
  <2>3. CASE next[q] = d
    BY <1>0, <2>2, <2>3
  <2>4. CASE next[q] # d
    <3>1. next[q] \notin 1 .. d
      BY <2>1, <2>2, <2>4 DEF ToRegister
    <3>2. filter # t
      <4> SUFFICES ASSUME filter = t PROVE FALSE
        OBVIOUS
      <4>1. next[q] \in Devices /\ config.statusTopic[next[q]] = t
        BY <1>0, <2>2, FilterTopics
      <4>2. next[q] <= d
        BY <4>1 DEF LastOfTopic
      <4> QED BY <1>0, <3>1, <4>1, <4>2
    <3>3. \A p \in Subscribers : ~ToRegister(p, d)
      <4>1. \A p \in Subscribers : p # q => next'[p] = next[p] /\ waiting'[p] = waiting[p]
        BY <1>0, <2>2
      <4> QED BY <2>1, <3>1, <4>1 DEF ToRegister
    <3> HIDE DEF filter
    <3>4. routes'[t] = routes[t]
      BY <1>0, <2>2, <3>2
    <3> QED BY <2>1, <2>2, <3>3, <3>4 DEF Registered
  <2> QED BY <2>3, <2>4
<1>4. ASSUME UNCHANGED <<config, routes, next, waiting>>, link' = "up" => link = "up"
      PROVE  Registered(d)'
  BY <1>4 DEF Registered, ToRegister
<1> QED
  BY <1>1, <1>2, <1>3, <1>4
    DEF Next, Environment, Outage, Restored, Publish, Start, ConnectFails, Sleep, Subscribing,
        HandleStatusUpdate, Idle, vars

\* A step that leaves the topic alone, and takes nothing from what is on the way.
LEMMA SubscribedSame ==
  ASSUME NEW d \in Devices, Subscribed(d), inbox \in Seq(Statuses),
         config' = config, link' = "up" => link = "up", pc' = "serve" => pc = "serve",
         \A p \in Subscribers : next'[p] \notin 1 .. d => next[p] \notin 1 .. d,
         subs \subseteq subs', status' = status,
         published'[config.statusTopic[d]] = published[config.statusTopic[d]],
         link' = "up" => inbox' = inbox \/ \E more \in Seq(Statuses) : inbox' = inbox \o more
  PROVE  Subscribed(d)'
<1> DEFINE t == config.statusTopic[d]
<1> SUFFICES ASSUME link' = "up", pc' = "serve", \A p \in Subscribers : next'[p] \notin 1 .. d
             PROVE  t \in subs' /\ Informed(d, t)'
  BY DEF Subscribed, Informed
<1>1. t \in subs /\ Informed(d, t)
  BY DEF Subscribed
<1>2. ASSUME NEW i \in 1 .. Len(inbox) PROVE i \in 1 .. Len(inbox') /\ inbox'[i] = inbox[i]
  <2>1. CASE inbox' = inbox
    BY <2>1
  <2>2. ASSUME NEW more \in Seq(Statuses), inbox' = inbox \o more
        PROVE  i \in 1 .. Len(inbox') /\ inbox'[i] = inbox[i]
    <3>1. Len(inbox) \in Nat /\ Len(more) \in Nat
      BY LenProperties
    <3>2. Len(inbox') = Len(inbox) + Len(more) /\ inbox'[i] = inbox[i]
      BY <2>2, ConcatProperties
    <3> QED BY <3>1, <3>2
  <2> QED BY <2>1, <2>2
<1> QED BY <1>1, <1>2 DEF Informed

\* Whoever leaves a device behind has subscribed to its topic, and what is published from
\* then on arrives; the callback of the device takes it.
LEMMA SubscribedStep ==
  ASSUME IInv, ControlInv, [Next]_vars, NEW d \in Devices, LastOfTopic(d), Registered(d),
         Subscribed(d)
  PROVE  Subscribed(d)'
<1> USE DEF net, client, start
<1> DEFINE t == config.statusTopic[d]
<1>0. /\ config \in Configs /\ d \in Nat \ {0} /\ Devices = 1 .. Len(config.statusTopic)
      /\ next \in [Subscribers -> Nat] /\ waiting \in [Subscribers -> BOOLEAN]
      /\ routes \in [Topics -> Nat] /\ t \in Topics /\ t # NoTopic
      /\ published \in [Topics -> Nat] /\ inbox \in Seq(Statuses) /\ Len(inbox) \in Nat
      /\ \A p \in Subscribers : Filters(p)[d] = t
      /\ pc = "serve" => status \in [Devices -> Nat] /\ status[d] \in Nat /\ status[d] <= published[t]
  BY Configuration, FilterSeq, SessionAssumption
    DEF IInv, TypeInv, ControlInv, WildcardInv, LastOfTopic, BehindInv, Before
<1>1. CASE Connect \/ Reconnect \/ Initialize
  <2>1. PICK p \in Subscribers : next'[p] = 1 /\ ~waiting'[p]
    BY <1>1, Beginning
  <2>2. next'[p] \in 1 .. d
    BY <1>0, <2>1
  <2> QED BY <2>2 DEF Subscribed
<1>2. CASE Outage
  <2>1. /\ UNCHANGED <<config, published, next, subs, status, pc>>
        /\ link' # "up" \/ (link' = link /\ inbox' = inbox)
    BY <1>2 DEF Outage
  <2> QED BY <1>0, <2>1, SubscribedSame
<1>3. ASSUME NEW u \in Topics, Publish(u) PROVE Subscribed(d)'
  <2> DEFINE m == [topic |-> u, id |-> published'[u]]
  <2>1. /\ UNCHANGED <<config, link, next, subs, status, pc>>
        /\ published' = [published EXCEPT ![u] = @ + 1]
        /\ inbox' = IF link = "up" /\ {u, All} \cap subs # {} THEN Append(inbox, m) ELSE inbox
    BY <1>3 DEF Publish
  <2>2. published'[u] = published[u] + 1 /\ published'[u] \in Nat \ {0}
    BY <1>0, <2>1
  <2>3. m \in Statuses
    BY <2>2, StatusFields
  <2> HIDE DEF m
  <2>4. CASE u # t
    <3>1. published'[t] = published[t]
      BY <1>0, <2>1, <2>4
    <3>2. <<m>> \in Seq(Statuses) /\ Append(inbox, m) = inbox \o <<m>>
      BY <1>0, <2>3, AppendIsConcat
    <3>3. inbox' = inbox \/ \E more \in Seq(Statuses) : inbox' = inbox \o more
      BY <2>1, <3>2
    <3> QED BY <1>0, <2>1, <3>1, <3>3, SubscribedSame
  <2>5. CASE u = t
    <3> SUFFICES ASSUME link = "up", pc = "serve", \A p \in Subscribers : next[p] \notin 1 .. d
                 PROVE  t \in subs' /\ Informed(d, t)'
      BY <2>1 DEF Subscribed, Informed
    <3>1. t \in subs
      BY DEF Subscribed
    <3>2. inbox' = Append(inbox, m)
      BY <2>1, <2>5, <3>1
    <3>3. Len(inbox') = Len(inbox) + 1 /\ inbox'[Len(inbox) + 1] = m
      BY <1>0, <2>3, <3>2
    <3>4. Len(inbox) + 1 \in 1 .. Len(inbox') /\ m = [topic |-> t, id |-> published'[t]]
      BY <1>0, <2>5, <3>3 DEF m
    <3>5. \E i \in 1 .. Len(inbox') : inbox'[i] = [topic |-> t, id |-> published'[t]]
      BY <3>3, <3>4
    <3>6. Informed(d, t)'
      BY <2>1, <3>5 DEF Informed
    <3> QED BY <2>1, <3>1, <3>6
  <2> QED BY <2>4, <2>5
<1>4. ASSUME NEW q \in Subscribers, Skip(q) PROVE Subscribed(d)'
  <2>1. /\ UNCHANGED <<config, published, inbox, link, subs, status, pc>> /\ ~Done(q)
        /\ next' = [next EXCEPT ![q] = @ + 1]
        /\ Filters(q)[next[q]] = NoTopic \/ link # "up"
    BY <1>4 DEF Skip
  <2>2. CASE link # "up"
    BY <2>1, <2>2 DEF Subscribed
  <2>3. CASE link = "up"
    <3>1. next[q] # d /\ next[q] # 0 /\ next[q] \in Nat
      BY <1>0, <2>1, <2>3 DEF Done
    <3>2. \A p \in Subscribers : next'[p] \notin 1 .. d => next[p] \notin 1 .. d
      BY <1>0, <2>1, <3>1
    <3> QED BY <1>0, <2>1, <3>2, SubscribedSame
  <2> QED BY <2>2, <2>3
<1>5. ASSUME NEW q \in Subscribers, NotGranted(q) PROVE Subscribed(d)'
  BY <1>5 DEF NotGranted, Answered, Subscribed
<1>6. ASSUME NEW q \in Subscribers, Granted(q) PROVE Subscribed(d)'
  <2> DEFINE filter == Filters(q)[next[q]]  more == Retained(filter)
  <2>1. /\ UNCHANGED <<config, published, link, status, pc>> /\ link = "up" /\ waiting[q]
        /\ next' = [next EXCEPT ![q] = @ + 1]
        /\ subs' = subs \cup {filter} /\ inbox' = inbox \o more
    BY <1>6 DEF Granted, Answered
  <2>2. /\ more \in Seq(Statuses)
        /\ filter \in Topics /\ published[filter] > 0 =>
             \E i \in 1 .. Len(more) : more[i] = [topic |-> filter, id |-> published[filter]]
    BY <1>0, RetainedStatuses
  <2>3. CASE next[q] # d
    <3>1. next[q] # 0 /\ next[q] \in Nat
      BY <1>0, <2>1 DEF ControlInv, SubscribeInv, SubscriberInv
    <3>2. \A p \in Subscribers : next'[p] \notin 1 .. d => next[p] \notin 1 .. d
      BY <1>0, <2>1, <2>3, <3>1
    <3> HIDE DEF more, filter
    <3> QED BY <1>0, <2>1, <2>2, <3>2, SubscribedSame
  <2>4. CASE next[q] = d
    <3>1. filter = t
      BY <1>0, <2>4
    <3> HIDE DEF more, filter
    <3> SUFFICES ASSUME pc = "serve" PROVE Informed(d, t)'
      BY <2>1, <3>1 DEF Subscribed, Informed
    <3>2. CASE published[t] > 0
      <4>1. PICK i \in 1 .. Len(more) : more[i] = [topic |-> t, id |-> published[t]]
        BY <1>0, <2>2, <3>1, <3>2
      <4>2. Len(more) \in Nat /\ Len(inbox') = Len(inbox) + Len(more)
        BY <1>0, <2>1, <2>2, LenProperties, ConcatProperties
      <4>3. Len(inbox) + i \in 1 .. Len(inbox') /\ inbox'[Len(inbox) + i] = more[i]
        <5>1. Len(inbox) + i \in 1 .. Len(inbox') /\ Len(inbox) + i > Len(inbox)
              /\ (Len(inbox) + i) - Len(inbox) = i
          BY <1>0, <4>2
        <5> QED BY <1>0, <2>1, <2>2, <4>2, <5>1, ConcatProperties
      <4> QED BY <2>1, <4>1, <4>3 DEF Informed
    <3>3. CASE ~(published[t] > 0)
      <4>1. published[t] = 0 /\ status[d] = 0
        BY <1>0, <3>3
      <4> QED BY <2>1, <4>1 DEF Informed
    <3> QED BY <3>2, <3>3
  <2> QED BY <2>3, <2>4
<1>7. CASE HandleStatusUpdate
  <2> DEFINE m == Head(inbox)  device == routes[m.topic]
  <2>1. /\ UNCHANGED <<config, published, link, subs, routes, next, pc>> /\ inbox # <<>>
        /\ inbox' = Tail(inbox)
        /\ status' = IF device \in DOMAIN status THEN [status EXCEPT ![device] = m.id] ELSE status
    BY <1>7 DEF HandleStatusUpdate
  <2>2. /\ m = inbox[1] /\ Len(inbox) \in Nat \ {0} /\ Len(inbox') = Len(inbox) - 1
        /\ \A i \in 1 .. Len(inbox) - 1 : inbox'[i] = inbox[i + 1]
    BY <1>0, <2>1
  <2> SUFFICES ASSUME link = "up", pc = "serve", \A p \in Subscribers : next[p] \notin 1 .. d
               PROVE  Informed(d, t)'
    BY <2>1 DEF Subscribed, Informed
  <2>3. t \in subs /\ Informed(d, t)
    BY DEF Subscribed
  <2>4. routes[t] = d
    BY DEF Registered, ToRegister
  <2>5. CASE status[d] = published[t]
    <3>1. status'[d] >= status[d] /\ status'[d] \in Nat /\ status'[d] <= published'[t]
      <4>1. IInv' /\ status'[d] >= status[d]
        BY <1>0, InvStep
      <4>2. d \in Devices' /\ pc' = "serve" /\ config'.statusTopic[d] = t
        BY <1>0, <2>1 DEF Devices
      <4> QED BY <1>0, <4>1, <4>2 DEF IInv, TypeInv, BehindInv, Before
    <3> QED BY <1>0, <2>1, <2>5, <3>1 DEF Informed
  <2>6. ASSUME NEW i \in 1 .. Len(inbox), inbox[i] = [topic |-> t, id |-> published[t]]
        PROVE  Informed(d, t)'
    <3>1. CASE i = 1
      <4>1. m.topic = t /\ m.id = published[t]
        BY <2>2, <2>6, <3>1
      <4> HIDE DEF m
      <4>2. status'[d] = published[t]
        BY <1>0, <2>1, <2>4, <4>1
      <4> QED BY <2>1, <4>2 DEF Informed
    <3>2. CASE i # 1
      <4>1. i - 1 \in 1 .. Len(inbox') /\ inbox'[i - 1] = inbox[i]
        <5>1. i - 1 \in 1 .. Len(inbox) - 1 /\ (i - 1) + 1 = i
          BY <2>2, <3>2
        <5> QED BY <2>2, <5>1
      <4> QED BY <2>1, <2>6, <4>1 DEF Informed
    <3> QED BY <3>1, <3>2
  <2> QED BY <2>3, <2>5, <2>6 DEF Informed
<1>8. ASSUME UNCHANGED <<config, published, inbox, subs, next, status, link>>,
             pc' = "serve" => pc = "serve"
      PROVE  Subscribed(d)'
  BY <1>8 DEF Subscribed, Informed
<1> QED
  BY <1>1, <1>2, <1>3, <1>4, <1>5, <1>6, <1>7, <1>8
    DEF Next, Environment, Restored, Start, ConnectFails, Sleep, Subscribing, Subscribe, Idle, vars

\* Once somebody has gone past the last device of a topic, and nobody is before it any
\* more, its latest status is shown or on the way.
THEOREM CurrentInvariance == Spec => [](IInv /\ ControlInv /\ CurrentInv)
<1>1. Init => CurrentInv
  BY DEF Init, CurrentInv, Registered, Subscribed
<1>2. IInv /\ ControlInv /\ CurrentInv /\ [Next]_vars => CurrentInv'
  <2> SUFFICES ASSUME IInv, ControlInv, CurrentInv, [Next]_vars PROVE CurrentInv'
    OBVIOUS
  <2>1. config' = config
    BY DEF Next, Environment, Outage, Restored, Publish, Reconnect, Start, Connect, Connected,
           ConnectFails, Sleep, Initialize, Subscribing, Skip, Subscribe, Granted, NotGranted,
           Answered, HandleStatusUpdate, Idle, vars
  <2>2. Devices' = Devices /\ \A d \in Devices : LastOfTopic(d)' => LastOfTopic(d)
    BY <2>1 DEF Devices, LastOfTopic
  <2>3. ASSUME NEW d \in Devices, LastOfTopic(d) PROVE Registered(d)' /\ Subscribed(d)'
    BY <2>3, RegisteredStep, SubscribedStep DEF CurrentInv
  <2> QED BY <2>2, <2>3 DEF CurrentInv
<1> QED BY <1>1, <1>2, SessionInvariance, ControlInvariance, PTL DEF Spec

\* Statuses: whatever was dropped before the entries were initialised, lost with a
\* connection, or subscribed by handlers of connections that are gone, a settled session
\* shows the latest status of every device.
THEOREM SettledIsCurrent == Spec => []Current
<1>1. IInv /\ ControlInv /\ CurrentInv => Current
  <2> SUFFICES ASSUME IInv, ControlInv, CurrentInv, Settled, NEW d \in Devices, LastOfTopic(d)
               PROVE  status[d] = published[config.statusTopic[d]]
    BY DEF Current
  <2>1. /\ config \in Configs /\ next \in [Subscribers -> Nat]
        /\ Devices = 1 .. Len(config.statusTopic)
    BY Configuration DEF IInv, TypeInv
  <2>2. ASSUME NEW p \in Subscribers PROVE next[p] \notin 1 .. d
    BY <2>1, FilterSeq DEF Settled, Done
  <2>3. Informed(d, config.statusTopic[d])
    BY <2>2 DEF CurrentInv, Subscribed, Settled
  <2> QED BY <2>3 DEF Informed, Settled
<1> QED BY <1>1, CurrentInvariance, PTL
==============================================================================
