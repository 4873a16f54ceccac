-------------------------- MODULE MqttListenerProofs -------------------------
(***************************************************************************)
(* Proofs about MqttListener, for all commands and requests, every number  *)
(* of messages the client holds, and any number of requests and outages.   *)
(***************************************************************************)
EXTENDS MqttListener, SequenceTheorems, TLAPS

(***************************************************************************)
(* A handler waits for the answer to one of its subscriptions, and in      *)
(* legacy mode there is one only.  While an acknowledgement is on its way, *)
(* it is the only one, and the callback waits for it.                      *)
(***************************************************************************)
SubsInv ==
  /\ \A h \in Handlers : waiting[h] => next[h] \in 1 .. Len(Filters)
  /\ ~xml => "base/+" \notin subs
AckInv ==
  \A i \in 1 .. Len(down) : down[i] = Ack =>
    /\ state = "waiting" /\ out = NoMessage
    /\ \A j \in 1 .. Len(down) : down[j] = Ack => j = i

\* A request, or the echo of a request for the status.
Sound(m) == m.echo = 0 \/ (xml /\ m.echo = 1 /\ m.topic = <<"status">>)
EchoInv ==
  /\ \A i \in 1 .. Len(down) : down[i] # Ack => Sound(down[i])
  /\ \A i \in 1 .. Len(pipe) : Sound(pipe[i])
  /\ msg # NoMessage => Sound(msg)
  /\ out # NoMessage =>
       \E m \in Messages : Sound(m) /\ out = Message(ReplyTopic(m.topic), m.id, m.echo + 1)

IInv == TypeOK /\ SubsInv /\ AckInv /\ EchoInv

------------------------------------------------------------------------------
\* A message is neither an acknowledgement nor no message.
LEMMA Kinds == Ack \notin Messages /\ NoMessage \notin Messages /\ Ack # NoMessage
<1>1. Ack.kind = "ack" /\ NoMessage.kind = "none"
  BY DEF Ack, NoMessage
<1>2. \A m \in Messages : m.kind = "message"
  BY DEF Messages
<1> QED BY <1>1, <1>2

\* Requests and replies are messages.
LEMMA RequestType ==
  ASSUME NEW topic \in Requests, NEW id \in 1 .. MaxRequests
  PROVE  Message(topic, id, 0) \in Messages
<1>1. topic \in Seq(STRING)
  BY ListenerAssumption
<1>2. \A i \in 1 .. Len(topic) : topic[i] \in Range(topic)
  BY <1>1 DEF Range
<1>3. \A i \in 1 .. Len(topic) : topic[i] \in Levels
  BY <1>2 DEF Levels
<1>4. topic \in Seq(Levels)
  BY <1>1, <1>3
<1> QED BY <1>4 DEF Message, Messages

LEMMA ReplyType ==
  ASSUME NEW m \in Messages
  PROVE  /\ Message(ReplyTopic(m.topic), m.id, m.echo + 1) \in Messages
         /\ Message(ReplyTopic(m.topic), m.id, m.echo + 1).echo = m.echo + 1
<1>1. m.topic \in Seq(Levels) /\ m.id \in 1 .. MaxRequests /\ m.echo \in Nat
  BY DEF Messages
<1>2. "status" \in Levels
  BY DEF Levels
<1>3. ReplyTopic(m.topic) \in Seq(Levels)
  BY <1>1, <1>2 DEF ReplyTopic
<1> QED BY <1>1, <1>3 DEF Message, Messages

\* The listener hears a reply of its own only on <base>/status, and only to a request.
LEMMA Echo ==
  ASSUME SubsInv, NEW m \in Messages, Sound(m), Matched(ReplyTopic(m.topic))
  PROVE  Sound(Message(ReplyTopic(m.topic), m.id, m.echo + 1))
<1>1. m.topic \in Seq(Levels) /\ m.echo \in Nat
  BY DEF Messages
<1>2. CASE xml
  <2>1. ReplyTopic(m.topic) = Append(m.topic, "status")
    BY <1>2 DEF ReplyTopic
  <2>2. Len(Append(m.topic, "status")) = Len(m.topic) + 1 /\ Len(m.topic) \in Nat
    <3>1. "status" \in Levels
      BY DEF Levels
    <3> QED BY <1>1, <3>1, LenProperties, AppendProperties
  <2>3. Append(m.topic, "status") # <<>>
    <3>1. "status" \in Levels
      BY DEF Levels
    <3> QED BY <1>1, <3>1, AppendProperties
  <2>4. Len(m.topic) = 0
    BY <2>1, <2>2, <2>3 DEF Matched, Base
  <2>5. m.topic = <<>>
    BY <1>1, <2>4
  <2>6. m.echo = 0
    BY <2>5 DEF Sound
  <2>7. ReplyTopic(m.topic) = <<"status">>
    BY <2>1, <2>5
  <2> QED BY <1>2, <2>6, <2>7 DEF Sound, Message
<1>3. CASE ~xml
  BY <1>3 DEF SubsInv, Matched, ReplyTopic, Base
<1> QED BY <1>2, <1>3

\* There are one or two subscriptions.
LEMMA FilterTypes ==
  /\ Len(Filters) = IF xml THEN 2 ELSE 1
  /\ \A i \in 1 .. Len(Filters) : Filters[i] \in {"base", "base/+"}
  /\ ~xml => \A i \in 1 .. Len(Filters) : Filters[i] = "base"
BY DEF Filters

------------------------------------------------------------------------------
LEMMA InvInit == Init => IInv
<1> SUFFICES ASSUME Init PROVE IInv
  OBVIOUS
<1>1. TypeOK
  BY ListenerAssumption DEF Init, TypeOK, Handlers
<1>2. SubsInv /\ AckInv
  BY DEF Init, SubsInv, AckInv
<1>3. EchoInv
  BY DEF Init, EchoInv
<1> QED BY <1>1, <1>2, <1>3 DEF IInv

\* Every step of main, of the connection, and of the handlers.
LEMMA ConnectionStep ==
  ASSUME IInv,
         \/ Connect \/ Lose \/ Shutdown \/ Reconnect \/ UNCHANGED vars
         \/ \E h \in Handlers : Subscribing(h)
  PROVE  IInv'
<1> USE DEF connection, subscribing, callback
<1>0. /\ TypeOK /\ SubsInv /\ AckInv /\ EchoInv
      /\ MaxOutages \in Nat
  BY ListenerAssumption DEF IInv
<1>1. UNCHANGED <<xml, commands, requests, pipe, state, msg, out, answered>>
      /\ down' \in {down, <<>>}
  BY DEF Connect, Lose, Shutdown, Reconnect, vars, Subscribing, Subscribe, Granted, NotGranted,
         Connected
<1>2. AckInv'
  BY <1>0, <1>1 DEF AckInv
<1>3. EchoInv'
  BY <1>0, <1>1 DEF EchoInv, Sound, ReplyTopic
<1>4. CASE Connect
  <2>1. TypeOK'
    <3>1. /\ process' \in {"running", "fatal"} /\ outages' = outages /\ waiting' = waiting
          /\ \/ link' = "up" /\ subs' = {} /\ next' = [next EXCEPT ![outages + 1] = 1]
             \/ link' = link /\ subs' = subs /\ next' = next
      BY <1>4 DEF Connect, Connected
    <3>2. subs' \subseteq {"base", "base/+"} /\ link' \in {"none", "up", "lost"}
      BY <1>0, <3>1 DEF TypeOK
    <3>3. next' \in [Handlers -> 0 .. 3]
      BY <1>0, <3>1 DEF TypeOK
    <3> QED BY <1>0, <1>1, <1>4, <3>1, <3>2, <3>3 DEF Connect, TypeOK
  <2>2. SubsInv'
    BY <1>0, <1>4, FilterTypes DEF Connect, Connected, SubsInv, TypeOK, Filters
  <2> QED BY <1>2, <1>3, <2>1, <2>2 DEF IInv
<1>5. CASE Lose
  <2>1. TypeOK'
    BY <1>0, <1>5 DEF Lose, TypeOK, Handlers
  <2>2. SubsInv'
    BY <1>0, <1>5 DEF Lose, SubsInv, Filters
  <2> QED BY <1>2, <1>3, <2>1, <2>2 DEF IInv
<1>6. CASE Shutdown \/ UNCHANGED vars
  <2>1. TypeOK'
    BY <1>0, <1>6 DEF Shutdown, vars, TypeOK
  <2>2. SubsInv'
    BY <1>0, <1>6 DEF Shutdown, vars, SubsInv, Filters
  <2> QED BY <1>2, <1>3, <2>1, <2>2 DEF IInv
<1>7. CASE Reconnect
  <2>1. TypeOK'
    BY <1>0, <1>7 DEF Reconnect, Connected, TypeOK, Handlers
  <2>2. SubsInv'
    BY <1>0, <1>7, FilterTypes DEF Reconnect, Connected, SubsInv, TypeOK, Filters
  <2> QED BY <1>2, <1>3, <2>1, <2>2 DEF IInv
<1>8. ASSUME NEW h \in Handlers, Subscribing(h) PROVE IInv'
  <2>1. CASE Subscribe(h)
    <3>1. next[h] \in 1 .. Len(Filters)
      BY <1>0, <2>1, FilterTypes DEF Subscribe, Done, TypeOK
    <3>2. TypeOK'
      BY <1>0, <2>1 DEF Subscribe, TypeOK
    <3>3. SubsInv'
      BY <1>0, <2>1, <3>1 DEF Subscribe, SubsInv, TypeOK, Filters
    <3> QED BY <1>2, <1>3, <3>2, <3>3 DEF IInv
  <2>2. CASE Granted(h)
    <3>1. next[h] \in 1 .. Len(Filters) /\ next[h] \in 0 .. 2
      BY <1>0, <2>2, FilterTypes DEF Granted, SubsInv, TypeOK
    <3>2. Filters[next[h]] \in {"base", "base/+"} /\ (~xml => Filters[next[h]] = "base")
      BY <3>1, FilterTypes
    <3>3. TypeOK'
      <4>1. subs' \subseteq {"base", "base/+"}
        BY <1>0, <2>2, <3>2 DEF Granted, TypeOK
      <4>2. next' \in [Handlers -> 0 .. 3]
        BY <1>0, <2>2, <3>1 DEF Granted, TypeOK
      <4>3. waiting' \in [Handlers -> BOOLEAN]
        BY <1>0, <2>2 DEF Granted, TypeOK
      <4> QED BY <1>0, <2>2, <4>1, <4>2, <4>3 DEF Granted, TypeOK
    <3>4. SubsInv'
      BY <1>0, <2>2, <3>2 DEF Granted, SubsInv, TypeOK, Filters
    <3> QED BY <1>2, <1>3, <3>3, <3>4 DEF IInv
  <2>3. CASE NotGranted(h)
    <3>1. TypeOK'
      BY <1>0, <2>3 DEF NotGranted, TypeOK
    <3>2. SubsInv'
      BY <1>0, <2>3 DEF NotGranted, SubsInv, Filters
    <3> QED BY <1>2, <1>3, <3>1, <3>2 DEF IInv
  <2> QED BY <1>8, <2>1, <2>2, <2>3 DEF Subscribing
<1> QED BY <1>4, <1>5, <1>6, <1>7, <1>8

------------------------------------------------------------------------------
\* What is added to, and taken from, the packets that come from the broker.
LEMMA Packets ==
  ASSUME NEW s \in Seq(Messages \cup {Ack}), NEW m \in Messages
  PROVE  /\ Append(s, m) \in Seq(Messages \cup {Ack}) /\ Append(s, Ack) \in Seq(Messages \cup {Ack})
         /\ \A t \in {<<m, Ack>>, <<Ack, m>>} :
              /\ s \o t \in Seq(Messages \cup {Ack}) /\ Len(s \o t) = Len(s) + 2
              /\ \A i \in 1 .. Len(s) : (s \o t)[i] = s[i]
              /\ \/ (s \o t)[Len(s) + 1] = m /\ (s \o t)[Len(s) + 2] = Ack
                 \/ (s \o t)[Len(s) + 1] = Ack /\ (s \o t)[Len(s) + 2] = m
<1>1. m \in Messages \cup {Ack} /\ Ack \in Messages \cup {Ack} /\ Len(s) \in Nat
  BY LenProperties
<1> HIDE DEF Ack, Messages
<1>2. Append(s, m) \in Seq(Messages \cup {Ack}) /\ Append(s, Ack) \in Seq(Messages \cup {Ack})
  BY <1>1, AppendProperties
<1>3. ASSUME NEW a \in Messages \cup {Ack}, NEW b \in Messages \cup {Ack}
      PROVE  /\ s \o <<a, b>> \in Seq(Messages \cup {Ack}) /\ Len(s \o <<a, b>>) = Len(s) + 2
             /\ \A i \in 1 .. Len(s) : (s \o <<a, b>>)[i] = s[i]
             /\ (s \o <<a, b>>)[Len(s) + 1] = a /\ (s \o <<a, b>>)[Len(s) + 2] = b
  <2>1. /\ <<a, b>> \in Seq(Messages \cup {Ack}) /\ Len(<<a, b>>) = 2
        /\ <<a, b>>[1] = a /\ <<a, b>>[2] = b
    OBVIOUS
  <2> QED BY <1>1, <2>1, ConcatProperties
<1> QED BY <1>1, <1>2, <1>3

\* Steps of the broker, the client and the callback keep SubsInv.
LEMMA SubsSame ==
  ASSUME SubsInv, UNCHANGED <<xml, subs, next, waiting>> PROVE SubsInv'
BY DEF SubsInv, Filters

LEMMA RequestStep ==
  ASSUME IInv, NEW topic \in Requests, Request(topic) PROVE IInv'
<1> USE DEF connection, subscribing, callback
<1> DEFINE m == Message(topic, requests', 0)
<1>0. /\ TypeOK /\ SubsInv /\ AckInv /\ EchoInv /\ MaxRequests \in Nat
      /\ down \in Seq(Messages \cup {Ack}) /\ Len(down) \in Nat
  BY ListenerAssumption DEF IInv, TypeOK
<1>1. /\ requests' = requests + 1 /\ requests' \in 1 .. MaxRequests
      /\ down' = Append(down, m) \/ down' = down
      /\ UNCHANGED <<xml, commands, process, link, outages, subs, next, waiting, pipe, state, msg,
                     out, answered>>
  BY <1>0 DEF Request, TypeOK
<1>2. m \in Messages /\ m # Ack /\ m.echo = 0
  BY <1>1, RequestType, Kinds DEF Message
<1> HIDE DEF m
<1>3. down' \in Seq(Messages \cup {Ack})
  BY <1>0, <1>1, <1>2, Packets
<1>4. /\ Len(down') \in Nat
      /\ \A i \in 1 .. Len(down') : (i <= Len(down) /\ down'[i] = down[i]) \/ down'[i] = m
  BY <1>0, <1>1, <1>2
<1>5. TypeOK'
  BY <1>0, <1>1, <1>3 DEF TypeOK
<1>6. AckInv'
  BY <1>0, <1>1, <1>2, <1>4 DEF AckInv
<1>7. EchoInv'
  BY <1>0, <1>1, <1>2, <1>4 DEF EchoInv, Sound, ReplyTopic
<1> QED BY <1>0, <1>1, <1>5, <1>6, <1>7, SubsSame DEF IInv

LEMMA BrokerStep ==
  ASSUME IInv, BrokerReceives PROVE IInv'
<1> USE DEF connection, subscribing, callback
<1>0. /\ TypeOK /\ SubsInv /\ AckInv /\ EchoInv
      /\ down \in Seq(Messages \cup {Ack}) /\ Len(down) \in Nat /\ out \in Messages
      /\ state = "waiting"
  BY DEF IInv, TypeOK, BrokerReceives
<1>1. /\ out' = NoMessage /\ answered' = answered \cup {<<out.id, out.echo - 1>>}
      /\ UNCHANGED <<xml, commands, process, link, outages, subs, next, waiting, requests, pipe,
                     state, msg>>
      /\ \/ Matched(out.topic) /\ \E t \in {<<out, Ack>>, <<Ack, out>>} : down' = down \o t
         \/ down' = Append(down, Ack)
  BY DEF BrokerReceives
<1>2. PICK m \in Messages : Sound(m) /\ out = Message(ReplyTopic(m.topic), m.id, m.echo + 1)
  BY DEF IInv, EchoInv, BrokerReceives
<1>3. out.id \in 1 .. MaxRequests /\ out.echo - 1 \in Nat
  <2>1. out.id \in 1 .. MaxRequests /\ m.echo \in Nat
    BY <1>0 DEF Messages
  <2>2. out.echo = m.echo + 1
    BY <1>2 DEF Message
  <2> QED BY <2>1, <2>2
<1>4. Matched(out.topic) => Sound(out)
  <2>1. out.topic = ReplyTopic(m.topic)
    BY <1>2 DEF Message
  <2> QED BY <1>0, <1>2, <2>1, Echo
<1>5. \A i \in 1 .. Len(down) : down[i] # Ack
  BY <1>0, Kinds DEF AckInv
<1>6. /\ down' \in Seq(Messages \cup {Ack}) /\ Len(down') \in Nat
      /\ \E k \in 1 .. Len(down') : /\ \A i \in 1 .. Len(down') : down'[i] = Ack => i = k
      /\ \A i \in 1 .. Len(down') : down'[i] # Ack =>
           (i <= Len(down) /\ down'[i] = down[i]) \/ (Matched(out.topic) /\ down'[i] = out)
  <2> DEFINE n == Len(down)
  <2>1. CASE down' = Append(down, Ack)
    <3>1. /\ down' \in Seq(Messages \cup {Ack}) /\ Len(down') = n + 1
          /\ \A i \in 1 .. n : down'[i] = down[i]
          /\ down'[n + 1] = Ack
      BY <1>0, <2>1, Packets, AppendProperties
    <3>2. ASSUME NEW i \in 1 .. Len(down'), i # n + 1 PROVE i \in 1 .. n
      BY <1>0, <3>1, <3>2
    <3>3. n + 1 \in 1 .. Len(down')
      BY <1>0, <3>1
    <3>4. \A i \in 1 .. Len(down') : down'[i] = Ack => i = n + 1
      BY <1>5, <3>1, <3>2
    <3>5. \A i \in 1 .. Len(down') : down'[i] # Ack => i <= n /\ down'[i] = down[i]
      BY <1>0, <3>1, <3>2
    <3> QED BY <1>0, <3>1, <3>3, <3>4, <3>5
  <2>2. ASSUME Matched(out.topic), NEW t \in {<<out, Ack>>, <<Ack, out>>}, down' = down \o t
        PROVE  \E k \in {1, 2} :
                 /\ down' \in Seq(Messages \cup {Ack}) /\ Len(down') = n + 2
                 /\ \A i \in 1 .. n : down'[i] = down[i]
                 /\ down'[n + k] = Ack /\ down'[n + 3 - k] = out
    <3>1. /\ down \o t \in Seq(Messages \cup {Ack}) /\ Len(down \o t) = n + 2
          /\ \A i \in 1 .. n : (down \o t)[i] = down[i]
          /\ \/ (down \o t)[n + 1] = out /\ (down \o t)[n + 2] = Ack
             \/ (down \o t)[n + 1] = Ack /\ (down \o t)[n + 2] = out
      BY <1>0, Packets
    <3>2. CASE down'[n + 1] = out /\ down'[n + 2] = Ack
      <4>1. n + 3 - 2 = n + 1
        BY <1>0
      <4> WITNESS 2 \in {1, 2}
      <4> QED BY <2>2, <3>1, <3>2, <4>1
    <3>3. CASE down'[n + 1] = Ack /\ down'[n + 2] = out
      <4>1. n + 3 - 1 = n + 2
        BY <1>0
      <4> WITNESS 1 \in {1, 2}
      <4> QED BY <2>2, <3>1, <3>3, <4>1
    <3> QED BY <2>2, <3>1, <3>2, <3>3
  <2>3. ASSUME Matched(out.topic), NEW k \in {1, 2},
               down' \in Seq(Messages \cup {Ack}), Len(down') = n + 2,
               \A i \in 1 .. n : down'[i] = down[i],
               down'[n + k] = Ack, down'[n + 3 - k] = out
        PROVE  /\ n + k \in 1 .. Len(down')
               /\ \A i \in 1 .. Len(down') : down'[i] = Ack => i = n + k
               /\ \A i \in 1 .. Len(down') : down'[i] # Ack =>
                    (i <= n /\ down'[i] = down[i]) \/ down'[i] = out
    <3>1. out # Ack
      BY <1>0, Kinds
    <3>2. \A i \in 1 .. Len(down') : i \in 1 .. n \/ i = n + k \/ i = n + 3 - k
      BY <1>0, <2>3
    <3>3. n + k \in 1 .. Len(down')
      BY <1>0, <2>3
    <3>4. \A i \in 1 .. n : i <= n
      BY <1>0
    <3> QED BY <1>5, <2>3, <3>1, <3>2, <3>3, <3>4
  <2> HIDE DEF n
  <2>4. CASE \E t \in {<<out, Ack>>, <<Ack, out>>} : Matched(out.topic) /\ down' = down \o t
    <3>1. PICK k \in {1, 2} :
                 /\ down' \in Seq(Messages \cup {Ack}) /\ Len(down') = n + 2
                 /\ \A i \in 1 .. n : down'[i] = down[i]
                 /\ down'[n + k] = Ack /\ down'[n + 3 - k] = out
      BY <2>2, <2>4
    <3>2. /\ n + k \in 1 .. Len(down')
          /\ \A i \in 1 .. Len(down') : down'[i] = Ack => i = n + k
          /\ \A i \in 1 .. Len(down') : down'[i] # Ack =>
               (i <= n /\ down'[i] = down[i]) \/ down'[i] = out
      BY <2>3, <2>4, <3>1
    <3>3. Len(down') \in Nat
      BY <3>1, LenProperties
    <3> QED BY <2>4, <3>1, <3>2, <3>3 DEF n
  <2> QED BY <1>1, <2>1, <2>4
<1>7. TypeOK'
  BY <1>0, <1>1, <1>3, <1>6 DEF TypeOK
<1>8. AckInv'
  BY <1>0, <1>1, <1>6 DEF AckInv
<1>9. EchoInv'
  <2>1. \A i \in 1 .. Len(down') : down'[i] # Ack => Sound(down'[i])
    BY <1>0, <1>4, <1>6 DEF EchoInv
  <2> QED BY <1>0, <1>1, <2>1 DEF EchoInv, Sound
<1> QED BY <1>0, <1>1, <1>7, <1>8, <1>9, SubsSame DEF IInv

LEMMA ReadStep ==
  ASSUME IInv, ReadMessage \/ ReadAck PROVE IInv'
<1> USE DEF connection, subscribing, callback
<1>0. /\ TypeOK /\ SubsInv /\ AckInv /\ EchoInv
      /\ down \in Seq(Messages \cup {Ack}) /\ Len(down) \in Nat \ {0}
      /\ Head(down) = down[1] /\ down' = Tail(down)
      /\ pipe \in Seq(Messages) /\ Window \in Nat
  BY ListenerAssumption DEF IInv, TypeOK, ReadMessage, ReadAck
<1>1. /\ down' \in Seq(Messages \cup {Ack}) /\ Len(down') = Len(down) - 1
      /\ \A i \in 1 .. Len(down) - 1 : down'[i] = down[i + 1]
  BY <1>0
<1>2. CASE ReadMessage
  <2>1. /\ down[1] # Ack /\ Len(pipe) < Window /\ pipe' = Append(pipe, down[1])
        /\ UNCHANGED <<xml, commands, process, link, outages, subs, next, waiting, requests, state,
                       msg, out, answered>>
    BY <1>0, <1>2 DEF ReadMessage
  <2>2. down[1] \in Messages /\ Sound(down[1])
    BY <1>0, <2>1 DEF EchoInv
  <2>3. /\ pipe' \in Seq(Messages) /\ Len(pipe') <= Window
        /\ \A i \in 1 .. Len(pipe') : (i <= Len(pipe) /\ pipe'[i] = pipe[i]) \/ pipe'[i] = down[1]
    BY <1>0, <2>1, <2>2
  <2>4. TypeOK'
    BY <1>0, <1>1, <2>1, <2>3 DEF TypeOK
  <2>5. AckInv'
    BY <1>0, <1>1, <2>1 DEF AckInv
  <2>6. EchoInv'
    <3>1. \A i \in 1 .. Len(down') : down'[i] # Ack => Sound(down'[i])
      BY <1>0, <1>1 DEF EchoInv
    <3>2. \A i \in 1 .. Len(pipe') : Sound(pipe'[i])
      BY <1>0, <2>2, <2>3 DEF EchoInv
    <3> QED BY <1>0, <2>1, <3>1, <3>2 DEF EchoInv, Sound, ReplyTopic
  <2> QED BY <1>0, <2>1, <2>4, <2>5, <2>6, SubsSame DEF IInv
<1>3. CASE ReadAck
  <2>1. /\ down[1] = Ack /\ state' = "idle" /\ msg' = NoMessage
        /\ UNCHANGED <<xml, commands, process, link, outages, subs, next, waiting, requests, pipe,
                       out, answered>>
    BY <1>0, <1>3 DEF ReadAck
  <2>2. out = NoMessage /\ \A i \in 1 .. Len(down) : down[i] = Ack => i = 1
    BY <1>0, <2>1 DEF AckInv
  <2>3. TypeOK'
    BY <1>0, <1>1, <2>1, <2>2 DEF TypeOK
  <2>4. AckInv'
    BY <1>0, <1>1, <2>2 DEF AckInv
  <2>5. EchoInv'
    <3>1. \A i \in 1 .. Len(down') : down'[i] # Ack => Sound(down'[i])
      BY <1>0, <1>1 DEF EchoInv
    <3> QED BY <1>0, <2>1, <2>2, <3>1 DEF EchoInv, Sound
  <2> QED BY <1>0, <2>1, <2>3, <2>4, <2>5, SubsSame DEF IInv
<1> QED BY <1>2, <1>3

LEMMA CallbackStep ==
  ASSUME IInv, Callback PROVE IInv'
<1> USE DEF connection, subscribing, callback
<1>0. /\ TypeOK /\ SubsInv /\ AckInv /\ EchoInv
      /\ down \in Seq(Messages \cup {Ack}) /\ pipe \in Seq(Messages)
      /\ state \in {"idle", "running", "reply", "waiting"} /\ state # "waiting"
  BY DEF IInv, TypeOK, Callback, HandleMessage, Executed, PublishReply
<1>1. /\ \A i \in 1 .. Len(down) : down[i] # Ack
      /\ out = NoMessage
  BY <1>0 DEF AckInv, TypeOK
<1>2. UNCHANGED <<xml, commands, process, link, outages, subs, next, waiting, requests, down, answered>>
  BY DEF Callback, HandleMessage, Executed, PublishReply
<1>3. AckInv'
  BY <1>1, <1>2 DEF AckInv
<1>4. CASE HandleMessage
  <2>1. /\ pipe # <<>> /\ msg' = Head(pipe) /\ pipe' = Tail(pipe) /\ out' = out
        /\ state' \in {"running", "reply"}
    BY <1>4 DEF HandleMessage
  <2>2. /\ Head(pipe) = pipe[1] /\ pipe[1] \in Messages /\ Len(pipe) \in Nat \ {0}
        /\ pipe' \in Seq(Messages) /\ Len(pipe') = Len(pipe) - 1
        /\ \A i \in 1 .. Len(pipe) - 1 : pipe'[i] = pipe[i + 1]
    BY <1>0, <2>1
  <2>3. TypeOK'
    BY <1>0, <1>1, <1>2, <2>1, <2>2, Kinds, ListenerAssumption DEF TypeOK
  <2>4. EchoInv'
    <3>1. \A i \in 1 .. Len(pipe') : Sound(pipe'[i])
      BY <1>0, <2>2 DEF EchoInv
    <3> QED BY <1>0, <1>1, <1>2, <2>1, <2>2, <3>1 DEF EchoInv, Sound
  <2> QED BY <1>0, <1>2, <1>3, <2>3, <2>4, SubsSame DEF IInv
<1>5. CASE Executed
  <2>1. /\ state = "running" /\ state' = "reply" /\ UNCHANGED <<pipe, msg, out>>
    BY <1>5 DEF Executed
  <2>2. TypeOK'
    BY <1>0, <1>1, <1>2, <2>1 DEF TypeOK
  <2>3. EchoInv'
    BY <1>0, <1>1, <1>2, <2>1 DEF EchoInv, Sound
  <2> QED BY <1>0, <1>2, <1>3, <2>2, <2>3, SubsSame DEF IInv
<1>6. CASE PublishReply
  <2>1. /\ state = "reply" /\ state' = "waiting" /\ UNCHANGED <<pipe, msg>>
        /\ out' = Message(ReplyTopic(msg.topic), msg.id, msg.echo + 1)
    BY <1>6 DEF PublishReply
  <2>2. msg \in Messages /\ Sound(msg)
    BY <1>0, <2>1 DEF TypeOK, EchoInv
  <2>3. out' \in Messages
    BY <2>1, <2>2, ReplyType
  <2>4. TypeOK'
    BY <1>0, <1>2, <2>1, <2>3 DEF TypeOK
  <2>5. EchoInv'
    BY <1>0, <1>2, <2>1, <2>2 DEF EchoInv, Sound, ReplyTopic
  <2> QED BY <1>0, <1>2, <1>3, <2>4, <2>5, SubsSame DEF IInv
<1> QED BY <1>4, <1>5, <1>6 DEF Callback

\* Every step keeps the invariant.
LEMMA InvStep == IInv /\ [Next]_vars => IInv'
BY ConnectionStep, RequestStep, BrokerStep, ReadStep, CallbackStep DEF Next, Client, Idle

------------------------------------------------------------------------------
\* The inductive invariant, for every configuration and any number of requests.
THEOREM ListenerInvariance == Spec => []IInv
BY InvInit, InvStep, PTL DEF Spec

\* Type correctness of the listener: the client never holds more than its window, and a
\* reply is on its way only while the callback waits.
THEOREM ListenerTypes == Spec => []TypeOK
<1>1. IInv => TypeOK
  BY DEF IInv
<1> QED BY <1>1, ListenerInvariance, PTL

\* The listener never answers its own answers for ever: an echo is one of a request for
\* the status, whatever the commands are.
THEOREM EchoesAlwaysEnd == Spec => []EchoesEnd
<1>1. ASSUME IInv PROVE EchoesEnd
  <2>1. /\ down \in Seq(Messages \cup {Ack}) /\ pipe \in Seq(Messages)
        /\ msg \in Messages \cup {NoMessage} /\ EchoInv
    BY <1>1 DEF IInv, TypeOK
  <2>2. \A m \in Range(down) \ {Ack} : Sound(m)
    BY <2>1 DEF Range, EchoInv
  <2>3. \A m \in Received : Sound(m)
    BY <2>1 DEF Range, EchoInv, Received
  <2> QED BY <2>2, <2>3 DEF EchoesEnd, Sound
<1> QED BY <1>1, ListenerInvariance, PTL
==============================================================================
