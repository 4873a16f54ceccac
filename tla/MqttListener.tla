---------------------------- MODULE MqttListener ----------------------------
(***************************************************************************)
(* mqtt_listener: a command for each message on <base>/<name> (or, in      *)
(* legacy mode, on <base>), whose result is published.                     *)
(*                                                                         *)
(* The callback runs the command, publishes, and waits for the broker's    *)
(* acknowledgement, while the client holds a few more messages and reads   *)
(* nothing that comes behind them.  What the listener publishes may match  *)
(* its own subscription.  A topic is the sequence of its levels after      *)
(* <base>; the payload of a request is of no consequence.                  *)
(***************************************************************************)
EXTENDS Naturals, Sequences, Functions

CONSTANTS
  CommandSets,   \* the names of the commands in the configuration files, as topics
  Requests,      \* the topics others publish on
  Window,        \* the messages the client holds besides the one in the callback
  MaxRequests,   \* bound: the requests
  MaxOutages     \* bound: how often the connection is lost

ASSUME ListenerAssumption ==
  /\ \A names \in CommandSets : names # {} /\ <<>> \notin names
  /\ Requests \subseteq Seq(STRING)
  /\ Window \in Nat /\ MaxRequests \in Nat /\ MaxOutages \in Nat

Base == <<>>
Handlers == 1 .. MaxOutages + 1    \* the OnConnect handlers, by connection

VARIABLES
  xml,        \* XML mode
  commands,   \* config.Commands, in XML mode
  process,    \* "starting", "running", "fatal" (log.Fatalf) or "stopped"
  link,       \* the connection: "none", "up" or "lost"
  outages,    \* the connections lost so far
  subs,       \* the subscriptions at the broker
  next,       \* the subscription each OnConnect handler is at
  waiting,    \* it waits for its acknowledgement
  requests,   \* the requests so far
  down,       \* packets from the broker: messages and acknowledgements
  pipe,       \* the messages the client holds
  state,      \* the callback: "idle", "running", "reply" or "waiting"
  msg,        \* the message it handles
  out,        \* the reply on the way to the broker
  answered    \* the requests, and echoes, whose reply the broker has

connection == <<process, link, outages>>
subscribing == <<subs, next, waiting>>
callback == <<state, msg>>
vars == <<xml, commands, connection, subscribing, requests, down, pipe, callback, out,
          answered>>

\* echo: how many replies of the listener led from the request to this message.
Message(topic, id, echo) == [kind |-> "message", topic |-> topic, id |-> id, echo |-> echo]
Ack == [kind |-> "ack"]
NoMessage == [kind |-> "none"]

\* The filters "<base>" and "<base>/+".
Filters == IF xml THEN <<"base", "base/+">> ELSE <<"base">>
Done(h) == next[h] = 0 \/ next[h] > Len(Filters)
Matched(topic) == \/ "base" \in subs /\ topic = Base
                  \/ "base/+" \in subs /\ Len(topic) = 1

\* handleMessage: does the message run a command?
Runs(topic) == xml => topic \in commands

\* Mutant: all replies go to <base>/status.
ReplyTopic_Base(topic) == <<"status">>

ReplyTopic(topic) == IF xml THEN Append(topic, "status") ELSE <<"status">>

Init ==
  /\ xml \in BOOLEAN
  /\ commands \in IF xml THEN CommandSets ELSE {{}}
  /\ process = "starting" /\ link = "none" /\ outages = 0
  /\ subs = {} /\ next = [h \in Handlers |-> 0] /\ waiting = [h \in Handlers |-> FALSE]
  /\ requests = 0 /\ down = <<>> /\ pipe = <<>>
  /\ state = "idle" /\ msg = NoMessage /\ out = NoMessage
  /\ answered = {}

Running == process = "running"

------------------------------------------------------------------------------
(***************************************************************************)
(* main, and the connection.                                               *)
(***************************************************************************)
\* A new session, and its OnConnect handler.
Connected ==
  /\ link' = "up" /\ subs' = {}
  /\ next' = [next EXCEPT ![outages + 1] = 1]

\* main connects, once.
Connect ==
  /\ process = "starting"
  /\ \/ process' = "running" /\ Connected
     \/ process' = "fatal" /\ UNCHANGED <<link, subs, next>>
  /\ UNCHANGED <<xml, commands, outages, waiting, requests, down, pipe, callback, out,
                 answered>>

\* The connection is lost, with what is on the way.
Lose ==
  /\ Running /\ link = "up" /\ outages < MaxOutages
  /\ link' = "lost" /\ outages' = outages + 1 /\ down' = <<>>
  /\ UNCHANGED <<xml, commands, process, subscribing, requests, pipe, callback, out,
                 answered>>

\* Mutant: the handler is not run again.
Reconnect_Unhandled ==
  /\ Running /\ link = "lost" /\ pipe = <<>> /\ state = "idle"
  /\ \A h \in Handlers : ~waiting[h]
  /\ link' = "up" /\ subs' = {}
  /\ UNCHANGED <<xml, commands, process, outages, next, waiting, requests, down, pipe,
                 callback, out, answered>>

\* Before it reconnects, the client waits for its callback, and fails subscriptions.
Reconnect ==
  /\ Running /\ link = "lost" /\ pipe = <<>> /\ state = "idle"
  /\ \A h \in Handlers : ~waiting[h]
  /\ Connected
  /\ UNCHANGED <<xml, commands, process, outages, waiting, requests, down, pipe, callback,
                 out, answered>>

\* SIGINT or SIGTERM.
Shutdown ==
  /\ Running /\ process' = "stopped"
  /\ UNCHANGED <<xml, commands, link, outages, subscribing, requests, down, pipe, callback,
                 out, answered>>

------------------------------------------------------------------------------
(***************************************************************************)
(* The OnConnect handler.                                                  *)
(***************************************************************************)
Subscribe(h) ==
  /\ Running /\ ~Done(h) /\ ~waiting[h] /\ link = "up"
  /\ waiting' = [waiting EXCEPT ![h] = TRUE]
  /\ UNCHANGED <<xml, commands, connection, subs, next, requests, down, pipe, callback,
                 out, answered>>

Granted(h) ==
  /\ Running /\ waiting[h] /\ link = "up"
  /\ waiting' = [waiting EXCEPT ![h] = FALSE]
  /\ subs' = subs \cup {Filters[next[h]]}
  /\ next' = [next EXCEPT ![h] = @ + 1]
  /\ UNCHANGED <<xml, commands, connection, requests, down, pipe, callback, out, answered>>

\* A subscription that fails, at once or while it waits, ends the process.
NotGranted(h) ==
  /\ Running /\ ~Done(h) /\ link = "lost"
  /\ process' = "fatal"
  /\ UNCHANGED <<xml, commands, link, outages, subscribing, requests, down, pipe, callback,
                 out, answered>>

------------------------------------------------------------------------------
(***************************************************************************)
(* The broker.                                                             *)
(***************************************************************************)
Request(topic) ==
  /\ Running /\ requests < MaxRequests
  /\ requests' = requests + 1
  /\ down' = IF link = "up" /\ Matched(topic)
               THEN Append(down, Message(topic, requests', 0)) ELSE down
  /\ UNCHANGED <<xml, commands, connection, subscribing, pipe, callback, out, answered>>

\* A reply is acknowledged, and sent to whoever subscribed to its topic.
BrokerReceives ==
  /\ Running /\ link = "up" /\ out # NoMessage
  /\ out' = NoMessage
  /\ answered' = answered \cup {<<out.id, out.echo - 1>>}
  /\ IF Matched(out.topic) THEN \/ down' = down \o <<out, Ack>>
                                \/ down' = down \o <<Ack, out>>
                           ELSE down' = Append(down, Ack)
  /\ UNCHANGED <<xml, commands, connection, subscribing, requests, pipe, callback>>

------------------------------------------------------------------------------
(***************************************************************************)
(* The client and its callback.                                            *)
(***************************************************************************)
ReadMessage ==
  /\ Running /\ down # <<>> /\ Head(down) # Ack
  /\ Len(pipe) < Window
  /\ pipe' = Append(pipe, Head(down)) /\ down' = Tail(down)
  /\ UNCHANGED <<xml, commands, connection, subscribing, requests, callback, out, answered>>

\* token.Wait() returns, and so does handleMessage.
ReadAck ==
  /\ Running /\ down # <<>> /\ Head(down) = Ack
  /\ down' = Tail(down)
  /\ state' = "idle" /\ msg' = NoMessage
  /\ UNCHANGED <<xml, commands, connection, subscribing, requests, pipe, out, answered>>

HandleMessage ==
  /\ Running /\ state = "idle" /\ pipe # <<>>
  /\ msg' = Head(pipe) /\ pipe' = Tail(pipe)
  /\ state' = IF Runs(msg'.topic) THEN "running" ELSE "reply"
  /\ UNCHANGED <<xml, commands, connection, subscribing, requests, down, out, answered>>

\* The command has ended.
Executed ==
  /\ Running /\ state = "running" /\ state' = "reply"
  /\ UNCHANGED <<xml, commands, connection, subscribing, requests, down, pipe, msg, out,
                 answered>>

\* Mutant: the callback does not wait.
PublishReply_NoWait ==
  /\ Running /\ state = "reply" /\ state' = "idle"
  /\ out' = Message(ReplyTopic(msg.topic), msg.id, msg.echo + 1)
  /\ UNCHANGED <<xml, commands, connection, subscribing, requests, down, pipe, msg,
                 answered>>

\* Without a connection the client stores the reply for the next one.
PublishReply ==
  /\ Running /\ state = "reply" /\ state' = "waiting"
  /\ out' = Message(ReplyTopic(msg.topic), msg.id, msg.echo + 1)
  /\ UNCHANGED <<xml, commands, connection, subscribing, requests, down, pipe, msg,
                 answered>>

------------------------------------------------------------------------------
\* The callback waits for an acknowledgement that will not be read: it was lost, or the
\* client cannot read beyond the messages it holds.
Stuck == /\ Running /\ state = "waiting"
         /\ \/ link = "lost"
            \/ Len(pipe) = Window /\ down # <<>> /\ Head(down) # Ack

\* The listener waits for requests.
Listening == /\ Running /\ link = "up" /\ \A h \in Handlers : Done(h)
             /\ down = <<>> /\ pipe = <<>> /\ state = "idle"

Ended == process \in {"fatal", "stopped"}
Idle == (Ended \/ Stuck \/ Listening) /\ UNCHANGED vars

Subscribing(h) == Subscribe(h) \/ Granted(h) \/ NotGranted(h)
Client == ReadMessage \/ ReadAck \/ Reconnect
Callback == HandleMessage \/ Executed \/ PublishReply

Next == \/ Connect \/ Lose \/ Shutdown \/ Client \/ Callback \/ BrokerReceives \/ Idle
        \/ \E h \in Handlers : Subscribing(h)
        \/ \E topic \in Requests : Request(topic)

Spec == Init /\ [][Next]_vars

\* Goroutines run, commands end, the broker answers, and connections are restored.
FairSpec ==
  /\ Spec
  /\ WF_vars(Connect) /\ WF_vars(Client) /\ WF_vars(Callback) /\ WF_vars(BrokerReceives)
  /\ \A h \in Handlers : WF_vars(Subscribing(h))

------------------------------------------------------------------------------
Levels == {"status"} \cup UNION {Range(t) : t \in Requests}
Messages == [kind: {"message"}, topic: Seq(Levels), id: 1 .. MaxRequests, echo: Nat]

TypeOK ==
  /\ xml \in BOOLEAN /\ commands \in CommandSets \cup {{}}
  /\ process \in {"starting", "running", "fatal", "stopped"}
  /\ link \in {"none", "up", "lost"} /\ outages \in 0 .. MaxOutages
  /\ subs \subseteq {"base", "base/+"}
  /\ next \in [Handlers -> 0 .. 3] /\ waiting \in [Handlers -> BOOLEAN]
  /\ requests \in 0 .. MaxRequests
  /\ down \in Seq(Messages \cup {Ack})
  /\ pipe \in Seq(Messages) /\ Len(pipe) <= Window
  /\ state \in {"idle", "running", "reply", "waiting"}
  /\ msg \in Messages \cup {NoMessage} /\ (msg = NoMessage) = (state = "idle")
  /\ out \in Messages \cup {NoMessage} /\ (out # NoMessage => state = "waiting")
  /\ answered \subseteq (1 .. MaxRequests) \X Nat

Received == Range(pipe) \cup ({msg} \ {NoMessage})

(***************************************************************************)
(* The listener may hear its own reply on <base>/status, in XML mode, but  *)
(* that is as far as it goes: it never runs another command because of its *)
(* own replies than one named status, and it never answers itself for ever.*)
(***************************************************************************)
EchoesEnd ==
  \A m \in Received \cup (Range(down) \ {Ack}) :
    m.echo > 0 => xml /\ m.echo = 1 /\ m.topic = <<"status">>

\* Every message that the client holds is answered, although commands, replies and
\* acknowledgements wait for each other, unless the callback is stuck or the process ends.
Answers ==
  \A n \in 1 .. MaxRequests :
    (\E m \in Received : m.id = n /\ m.echo = 0)
      ~> (<<n, 0>> \in answered \/ Stuck \/ Ended)

\* After every loss of the connection the listener subscribes to all its topics again,
\* unless the callback is stuck or the process ends.
Listens == <>[](Ended \/ Stuck \/ subs = Range(Filters))
==============================================================================
