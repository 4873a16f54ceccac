----------------------------- MODULE MqttSession -----------------------------
(***************************************************************************)
(* home-automation-server as a client of the broker: connecting with       *)
(* retries, initialising the device statuses, subscribing, and being       *)
(* reconnected.                                                            *)
(*                                                                         *)
(* main and the OnConnect handlers, one goroutine for each connection,     *)
(* subscribe to the same topics.  A subscription replaces the callback     *)
(* that the client has for its topic, and makes the broker send the status *)
(* it retains.  Connections are lost, with what is on the way; the client  *)
(* reconnects, to a broker that has forgotten its subscriptions.           *)
(*                                                                         *)
(* Statuses are numbered by their publication.  What happens to a status   *)
(* once its callback runs is module StatusHub's.                           *)
(***************************************************************************)
EXTENDS Naturals, Sequences, SequencesExt, Functions

CONSTANTS
  Topics,        \* the status topics
  NoTopic,       \* the statusTopic of a device that has none
  Configs,       \* configurations: statusTopic of each device, maxRetries, wildcard
  MaxPublished,  \* bound: the publications
  MaxOutages     \* bound: how often the network fails

All == "#"
Main == 0
Handlers == 1 .. MaxOutages + 1   \* the OnConnect handlers, by connection
Subscribers == {Main} \cup Handlers

ASSUME SessionAssumption ==
  /\ IsFiniteSet(Topics) /\ NoTopic \notin Topics /\ All \notin Topics \cup {NoTopic}
  /\ MaxPublished \in Nat /\ MaxOutages \in Nat
  /\ Configs \subseteq [statusTopic: Seq(Topics \cup {NoTopic}), maxRetries: Nat,
                        wildcard: BOOLEAN]

VARIABLES
  config,     \* what loadConfig has read, and the flag -log-all-mqtt
  reachable,  \* the broker accepts connections
  outages,    \* the outages so far
  published,  \* the latest status on each topic, which the broker retains
  subs,       \* the subscriptions of this session at the broker
  link,       \* the connection: "none", "up" or "lost"
  conns,      \* the connections so far
  inbox,      \* publications on the way to the callbacks
  routes,     \* the device whose callback the client has for a topic; 0: none
  pc,         \* where main is
  attempts,   \* retryCount
  next,       \* the device each subscriber is at; past the last one: it has finished
  waiting,    \* it waits for the acknowledgement of a subscription
  status      \* deviceStatus

net == <<reachable, outages, published>>
client == <<subs, link, conns, inbox, routes>>
start == <<pc, attempts>>
vars == <<config, net, client, start, next, waiting, status>>

Devices == 1 .. Len(config.statusTopic)

\* What a subscriber subscribes to, in order; only main knows the wildcard.
Filters(p) == IF p = Main /\ config.wildcard THEN Append(config.statusTopic, All)
                                             ELSE config.statusTopic

\* Mutant: the last filter is left out.
Done_Early(p) == next[p] = 0 \/ next[p] >= Len(Filters(p))

Done(p) == next[p] = 0 \/ next[p] > Len(Filters(p))

Init ==
  /\ config \in Configs
  /\ reachable \in BOOLEAN /\ outages = 0
  /\ published = [t \in Topics |-> 0]
  /\ subs = {} /\ link = "none" /\ conns = 0 /\ inbox = <<>>
  /\ routes = [t \in Topics |-> 0]
  /\ pc = "connect" /\ attempts = 0
  /\ next = [p \in Subscribers |-> 0]
  /\ waiting = [p \in Subscribers |-> FALSE]
  /\ status = <<>>

------------------------------------------------------------------------------
(***************************************************************************)
(* The network, the broker and the devices.                                *)
(***************************************************************************)
\* The network fails, for a moment or for longer; of what was on the way only a
\* part arrives.
Outage ==
  /\ outages < MaxOutages
  /\ outages' = outages + 1
  /\ reachable' \in BOOLEAN
  /\ IF link = "up" THEN /\ link' = "lost"
                         /\ \E n \in 0 .. Len(inbox) : inbox' = SubSeq(inbox, 1, n)
                    ELSE UNCHANGED <<link, inbox>>
  /\ UNCHANGED <<config, published, subs, conns, routes, start, next, waiting, status>>

Restored ==
  /\ ~reachable /\ reachable' = TRUE
  /\ UNCHANGED <<config, outages, published, client, start, next, waiting, status>>

\* A device publishes its status, retained.
Publish(t) ==
  /\ FoldFunctionOnSet(+, 0, published, Topics) < MaxPublished
  /\ published' = [published EXCEPT ![t] = @ + 1]
  /\ inbox' = IF link = "up" /\ {t, All} \cap subs # {}
                THEN Append(inbox, [topic |-> t, id |-> published'[t]]) ELSE inbox
  /\ UNCHANGED <<config, reachable, outages, subs, link, conns, routes, start, next,
                 waiting, status>>

\* What the broker sends when it grants a subscription.
Retained(filter) ==
  LET ts == {t \in Topics : filter \in {t, All} /\ published[t] > 0}
  IN [i \in 1 .. Len(SetToSeq(ts)) |->
        [topic |-> SetToSeq(ts)[i], id |-> published[SetToSeq(ts)[i]]]]

\* A new session, and its OnConnect handler.
Connected ==
  /\ reachable
  /\ link' = "up" /\ subs' = {} /\ conns' = conns + 1
  /\ next' = [next EXCEPT ![conns'] = 1]

\* Mutant: the statuses are initialised with every connection.
Reconnect_Initializes ==
  /\ link = "lost" /\ inbox = <<>> /\ \A p \in Subscribers : ~waiting[p]
  /\ Connected
  /\ status' = [d \in Devices |-> 0]
  /\ UNCHANGED <<config, net, inbox, routes, start, waiting>>

\* The client stops its goroutines, fails the subscriptions it waits for, and reconnects.
Reconnect ==
  /\ link = "lost" /\ inbox = <<>> /\ \A p \in Subscribers : ~waiting[p]
  /\ Connected
  /\ UNCHANGED <<config, net, inbox, routes, start, waiting, status>>

------------------------------------------------------------------------------
(***************************************************************************)
(* main: connectMQTTWithRetry and initializeDeviceStatus.                  *)
(***************************************************************************)
Connect ==
  /\ pc = "connect"
  /\ Connected
  /\ pc' = "init"
  /\ UNCHANGED <<config, net, inbox, routes, attempts, waiting, status>>

\* Mutant: one attempt too many.
GivesUp_Late(n) == config.maxRetries > 0 /\ n > config.maxRetries

\* Mutant: 0 is not infinite.
GivesUp_AtZero(n) == n >= config.maxRetries

GivesUp(n) == config.maxRetries > 0 /\ n >= config.maxRetries

\* Mutant: the attempts are not counted.
ConnectFails_Uncounted ==
  /\ pc = "connect" /\ ~reachable
  /\ pc' = IF GivesUp(attempts) THEN "failed" ELSE "sleep"
  /\ UNCHANGED <<config, net, client, attempts, next, waiting, status>>

\* Without a limit, the attempts need not be counted.
ConnectFails ==
  /\ pc = "connect" /\ ~reachable
  /\ attempts' = IF config.maxRetries > 0 THEN attempts + 1 ELSE attempts
  /\ pc' = IF GivesUp(attempts') THEN "failed" ELSE "sleep"
  /\ UNCHANGED <<config, net, client, next, waiting, status>>

Sleep ==
  /\ pc = "sleep" /\ pc' = "connect"
  /\ UNCHANGED <<config, net, client, attempts, next, waiting, status>>

\* Mutant: main does not subscribe once more.
Initialize_Only ==
  /\ pc = "init" /\ pc' = "serve"
  /\ status' = [d \in Devices |-> 0]
  /\ next' = [next EXCEPT ![Main] = Len(config.statusTopic) + 1]
  /\ UNCHANGED <<config, net, client, attempts, waiting>>

Initialize ==
  /\ pc = "init" /\ pc' = "serve"
  /\ status' = [d \in Devices |-> 0]
  /\ next' = [next EXCEPT ![Main] = 1]
  /\ UNCHANGED <<config, net, client, attempts, waiting>>

------------------------------------------------------------------------------
(***************************************************************************)
(* subscribeToStatusTopics and subscribeToAllMessages, in main and in the  *)
(* OnConnect handlers.                                                     *)
(***************************************************************************)
\* A device without a topic is skipped, and so is one whose subscription fails at once.
Skip(p) ==
  /\ ~Done(p) /\ ~waiting[p]
  /\ Filters(p)[next[p]] = NoTopic \/ link # "up"
  /\ next' = [next EXCEPT ![p] = @ + 1]
  /\ UNCHANGED <<config, net, client, start, waiting, status>>

\* Subscribe: the callback is registered, and the request sent.
Subscribe(p) ==
  /\ ~Done(p) /\ ~waiting[p] /\ link = "up"
  /\ LET filter == Filters(p)[next[p]] IN
       /\ filter # NoTopic
       /\ routes' = IF filter \in Topics THEN [routes EXCEPT ![filter] = next[p]] ELSE routes
  /\ waiting' = [waiting EXCEPT ![p] = TRUE]
  /\ UNCHANGED <<config, net, subs, link, conns, inbox, start, next, status>>

\* token.Wait() returns.
Answered(p) ==
  /\ waiting[p]
  /\ waiting' = [waiting EXCEPT ![p] = FALSE]
  /\ next' = [next EXCEPT ![p] = @ + 1]

Granted(p) ==
  /\ Answered(p) /\ link = "up"
  /\ LET filter == Filters(p)[next[p]] IN
       /\ subs' = subs \cup {filter}
       /\ inbox' = inbox \o Retained(filter)
  /\ UNCHANGED <<config, net, link, conns, routes, start, status>>

\* The connection was lost before the answer; that is logged, and not tried again.
NotGranted(p) ==
  /\ Answered(p) /\ link = "lost"
  /\ UNCHANGED <<config, net, client, start, status>>

------------------------------------------------------------------------------
\* The callback of the topic.  A device that has no entry yet is ignored.
HandleStatusUpdate ==
  /\ inbox # <<>>
  /\ inbox' = Tail(inbox)
  /\ LET m == Head(inbox)  device == routes[m.topic]
     IN status' = IF device \in DOMAIN status THEN [status EXCEPT ![device] = m.id]
                                              ELSE status
  /\ UNCHANGED <<config, net, subs, link, conns, routes, start, next, waiting>>

\* Every subscriber has done its work and no message is on the way.
Settled == /\ link = "up" /\ pc = "serve" /\ inbox = <<>>
           /\ \A p \in Subscribers : Done(p)

\* main has returned with log.Fatal, or the server waits for the devices.
Quiet == pc = "failed" \/ Settled
Idle == Quiet /\ UNCHANGED vars

Environment == Outage \/ Restored \/ \E t \in Topics : Publish(t)
Start == Connect \/ ConnectFails \/ Sleep \/ Initialize
Subscribing(p) == Skip(p) \/ Subscribe(p) \/ Granted(p) \/ NotGranted(p)

Next == \/ Environment \/ Reconnect \/ Start \/ HandleStatusUpdate \/ Idle
        \/ \E p \in Subscribers : Subscribing(p)

Spec == Init /\ [][Next]_vars

\* Goroutines run, a broker that can be reached answers, and what was sent arrives.
\* Nothing is assumed of the network and the devices.
FairSpec ==
  /\ Spec
  /\ WF_vars(Reconnect) /\ WF_vars(Start) /\ WF_vars(HandleStatusUpdate)
  /\ \A p \in Subscribers : WF_vars(Subscribing(p))

------------------------------------------------------------------------------
TypeOK ==
  /\ config \in Configs
  /\ reachable \in BOOLEAN /\ outages \in 0 .. MaxOutages
  /\ published \in [Topics -> Nat]
  /\ subs \subseteq Topics \cup {All}
  /\ link \in {"none", "up", "lost"} /\ conns \in 0 .. MaxOutages + 1
  /\ inbox \in Seq([topic: Topics, id: Nat \ {0}])
  /\ routes \in [Topics -> 0 .. Len(config.statusTopic)]
  /\ pc \in {"connect", "sleep", "failed", "init", "serve"}
  /\ attempts \in Nat /\ attempts <= config.maxRetries
  /\ next \in [Subscribers -> 0 .. Len(config.statusTopic) + 2]
  /\ waiting \in [Subscribers -> BOOLEAN]
  /\ status \in {<<>>} \cup [Devices -> Nat]

\* Of the devices that share a topic, the last one gets its statuses.
LastOfTopic(d) == /\ config.statusTopic[d] \in Topics
                  /\ \A e \in Devices : config.statusTopic[e] = config.statusTopic[d] => e <= d

(***************************************************************************)
(* Once the session has settled, each device shows the latest status that  *)
(* was published on its topic, whatever was dropped before its entry was   *)
(* initialised, lost with a connection, or subscribed by handlers of       *)
(* connections that are gone.                                              *)
(***************************************************************************)
Current ==
  Settled => \A d \in Devices : LastOfTopic(d) =>
               status[d] = published[config.statusTopic[d]]

\* A status that was shown is not replaced by an older one, although statuses are sent
\* again with every subscription and callbacks are replaced while messages are on the way.
StatusNeverGoesBack ==
  [][\A d \in DOMAIN status : status'[d] >= status[d]]_vars

\* If the broker can be reached in the end, the session settles.  Only a limit on the
\* attempts (0 is none) may have made main give up before.
Settles == <>[]reachable => <>[](Settled \/ (pc = "failed" /\ config.maxRetries > 0))

\* If the broker can never be reached, and there is a limit, main gives up after exactly
\* so many attempts.
GivesUpInTime ==
  [](~reachable /\ config.maxRetries > 0)
    => <>(pc = "failed" /\ attempts = config.maxRetries)

\* The flag -log-all-mqtt, "Log all MQTT messages using wildcard subscription", holds for
\* the first connection: the wildcard is subscribed when the session has settled.
LogsAllAtFirst == Settled /\ config.wildcard /\ conns = 1 => All \in subs
==============================================================================
