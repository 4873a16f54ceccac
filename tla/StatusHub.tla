------------------------------ MODULE StatusHub ------------------------------
(***************************************************************************)
(* The running home-automation server: the state shared by the MQTT        *)
(* callbacks, the HTTP handlers and the WebSocket handlers, the three      *)
(* RWMutexes that guard it, and what the browsers have been sent.          *)
(*                                                                         *)
(* Goroutines:                                                             *)
(*  - Callback: paho runs the message callbacks one after the other in one *)
(*    goroutine (its default message ordering);                            *)
(*  - Http: the goroutines of net/http serving /api/control, /api/status   *)
(*    and /api/mqtt-log;                                                   *)
(*  - Conns: one goroutine per WebSocket connection (handleWebSocket),     *)
(*    named by its connection; a browser that reconnects is a new element. *)
(*                                                                         *)
(* A status and a log entry are named by the number of the message they    *)
(* come from.  A WriteJSON is an interval (a begin and an end), and so is  *)
(* a delete from the wsClients map: neither a connection nor the map       *)
(* tolerates a second goroutine in that interval.                          *)
(***************************************************************************)
EXTENDS Naturals, Sequences, FiniteSets, RWMutex

CONSTANTS
  Devices,      \* the ids of the configured devices
  NoDevice,     \* the device of a message on no status topic
  Callback,     \* the goroutine of the MQTT callbacks
  Http,         \* goroutines of HTTP requests
  Conns,        \* WebSocket connections, and the goroutines serving them
  NoConn,
  MQTTLogSize,  \* config.MQTTLogSize, made positive by loadConfig
  MaxMessages   \* bound: MQTT messages and control requests in a behaviour

Entries == 1..MaxMessages

ASSUME HubAssumption ==
  /\ NoDevice \notin Devices
  /\ NoConn \notin Conns
  /\ Callback \notin Http \cup Conns /\ Http \cap Conns = {}
  /\ MQTTLogSize \in Nat \ {0} /\ MaxMessages \in Nat

Workers == {Callback} \cup Http     \* the goroutines that broadcast
Goroutines == Workers \cup Conns

Kinds == {"log", "status"}              \* what is logged, sent and guarded
Forms == {"object", "text", "scalar"}   \* a payload: a JSON object, no JSON, other JSON

\* deviceStatus[d].Status: the messages its fields and its "value" come from (0: none).
Status == [fields: 0..MaxMessages, value: 0..MaxMessages]
NoStatus == [fields |-> 0, value |-> 0]

\* What a goroutine is busy with: the message it logs or applies, the snapshot it sends.
Jobs == [kind: Kinds, id: 0..MaxMessages, device: Devices \cup {NoDevice}, form: Forms]
NoJob == [kind |-> "log", id |-> 0, device |-> NoDevice, form |-> "text"]

\* What a WriteJSON has encoded: the status of a device, or a log entry.
Messages == [kind: Kinds, of: Devices \cup 0..MaxMessages, status: Status]
NoMessage == [kind |-> "log", of |-> 0, status |-> NoStatus]

\* What a message is about: a device, or a log entry.
Item(m) == <<m.kind, m.of>>
Items == Kinds \X (Devices \cup 0..MaxMessages)

VARIABLES
  fault,        \* what ended the process, "none" while it runs
  received,     \* number of messages and control requests so far
  aborted,      \* entries whose broadcast was cut short by a recovered panic
  deviceStatus, \* app.deviceStatus[d].Status
  mqttLog,      \* app.mqttLog, newest entry first
  wsClients,    \* app.wsClients
  mutex,        \* statusMutex, mqttLogMutex ("log") and wsMutex ("ws")
  pc, job,      \* where each goroutine is, and with what
  todo,         \* the clients of a broadcast, or the items of a snapshot, yet to come
  target,       \* the connection a goroutine writes to or deletes
  sending,      \* the message a goroutine has encoded and is writing
  overlapped,   \* the goroutines whose connection another has written to meanwhile
  conn,         \* the connection: "new", "open" or "closed"
  view,         \* the last status of each device a browser was shown
  got,          \* how often a browser was shown each log entry
  missed        \* what the browser of an open connection was not shown because two
                \* goroutines wrote to it at once

ghosts == <<received, aborted>>
shared == <<deviceStatus, mqttLog, wsClients>>
writing == <<target, sending, overlapped>>
shown == <<view, got, missed>>
browsers == <<conn, shown>>
vars == <<fault, ghosts, shared, mutex, pc, job, todo, writing, browsers>>

Locks == [writer: SUBSET Goroutines, readers: SUBSET Goroutines]
Labels == {"idle", "get", "want", "bcast", "loop", "write", "delete",
           "new", "reg", "snap", "read", "done", "dead"}

TypeOK ==
  /\ fault \in {"none", "notAnObject", "concurrentMap", "concurrentWrite"}
  /\ received \in 0..MaxMessages /\ aborted \subseteq Entries
  /\ deviceStatus \in [Devices -> Status]
  /\ mqttLog \in Seq(Entries)
  /\ wsClients \subseteq Conns
  /\ mutex \in [Kinds \cup {"ws"} -> Locks]
  /\ pc \in [Goroutines -> Labels] /\ job \in [Goroutines -> Jobs]
  /\ todo \in [Goroutines -> SUBSET (Conns \cup Devices \cup Entries)]
  /\ target \in [Goroutines -> Conns \cup {NoConn}]
  /\ sending \in [Goroutines -> Messages] /\ overlapped \subseteq Goroutines
  /\ conn \in [Conns -> {"new", "open", "closed"}]
  /\ view \in [Conns -> [Devices -> Status]]
  /\ got \in [Conns -> [Entries -> Nat]]
  /\ missed \in [Conns -> SUBSET Items]

\* The state in which main() starts to serve: devices initialised, nobody connected.
Init ==
  /\ fault = "none" /\ received = 0 /\ aborted = {}
  /\ deviceStatus = [d \in Devices |-> NoStatus]
  /\ mqttLog = <<>>
  /\ wsClients = {}
  /\ mutex = [m \in Kinds \cup {"ws"} |-> Unlocked]
  /\ pc = [g \in Goroutines |-> IF g \in Conns THEN "new" ELSE "idle"]
  /\ job = [g \in Goroutines |-> NoJob]
  /\ todo = [g \in Goroutines |-> {}]
  /\ target = [g \in Goroutines |-> NoConn]
  /\ sending = [g \in Goroutines |-> NoMessage] /\ overlapped = {}
  /\ conn = [c \in Conns |-> "new"]
  /\ view = [c \in Conns |-> [d \in Devices |-> NoStatus]]
  /\ got = [c \in Conns |-> [e \in Entries |-> 0]]
  /\ missed = [c \in Conns |-> {}]

Goto(g, label) == pc' = [pc EXCEPT ![g] = label]
Start(g, label, j) == Goto(g, label) /\ job' = [job EXCEPT ![g] = j]

------------------------------------------------------------------------------
(***************************************************************************)
(* Requests arrive.                                                        *)
(***************************************************************************)

\* Mutant: a message is numbered before it is counted.
NewJob_Stale(d, f) == [kind |-> "log", id |-> received, device |-> d, form |-> f]

NewJob(d, f) == [kind |-> "log", id |-> received + 1, device |-> d, form |-> f]

\* Work for w: log the message first; a status topic's is applied afterwards.
Arrive(w, d, f) ==
  /\ pc[w] = "idle" /\ received < MaxMessages
  /\ received' = received + 1
  /\ Start(w, "want", NewJob(d, f))
  /\ UNCHANGED <<fault, aborted, shared, mutex, todo, writing, browsers>>

\* A message on the status topic of d, or on any other topic (no device).
Receive(d, f) == Arrive(Callback, d, f)

\* handleControl: the publish was acknowledged, the outgoing message is logged.  A
\* publish that fails is answered with an error and changes nothing here.
Control(h) == Arrive(h, NoDevice, "text")

\* handleStatus and handleMQTTLog hold the read lock while they encode.
BeginGet(h, k) ==
  /\ pc[h] = "idle" /\ NoWriter(mutex[k])
  /\ mutex' = [mutex EXCEPT ![k] = RLock(@, h)]
  /\ Start(h, "get", [NoJob EXCEPT !.kind = k])
  /\ UNCHANGED <<fault, ghosts, shared, todo, writing, browsers>>

EndGet(h) ==
  /\ pc[h] = "get"
  /\ mutex' = [mutex EXCEPT ![job[h].kind] = RUnlock(@, h)]
  /\ Start(h, "idle", NoJob)
  /\ UNCHANGED <<fault, ghosts, shared, todo, writing, browsers>>

------------------------------------------------------------------------------
(***************************************************************************)
(* WriteJSON, begun by a broadcast or a snapshot, and how it ends.         *)
(***************************************************************************)

\* The goroutines inside a WriteJSON on connection c.
Writing(c) == {g \in Goroutines : pc[g] = "write" /\ target[g] = c}

\* A status is encoded as it is when the call begins.
Encoded(k, x) ==
  [kind |-> k, of |-> x, status |-> IF k = "status" THEN deviceStatus[x] ELSE NoStatus]

\* Whoever writes to c already is overlapped by g, and g by them.
BeginWrite(g, c, x) ==
  /\ target' = [target EXCEPT ![g] = c]
  /\ sending' = [sending EXCEPT ![g] = Encoded(job[g].kind, x)]
  /\ overlapped' = IF Writing(c) = {} THEN overlapped ELSE overlapped \cup Writing(c) \cup {g}
  /\ Goto(g, "write")
  /\ UNCHANGED <<fault, ghosts, shared, mutex, job, browsers>>

WriteEnds(g) ==
  /\ target' = [target EXCEPT ![g] = NoConn]
  /\ sending' = [sending EXCEPT ![g] = NoMessage]
  /\ overlapped' = overlapped \ {g}

EndWrite(g) == WriteEnds(g) /\ Goto(g, "loop")

\* The browser shows the status, or inserts the log entry.
Shown(c, m) ==
  /\ view' = IF m.kind = "status" THEN [view EXCEPT ![c][m.of] = m.status] ELSE view
  /\ got' = IF m.kind = "log" THEN [got EXCEPT ![c][m.of] = @ + 1] ELSE got

Delivered(g) ==
  LET c == target[g]  m == sending[g]
  IN  /\ pc[g] = "write" /\ conn[c] = "open"
      /\ EndWrite(g) /\ Shown(c, m)
      /\ missed' = [missed EXCEPT ![c] = @ \ {Item(m)}]
      /\ UNCHANGED <<fault, ghosts, shared, mutex, job, todo, conn>>

\* Mutant: a failed write ends the broadcast, the other clients get nothing.
Lost_Returns(g) ==
  /\ pc[g] = "write" /\ conn[target[g]] = "closed"
  /\ todo' = [todo EXCEPT ![g] = {}]
  /\ EndWrite(g)
  /\ UNCHANGED <<fault, ghosts, shared, mutex, job, browsers>>

\* The peer is gone: the bytes vanish in the socket, or WriteJSON fails; a snapshot
\* drops the error, a broadcast deletes the client.
Lost(g) ==
  /\ pc[g] = "write" /\ conn[target[g]] = "closed"
  /\ EndWrite(g) \/ (g \in Workers /\ Goto(g, "delete") /\ UNCHANGED writing)
  /\ UNCHANGED <<fault, ghosts, shared, mutex, job, todo, browsers>>

(***************************************************************************)
(* Two goroutines write to one connection.  A WriteJSON that begins closes *)
(* the writer of the one before it, which then fails, and both fill one    *)
(* buffer without a lock: a frame may go out empty, cut off or mixed.  The *)
(* browser cannot parse it, and keeps the connection.                      *)
(***************************************************************************)
Overlapped(g) == pc[g] = "write" /\ g \in overlapped

\* The browser fails to parse the frame, WriteJSON returns no error, or a snapshot drops it.
Torn(g) ==
  /\ Overlapped(g) /\ conn[target[g]] = "open"
  /\ missed' = [missed EXCEPT ![target[g]] = @ \cup {Item(sending[g])}]
  /\ EndWrite(g)
  /\ UNCHANGED <<fault, ghosts, shared, mutex, job, todo, conn, view, got>>

\* Its writer was closed: a broadcast takes the error for a failure of the client.
WriterClosed(w) ==
  /\ Overlapped(w) /\ conn[target[w]] = "open"
  /\ conn' = [conn EXCEPT ![target[w]] = "closed"]
  /\ missed' = [missed EXCEPT ![target[w]] = {}]
  /\ Goto(w, "delete")
  /\ UNCHANGED <<fault, ghosts, shared, mutex, job, todo, writing, view, got>>

\* Or gorilla notices, and panics.  In paho's goroutine that ends the process ...
CallbackPanic ==
  /\ Overlapped(Callback)
  /\ fault' = "concurrentWrite"
  /\ UNCHANGED <<ghosts, shared, mutex, pc, job, todo, writing, browsers>>

\* ... net/http recovers, and the deferred unlocks of the broadcast run; the message may
\* have been sent ...
HttpPanic(h) ==
  /\ Overlapped(h)
  /\ mutex' = [mutex EXCEPT !["ws"] = RUnlock(@, h), !["log"] = Unlock(@)]
  /\ aborted' = aborted \cup {job[h].id}
  /\ todo' = [todo EXCEPT ![h] = {}]
  /\ \/ conn[target[h]] = "open" /\ Shown(target[h], sending[h])
     \/ UNCHANGED <<view, got>>
  /\ WriteEnds(h) /\ Start(h, "idle", NoJob)
  /\ UNCHANGED <<fault, received, shared, conn, missed>>

\* ... but a snapshot's RUnlock is not deferred, nor is its delete; only Close runs.
SnapshotPanic(c) ==
  /\ Overlapped(c)
  /\ conn' = [conn EXCEPT ![c] = "closed"]
  /\ missed' = [missed EXCEPT ![c] = {}]
  /\ WriteEnds(c) /\ Goto(c, "dead")
  /\ UNCHANGED <<fault, ghosts, shared, mutex, job, todo, view, got>>

------------------------------------------------------------------------------
(***************************************************************************)
(* addMQTTLogEntry and handleStatusUpdate: take the lock of the data,      *)
(* change it, and broadcast with that lock still held.                     *)
(***************************************************************************)

\* Mutant: the log is trimmed one entry too late.
Prepend_OffByOne(e, log) ==
  IF Len(log) > MQTTLogSize THEN <<e>> \o SubSeq(log, 1, MQTTLogSize - 1) ELSE <<e>> \o log

\* The entry goes to the front, what is beyond the size is cut off.
Prepend(e, log) ==
  IF Len(log) >= MQTTLogSize THEN <<e>> \o SubSeq(log, 1, MQTTLogSize - 1) ELSE <<e>> \o log

\* An object replaces the status, other text becomes its "value".
Applied(s, j) ==
  IF j.form = "object" THEN [fields |-> j.id, value |-> 0] ELSE [s EXCEPT !.value = j.id]

AddLogEntry(w) ==
  /\ pc[w] = "want" /\ job[w].kind = "log" /\ Free(mutex["log"])
  /\ mutex' = [mutex EXCEPT !["log"] = Lock(@, w)]
  /\ mqttLog' = Prepend(job[w].id, mqttLog)
  /\ Goto(w, "bcast")
  /\ UNCHANGED <<fault, ghosts, deviceStatus, wsClients, job, todo, writing, browsers>>

UpdateStatus(w) ==
  /\ pc[w] = "want" /\ job[w].kind = "status" /\ Free(mutex["status"])
  /\ job[w].form # "scalar"
  /\ mutex' = [mutex EXCEPT !["status"] = Lock(@, w)]
  /\ deviceStatus' = [deviceStatus EXCEPT ![job[w].device] = Applied(@, job[w])]
  /\ Goto(w, "bcast")
  /\ UNCHANGED <<fault, ghosts, mqttLog, wsClients, job, todo, writing, browsers>>

\* JSON that is no object: the type assertion panics in paho's goroutine.
NotAnObject(w) ==
  /\ pc[w] = "want" /\ job[w].kind = "status" /\ Free(mutex["status"])
  /\ job[w].form = "scalar"
  /\ fault' = "notAnObject"
  /\ UNCHANGED <<ghosts, shared, mutex, pc, job, todo, writing, browsers>>

\* Range over wsClients under its read lock.
BeginBroadcast(w) ==
  /\ pc[w] = "bcast" /\ NoWriter(mutex["ws"])
  /\ mutex' = [mutex EXCEPT !["ws"] = RLock(@, w)]
  /\ todo' = [todo EXCEPT ![w] = wsClients]
  /\ Goto(w, "loop")
  /\ UNCHANGED <<fault, ghosts, shared, job, writing, browsers>>

\* The clients the range has yet to produce: a deleted one is skipped.
Remaining(w) == todo[w] \cap wsClients

BroadcastTo(w, c) ==
  /\ pc[w] = "loop" /\ c \in Remaining(w)
  /\ todo' = [todo EXCEPT ![w] = @ \ {c}]
  /\ BeginWrite(w, c, IF job[w].kind = "log" THEN job[w].id ELSE job[w].device)

\* delete(app.wsClients, client), with only the read lock held ...
DeleteClient(w) ==
  /\ pc[w] = "delete"
  /\ wsClients' = wsClients \ {target[w]}
  /\ EndWrite(w)
  /\ UNCHANGED <<fault, ghosts, deviceStatus, mqttLog, mutex, job, todo, browsers>>

\* ... while another broadcast ranges over the map, or deletes from it.
MapFault(w) ==
  /\ pc[w] \in {"loop", "delete"}
  /\ \E v \in Workers \ {w} : pc[v] = "delete"
  /\ fault' = "concurrentMap"
  /\ UNCHANGED <<ghosts, shared, mutex, pc, job, todo, writing, browsers>>

Unlocking(w) ==
  mutex' = [mutex EXCEPT !["ws"] = RUnlock(@, w), ![job[w].kind] = Unlock(@)]

\* After the log broadcast, the callback of a status topic applies the status.
NextJob(w) ==
  IF job[w].kind = "log" /\ job[w].device # NoDevice
    THEN Start(w, "want", [job[w] EXCEPT !.kind = "status"])
    ELSE Start(w, "idle", NoJob)

\* Mutants: the locks are not released; the broadcast ends before the last client.
EndBroadcast_Leak(w) ==
  /\ pc[w] = "loop" /\ Remaining(w) = {}
  /\ NextJob(w)
  /\ UNCHANGED <<fault, ghosts, shared, mutex, todo, writing, browsers>>

EndBroadcast_Early(w) ==
  /\ pc[w] = "loop"
  /\ Unlocking(w) /\ NextJob(w)
  /\ todo' = [todo EXCEPT ![w] = {}]
  /\ UNCHANGED <<fault, ghosts, shared, writing, browsers>>

EndBroadcast(w) ==
  /\ pc[w] = "loop" /\ Remaining(w) = {}
  /\ Unlocking(w) /\ NextJob(w)
  /\ todo' = [todo EXCEPT ![w] = {}]
  /\ UNCHANGED <<fault, ghosts, shared, writing, browsers>>

------------------------------------------------------------------------------
(***************************************************************************)
(* handleWebSocket: register the connection, send every status, send the   *)
(* log, then read until the connection fails, and unregister.              *)
(***************************************************************************)

\* The upgrade succeeded.
Connect(c) ==
  /\ pc[c] = "new"
  /\ conn' = [conn EXCEPT ![c] = "open"]
  /\ Goto(c, "reg")
  /\ UNCHANGED <<fault, ghosts, shared, mutex, job, todo, writing, shown>>

\* The browser leaves, or the network fails.
Disconnect(c) ==
  /\ conn[c] = "open"
  /\ conn' = [conn EXCEPT ![c] = "closed"]
  /\ missed' = [missed EXCEPT ![c] = {}]
  /\ UNCHANGED <<fault, ghosts, shared, mutex, pc, job, todo, writing, view, got>>

\* Mutant: the client is registered without waiting for the broadcasts to end.
Register_NoLock(c) ==
  /\ pc[c] = "reg"
  /\ wsClients' = wsClients \cup {c}
  /\ Start(c, "snap", [NoJob EXCEPT !.kind = "status"])
  /\ UNCHANGED <<fault, ghosts, deviceStatus, mqttLog, mutex, todo, writing, browsers>>

\* Mutant: the write lock of the map is held (deferred) until the handler returns.
Register_Deferred(c) ==
  /\ pc[c] = "reg" /\ Free(mutex["ws"])
  /\ mutex' = [mutex EXCEPT !["ws"] = Lock(@, c)]
  /\ wsClients' = wsClients \cup {c}
  /\ Start(c, "snap", [NoJob EXCEPT !.kind = "status"])
  /\ UNCHANGED <<fault, ghosts, deviceStatus, mqttLog, todo, writing, browsers>>

Register(c) ==
  /\ pc[c] = "reg" /\ Free(mutex["ws"])
  /\ wsClients' = wsClients \cup {c}
  /\ Start(c, "snap", [NoJob EXCEPT !.kind = "status"])
  /\ UNCHANGED <<fault, ghosts, deviceStatus, mqttLog, mutex, todo, writing, browsers>>

\* Mutant: the range over the log stops one entry early.
SnapshotOf_OffByOne(k) ==
  IF k = "status" THEN Devices ELSE {mqttLog[i] : i \in 1..Len(mqttLog) - 1}

\* What a snapshot sends (a map is ranged over in any order; so, here, is the log).
SnapshotOf(k) == IF k = "status" THEN Devices ELSE {mqttLog[i] : i \in 1..Len(mqttLog)}

\* Mutant: the snapshot is sent without the read lock.
BeginSnapshot_NoLock(c) ==
  /\ pc[c] = "snap"
  /\ todo' = [todo EXCEPT ![c] = SnapshotOf(job[c].kind)]
  /\ Goto(c, "loop")
  /\ UNCHANGED <<fault, ghosts, shared, mutex, job, writing, browsers>>

BeginSnapshot(c) ==
  /\ pc[c] = "snap" /\ NoWriter(mutex[job[c].kind])
  /\ mutex' = [mutex EXCEPT ![job[c].kind] = RLock(@, c)]
  /\ todo' = [todo EXCEPT ![c] = SnapshotOf(job[c].kind)]
  /\ Goto(c, "loop")
  /\ UNCHANGED <<fault, ghosts, shared, job, writing, browsers>>

SendTo(c, x) ==
  /\ pc[c] = "loop" /\ x \in todo[c]
  /\ todo' = [todo EXCEPT ![c] = @ \ {x}]
  /\ BeginWrite(c, c, x)

\* The status first, then the log, then the read loop.
EndSnapshot(c) ==
  /\ pc[c] = "loop" /\ todo[c] = {}
  /\ mutex' = [mutex EXCEPT ![job[c].kind] = RUnlock(@, c)]
  /\ Start(c, IF job[c].kind = "status" THEN "snap" ELSE "read", NoJob)
  /\ UNCHANGED <<fault, ghosts, shared, todo, writing, browsers>>

\* Mutant: the handler returns without taking the connection out of the map.
Unregister_Forgotten(c) ==
  /\ pc[c] = "read" /\ conn[c] = "closed"
  /\ Goto(c, "done")
  /\ UNCHANGED <<fault, ghosts, shared, mutex, job, todo, writing, browsers>>

\* The read failed.
Unregister(c) ==
  /\ pc[c] = "read" /\ conn[c] = "closed" /\ Free(mutex["ws"])
  /\ wsClients' = wsClients \ {c}
  /\ Goto(c, "done")
  /\ UNCHANGED <<fault, ghosts, deviceStatus, mqttLog, mutex, job, todo, writing, browsers>>

------------------------------------------------------------------------------
WorkerStep(w) ==
  \/ AddLogEntry(w) \/ UpdateStatus(w) \/ NotAnObject(w)
  \/ BeginBroadcast(w) \/ EndBroadcast(w) \/ DeleteClient(w) \/ MapFault(w)
  \/ \E c \in Conns : BroadcastTo(w, c)
  \/ Delivered(w) \/ Lost(w) \/ Torn(w) \/ WriterClosed(w)

HttpStep(h) == EndGet(h) \/ HttpPanic(h)

HandlerStep(c) ==
  \/ Register(c) \/ BeginSnapshot(c) \/ EndSnapshot(c) \/ SnapshotPanic(c) \/ Unregister(c)
  \/ \E x \in Devices \cup Entries : SendTo(c, x)
  \/ Delivered(c) \/ Lost(c) \/ Torn(c)

\* What clients, the broker and browsers do.
Environment ==
  \/ \E d \in Devices, f \in Forms : Receive(d, f)
  \/ Receive(NoDevice, "text")
  \/ \E h \in Http : Control(h) \/ \E k \in Kinds : BeginGet(h, k)
  \/ \E c \in Conns : Connect(c) \/ Disconnect(c)

Step ==
  \/ Environment
  \/ \E w \in Workers : WorkerStep(w)
  \/ \E h \in Http : HttpStep(h)
  \/ \E c \in Conns : HandlerStep(c)
  \/ CallbackPanic

\* A handler died with a snapshot's read lock: nobody will release it.
LockLeaked == \E k \in Kinds, c \in Conns : c \in mutex[k].readers /\ pc[c] = "dead"

\* All messages are handled and all browsers have left.
Quiet == (\A w \in Workers : pc[w] = "idle") /\ (\A c \in Conns : pc[c] = "done")

\* The process is gone, whoever needs a leaked lock waits for ever, or all is quiet.
Stopped == (fault # "none" \/ LockLeaked \/ Quiet) /\ UNCHANGED vars

Next == (fault = "none" /\ Step) \/ Stopped

Spec == Init /\ [][Next]_vars

\* Goroutines run, writes to the sockets return, and no lock starves a goroutine that
\* waits for it while others take it in turns.
Running(A) == fault = "none" /\ A
Fairness ==
  /\ \A w \in Workers : SF_vars(Running(WorkerStep(w)))
  /\ \A h \in Http : WF_vars(Running(HttpStep(h)))
  /\ \A c \in Conns : SF_vars(Running(HandlerStep(c)))

FairSpec == Spec /\ Fairness

------------------------------------------------------------------------------
(***************************************************************************)
(* Safety.                                                                 *)
(***************************************************************************)

\* The status snapshot of c is complete; the log snapshot is, too.
HasStatus(c) ==
  conn[c] = "open" /\ job[c].kind = "log" /\ pc[c] \in {"snap", "loop", "write", "read"}
HasLog(c) == conn[c] = "open" /\ pc[c] = "read"

\* c shows the current status of d, unless it was torn by an overlapping write.
Shows(c, d) == view[c][d] = deviceStatus[d] \/ <<"status", d>> \in missed[c]
InSync(c) == \A d \in Devices : Shows(c, d)

\* No lost update: whenever no status update is in progress, every browser whose
\* initial snapshot was sent shows the current status of every device, however the
\* snapshot, the broadcasts and other browsers' failures interleaved.  The only way to
\* miss one is that two goroutines write to the connection at once, and the next status
\* of the device makes up for it.
NoLostUpdate == mutex["status"].writer = {} => \A c \in Conns : HasStatus(c) => InSync(c)

\* A payload that is no object falls back to its string: the process goes on, whatever
\* the payload of a status message is (the comment in handleStatusUpdate).
FallsBackToString == fault # "notAnObject"

\* Every entry of the log reached every browser that has its log snapshot, at least
\* once and at most twice (snapshot and broadcast).  It may have missed one whose
\* broadcast was cut short by a recovered panic, or whose last frame was torn between two
\* overlapping writes.
LogDelivered ==
  mutex["log"].writer = {} =>
    \A c \in Conns, i \in 1..Len(mqttLog) :
      LET e == mqttLog[i]
      IN  HasLog(c) => /\ got[c][e] <= 2
                       /\ got[c][e] >= 1 \/ e \in aborted \/ <<"log", e>> \in missed[c]

\* No zombie and no leak: an open connection stays registered from Register to
\* Unregister (a broadcast deletes only what has failed), and a connection whose
\* handler has returned is no longer registered.
Registry ==
  \A c \in Conns :
    /\ conn[c] = "open" /\ pc[c] \notin {"new", "reg"} => c \in wsClients
    /\ pc[c] \in {"new", "reg", "done"} => c \notin wsClients

\* The log never exceeds its size and shows every message once; what the callback alone
\* logs is shown newest first.
LogNewestFirst ==
  /\ Len(mqttLog) <= MQTTLogSize
  /\ \A i, j \in 1..Len(mqttLog) : i < j => mqttLog[i] # mqttLog[j]
  /\ Http = {} => \A i, j \in 1..Len(mqttLog) : i < j => mqttLog[i] > mqttLog[j]

\* The mutexes g waits for before it can go on, and those it has.
Needs(g) == {m \in Kinds \cup {"ws"} :
  \/ pc[g] \in {"want", "snap"} /\ m = job[g].kind
  \/ pc[g] \in {"bcast", "reg"} /\ m = "ws"
  \/ g \in Conns /\ pc[g] = "read" /\ conn[g] = "closed" /\ m = "ws"}
Has(g) == {m \in Kinds \cup {"ws"} : g \in mutex[m].writer \cup mutex[m].readers}

\* No goroutines wait for one another: of any set of them, some one waits for no mutex
\* that one of the set has, although the broadcasts take wsMutex with mqttLogMutex or
\* statusMutex held.  A read lock counts as an obstacle to readers, too: in Go, a reader
\* waits behind a writer that waits.
NoCircularWait ==
  \A S \in (SUBSET Goroutines) \ {{}} : \E g \in S : \A h \in S : Needs(g) \cap Has(h) = {}

------------------------------------------------------------------------------
(***************************************************************************)
(* Why no update is lost: the inductive invariant.                         *)
(***************************************************************************)

\* The callback has changed a device's status and broadcasts it, and has yet to reach c.
Updating ==
  job[Callback].kind = "status" /\ pc[Callback] \in {"bcast", "loop", "write", "delete"}
Pending(c) ==
  \/ pc[Callback] = "bcast" \/ c \in Remaining(Callback)
  \/ pc[Callback] = "write" /\ target[Callback] = c

\* The status snapshot of c is under way.
Snapping(c) == job[c].kind = "status" /\ pc[c] \in {"loop", "write"}

\* Only the callback writes to the status, only snapshots and requests read it, never both.
StatusLock ==
  /\ mutex["status"].writer = IF Updating THEN {Callback} ELSE {}
  /\ mutex["status"].writer # {} => mutex["status"].readers = {}
  /\ \A c \in Conns : Snapping(c) => c \in mutex["status"].readers

\* Who is logging or updating has a message to name it; HTTP requests never change a
\* status; the callback updates a known device; a status snapshot sends devices.
JobsInv ==
  /\ \A w \in Workers : pc[w] \notin {"idle", "get"} => job[w].id # 0
  /\ \A h \in Http : pc[h] # "get" => job[h].kind = "log" /\ job[h].device = NoDevice
  /\ job[Callback].kind = "status" => job[Callback].device \in Devices
  /\ \A c \in Conns : Snapping(c) => todo[c] \subseteq Devices

\* Where each goroutine can be.
PlaceInv ==
  /\ \A w \in Workers :
       pc[w] \in {"idle", "get", "want", "bcast", "loop", "write", "delete"}
  /\ \A c \in Conns :
       pc[c] \in {"new", "reg", "snap", "loop", "write", "read", "done", "dead"}
  /\ pc[Callback] # "get"

\* Who writes to a connection, or deletes one, has one; a handler writes to its own.
TargetInv ==
  /\ \A g \in Goroutines : pc[g] \in {"write", "delete"} => target[g] \in Conns
  /\ \A c \in Conns : pc[c] = "write" => target[c] = c

\* A broadcast deletes only a connection that has failed, and none is reused.
ClosedInv ==
  /\ \A w \in Workers : pc[w] = "delete" => conn[target[w]] = "closed"
  /\ \A c \in Conns : pc[c] = "new" <=> conn[c] = "new"
  /\ \A c \in Conns : pc[c] \in {"done", "dead"} => conn[c] = "closed"

\* What a goroutine is writing is still the current status when the write ends.
SendingInv ==
  \A g \in Goroutines : pc[g] = "write" =>
    /\ sending[g].kind = job[g].kind
    /\ job[g].kind = "status" =>
         sending[g].of \in Devices /\ sending[g] = Encoded("status", sending[g].of)
    /\ g = Callback /\ job[g].kind = "status" => sending[g].of = job[g].device

\* A browser shows the current status of a device, except what its snapshot has yet to
\* send, what is being written, the update that is being broadcast, and what was torn.
Fresh(c, d) ==
  /\ HasStatus(c) => Shows(c, d) \/ (Updating /\ d = job[Callback].device /\ Pending(c))
  /\ conn[c] = "open" /\ Snapping(c) =>
       Shows(c, d) \/ d \in todo[c] \/ (pc[c] = "write" /\ d = sending[c].of)

FreshInv == \A c \in Conns, d \in Devices : Fresh(c, d)

IInv ==
  /\ StatusLock /\ JobsInv /\ PlaceInv /\ TargetInv
  /\ ClosedInv /\ Registry /\ SendingInv /\ FreshInv

------------------------------------------------------------------------------
(***************************************************************************)
(* What a step may never do, and what must happen.                         *)
(***************************************************************************)

\* A handler changes wsClients only while no broadcast ranges over it: the write lock
\* keeps the range apart from the insert and the handler's delete.
HandlerChangesMapAlone ==
  [][\A c \in Conns :
       pc[c] \in {"reg", "read"} /\ pc'[c] # pc[c]
         => \A w \in Workers : pc[w] \notin {"loop", "write", "delete"}]_vars

\* A browser never goes back to an older status: the initial snapshot and the
\* broadcasts, sent by different goroutines, arrive in the order of the updates.
Newest(s) == IF s.fields > s.value THEN s.fields ELSE s.value
NeverGoesBack ==
  [][\A c \in Conns, d \in Devices : Newest(view'[c][d]) >= Newest(view[c][d])]_vars

\* To the browsers that have their snapshot, the hub is the feed of StatusFeed: none of
\* them misses a status of any device, not even one that is soon overwritten, unless it
\* is lost between two overlapping writes.
Feed == INSTANCE StatusFeed WITH
  Subscribers <- Conns, Statuses <- Status, Initial <- NoStatus,
  cur <- deviceStatus, live <- {c \in Conns : HasStatus(c)},
  missed <- [c \in Conns |-> {d \in Devices : <<"status", d>> \in missed[c]}]
ImplementsFeed == Feed!Spec

\* Every message and request is finished, unless the process died or a lock leaked:
\* the three locks are never waited for in a circle.
Finished ==
  \A w \in Workers : pc[w] # "idle" ~> (pc[w] = "idle" \/ fault # "none" \/ LockLeaked)

\* A browser that is behind catches up or has failed, even when another connection is
\* stuck behind a leaked lock: only the end of the process stops a broadcast, and only an
\* overlapping write can tear what it sends.
CatchesUp ==
  \A c \in Conns :
    (HasStatus(c) /\ ~InSync(c)) ~> (~HasStatus(c) \/ InSync(c) \/ fault # "none")

\* A failed connection leaves the map, unless the process died or a lock leaked.
FailedClientRemoved ==
  \A c \in Conns :
    (conn[c] = "closed" /\ c \in wsClients)
      ~> (c \notin wsClients \/ fault # "none" \/ LockLeaked)

==============================================================================
