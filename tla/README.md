# A verification project for mqtt_home_automation

TLA+ modules, TLC configurations and TLAPS proofs kept beside the Go programs of
this repository. Paths below are relative to the root of the repository.

## 1. The system

Four programs that are deployed together, and the pages two of them serve.

### home-automation-server (`cmd/home-automation-server/`)

Connects MQTT devices to browsers.

* **Status hub** (`mqtt.go`, `web.go`, `structs.go`). State: `deviceStatus` (the last
  status of every configured device), `mqttLog` (the last messages, newest first),
  `wsClients` (the WebSocket connections), and one `sync.RWMutex` for each.
  Operations: the MQTT callbacks log every message (`addMQTTLogEntry`) and apply those
  on a status topic (`handleStatusUpdate`); both broadcast to all connections *with the
  mutex of the data still held*; `handleWebSocket` registers a connection, sends it
  every status and then the log, reads until the connection fails, and unregisters;
  `handleControl` publishes and logs what it published; `handleStatus` and
  `handleMQTTLog` encode the state under a read lock. Hard: goroutines of three kinds
  share all of it; a broadcast deletes failed connections from a map it only has a read
  lock for; a snapshot writes to connections the broadcasts also write to, which can lose a
  message on a connection that stays open; a panic is
  recovered in an HTTP goroutine, leaks a lock in a snapshot and ends the process in the
  MQTT client's goroutine. Correct when: no browser misses or reverts a status, and every
  log entry arrives, but for what two such writes tear; no connection is registered too long or too short, and everything
  that starts to wait for a lock gets it.
* **MQTT session** (`mqtt.go:12-153`, `main.go`). State: the connection, the
  subscriptions at the broker, the callback the client has for each topic, the retry
  count. `main` connects with retries, initialises the statuses and subscribes; the
  `OnConnect` handler of every connection subscribes as well, in a goroutine of its own;
  the client reconnects by itself (`reconnectMQTT` only waits and logs). Hard: `main` and
  the handlers of several connections subscribe to the same topics at the same time, and
  every subscription replaces a callback and makes the broker send retained statuses
  again; what arrives before the initialisation is dropped; a connection is lost with what
  is on the way; what a reconnect does not subscribe again. Correct when: in the end every
  device shows its latest status, none goes back to an older one in between, and the
  connection is established or given up as configured.
* **Configuration** (`config.go`), **local commands and statistics** (`localcmd.go`),
  **templates** (`web.go:15-62`): sequential, without shared mutable state.
* **Dashboard** (`web/static/js/app.js`). State: the WebSocket and its reconnect timer,
  the log shown, the controls. Hard: the log is fetched *and* sent; answers of fetches
  are not ordered.

### mqtt_listener (`cmd/mqtt_listener/`)

Runs a configured command for a message on `<base>/<name>` and publishes its result on
`<base>/<name>/status`; a message on `<base>` itself asks for the status, which goes to
`<base>/status`. In legacy mode every message on `<base>` runs the one command, whose result
goes to `<base>/status`. State: the connection, the subscriptions, the message that the
callback handles, and what is queued before and behind it. Hard: the callback runs the
command, publishes and waits for the broker's acknowledgement, which is read behind messages
that nobody reads while the callback waits; the reply topic can match the program's own
subscription; a subscription that fails ends the process, although the client would
reconnect. Correct when: the program does not answer itself for ever, and every request it
holds is answered or the process is known to be stuck or gone.

### command_runner_server (`cmd/command_runner_server/`)

A page of buttons that run commands. State: the last output (10 KB), the configuration
and the templates, the modification times of the watched files. Hard: the output is an
entry of a map without a lock, which requests read, append to and cut in separate accesses;
the watcher loads the configuration while handlers use it, and remembers modification times
separately from what it loaded. Correct when: outputs are never mixed, and a request that
meets no other loses nothing; a page never mixes two configurations, and a change of a
watched file is loaded, however it falls between the checks and the loads.

### serial_expect (`cmd/serial_expect/`)

Runs a script of send, expect, monitor and try commands against a serial port, or, with
`-dry-run`, against a captured text. State: what has been received and how much of it
each of the three goroutines has seen (`readSerial`, `executeScript`,
`executeScriptWithTimeout`), the command being executed (of the program, or of the main
or the except script of a try block), the timers of the script, of an expect and of a
monitor. Hard: characters arrive while timers run; a try is attempted again with what the
first attempt left behind; scripts are looked up by name twice, in different maps. Correct
when: the script never runs ahead of the device, misses nothing that was received, sends
nothing twice, and ends.

### Deployment (`scripts/`, `debian/`, `init/`, `configs/`)

Shell scripts, service units and sample data.

## 2. What is modelled

| Module | Models | Extends |
|---|---|---|
| `RWMutex` | `sync.RWMutex`: who writes, who reads | |
| `StatusHub` | the status hub | `RWMutex` |
| `StatusFeed` | what a browser may rely on: an abstract feed | |
| `MCStatusHub` | symmetry for TLC | `StatusHub` |
| `StatusHubProofs` | theorems about `StatusHub` and `StatusFeed`: the statuses, the log, the map of clients, and what reaches the browsers | `StatusHub`, `TLAPS` |
| `MqttSession` | the server as a client of the broker | |
| `MqttListener` | mqtt_listener, its client and the broker | |
| `CommandOutput` | the output of command_runner_server's commands | |
| `MqttSessionProofs`, `MqttListenerProofs`, `CommandOutputProofs` | theorems about the three | the module, `TLAPS` |
| `ConfigWatcher` | the configuration of command_runner_server and its watcher | `RWMutex` |
| `ConfigWatcherProofs` | theorems about `ConfigWatcher` | `ConfigWatcher`, `TLAPS` |
| `Patterns` | the patterns of an expect command | |
| `SerialExpect` | the execution of a serial_expect program | `Patterns` |
| `DryRun` | `executeDryRun`, an algorithm on a captured text, beside the real run | `SerialExpect` |
| `ScriptConfig` | which scripts and try blocks a run executes | |
| `SerialExpectProofs`, `ScriptConfigProofs` | theorems about the two | the module, `TLAPS` |
| `DryRunProofs` | theorems about a dry run and the real run of the same text | `DryRun`, `SerialExpectProofs` |
| `MCMqttSession`, `MCMqttListener`, `MCCommandOutput`, `MCSerialExpect`, `MCDryRun`, `MCScriptConfig` | topics, commands, sizes, programs, alphabets and configurations for TLC | |

### StatusHub

One action per critical section or per write, so that goroutines interleave wherever the
code lets them.

| Code | Actions |
|---|---|
| the callbacks of `subscribeToStatusTopics`, `subscribeToAllMessages`, `onMQTTMessage` | `Receive`, `NextJob` |
| `addMQTTLogEntry` up to its broadcast | `AddLogEntry` |
| `handleStatusUpdate` up to its broadcast | `UpdateStatus`, `NotAnObject` |
| `broadcastUpdate`, `broadcastMQTTLog` and the deferred unlocks | `BeginBroadcast`, `BroadcastTo`, `DeleteClient`, `EndBroadcast` |
| `WriteJSON` | `BeginWrite` ... `Delivered`, `Lost`; two at once: `Torn`, `WriterClosed` |
| `handleWebSocket` | `Connect`, `Register`, `BeginSnapshot`, `SendTo`, `EndSnapshot`, `Unregister` |
| `handleControl` | `Control`, then as a message |
| `handleStatus`, `handleMQTTLog` | `BeginGet`, `EndGet` |
| the runtime's map check, gorilla's writer check | `MapFault`, `CallbackPanic`, `HttpPanic`, `SnapshotPanic` |

The library code the repository does not contain is modelled from how `src` uses it and
is marked external: paho calls the callbacks one after the other in one goroutine (its
default, which `connectMQTT` does not change); a gorilla connection allows one concurrent
writer; a Go map may end the process when a `delete` overlaps
another access; `net/http` recovers a panic of a handler and runs its deferred calls.

Two `WriteJSON` calls on one connection overlap, because a snapshot and a broadcast share
no lock (nor do a broadcast of the log and one of a status). The call that begins closes the
writer of the other, and both fill one buffer: the frame of either may go out empty, cut
off or mixed, and the call whose writer was closed returns an error. What follows depends
on who it is. A snapshot drops the error (`web.go:84`, `95`), and the browser, whose
`JSON.parse` fails (`app.js:156`), keeps the connection: the message is lost on an open
connection (`Torn`; so is a broadcast's, if its call returns no error). A broadcast takes
the error for a failure of the client, closes it and deletes it (`WriterClosed`). Or gorilla
notices the two writers and panics. Of these, either call may also go through
(`Delivered`). Not modelled is one frame that parses and carries the text of the other
message.

A status is a record of message numbers: the message its fields come from and the
message its `"value"` comes from, because an object replaces the whole status and other
text only its `"value"`. A log entry is the number of its message. The last status of
each device that a browser was shown (`view`) and how often it was shown each entry
(`got`) are what a browser has observed. `overlapped` are the goroutines whose connection
another one has written to meanwhile, and `missed` what the browser of an open connection
was not shown for that reason, until a later message on the same device makes up for it. A failed publish changes nothing and is left
out, as are the timestamps, the topic texts and the logging.

Actions that take a mutex, change data and go on holding it are one step; a section
that only inserts into or deletes from `wsClients` and releases the mutex (`Register`,
`Unregister`) is one step guarded by the mutex being free, because nobody can see its
middle. A blocked writer does not block new readers in the model; that `sync.RWMutex`
never starves a waiting goroutine is the strong fairness below.

### StatusFeed

The abstract specification: subscribers `Join` in sync, a status is `Publish`ed only when
all subscribers show the current one, `Deliver`y brings one device of one browser up to
date, and `Tear` loses a status on its way to one browser. It has no locks, no connections
and no snapshots. `StatusHub` implements it with
`live` as the connections that have received their status snapshot; this is what the
broadcast under `statusMutex` is for.

### MqttSession

| Code | Actions |
|---|---|
| `connectMQTTWithRetry`, `connectMQTT` | `Connect`, `ConnectFails`, `Sleep`, `GivesUp` |
| `initializeDeviceStatus`, `main` | `Initialize` |
| `subscribeToStatusTopics`, `subscribeToAllMessages`, in `main` and in `OnConnect` | `Skip`, `Subscribe`, `Granted`, `NotGranted` |
| the callbacks, up to the hub | `HandleStatusUpdate` |
| the client's reconnect | `Reconnect` |
| the network, the broker, the devices | `Outage`, `Restored`, `Publish`, `Retained` |

External, as `paho.mqtt.golang` 1.5.0 (`go.mod`) does it: a topic has one callback, the one
of the latest subscription; callbacks run one after the other; before a reconnection the
subscriptions that are waited for fail, and the callbacks of what has arrived are run; a
session is clean, so the broker has forgotten the subscriptions. Statuses are retained, as
devices that announce themselves do, so each subscription brings the latest one again.
A status is the number of its publication; what the hub does with it is `StatusHub`'s.
Several connections may have handlers at the same time, and a handler outlives its
connection.

### MqttListener

| Code | Actions |
|---|---|
| `main` up to the signal | `Connect`, `Shutdown` |
| `OnConnect` | `Subscribe`, `Granted`, `NotGranted` |
| `handleMessage`, `executeCommand` | `HandleMessage`, `Executed`, `PublishReply`, `ReadAck` |
| the client | `ReadMessage`, `ReadAck`, `Lose`, `Reconnect` |
| the broker and its other clients | `BrokerReceives`, `Request` |

A message knows the request it comes from and how many replies led to it (`echo`). The
client holds `Window` messages besides the one its callback has, and reads nothing further
while they are full; a reply is published with QoS 1, and `token.Wait()` is the state
"waiting". A reply and its acknowledgement come back in either order. Without a connection a
publication is stored for the next one. `Stuck` names what the code runs into: the
acknowledgement was lost, or is behind messages that are not read. Commands end; payloads,
the forwarding of output to URLs and the parsing of the two configuration forms are left
out.

### CommandOutput

| Code | Actions |
|---|---|
| `commandOutputs["latest"] += output` | `ReadOld`, `AppendText` |
| `if len(...) > maxOutputSize` | `CheckSize` |
| the cut to the last bytes | `ReadWhole`, `ReadLength` in either order, `StoreCut`, `Panic` |
| the runtime's map check | `MapFault` |

Go does not fix the order in which the operands of the cut are read, so both are possible.
Requests call `appendOutput` when their command has ended; what it printed is a constant.

### ConfigWatcher

| Code | Actions |
|---|---|
| `loadConfig` | `LockConfig`, `ReadConfig`, `ListPages`, `ParsePage`, `Commit`; `LoadFails` for each early return |
| `startFileWatcher`, `checkForChanges`, `initFileWatcher` | `Ticked`, `GetWatchedFiles`, `Stat` (one file), `Checked` |
| `homeHandler` | `BeginHome`, `EndHome` |
| the file system | `Write` |

`initFileWatcher` is `checkForChanges` with nothing recorded yet and its answer ignored,
so both are the same actions, and `serving` tells them apart. A file is its version and
whether it parses; the version is also the modification time, so every write has a later
one than all before it (two writes within the resolution of the clock, and an older file
moved into place, are outside the model). Files may appear, but are not deleted. Style
sheets and scripts, whose changes only cause another load, are left out.

### Patterns, SerialExpect, DryRun, ScriptConfig

| Code | Actions and operators |
|---|---|
| `parseExpectPattern`, `checkMatch`, `checkDryRunMatch` | `Anywhere`, `LineStart`, `Regex`, `BadPattern`; `Matches`, `DryMatches` |
| `readSerial` | `ReadSerial`, for a device that may `Emit` anything; `AsString`, `Converted` |
| `executeScript` | `Success`, `Return`, `EndScript` |
| `handleTry` | `BeginTry`, `Failure`, `EndAttempt`, `EndExcept` |
| `handleSend`, `handleExpect`, `handleMonitor` | `HandleSend`, `BeginExpect`, `BeginMonitor`, `Receive`, `TimerFires` |
| `executeScriptWithTimeout`, `main` | `Limit`, `ScriptReturned`, `ContextDone` |
| `executeDryRun` | `ExecuteDryRun` with `DryCommand`, `DryExpect`, `Skip` and, for the script of a try, `DryTry`, `DryScript`, `DrySubcommand` |
| `selectScripts`, `parseTryBlock`, the lookups of `handleTry` | `SelectScripts` with `AllValid`, `Known` and `Unit` (what the map `scriptMap` holds, in closed form); `TryBlock`, `NamedScripts`, `LookedUp` |

What the device has sent is one sequence, `rx`, with two marks in it: what `readSerial`
has put into the channel, and what the script has taken out. The buffer of an expect and
its current line are what follows the place where it began (`from`); `Matches` is a
function of that text. A command is named by its `place`: the command of the program, and
inside a try the script, the attempt and the command of the script. In a try, `break`
leaves the `switch` and not the loop, so `Failure` goes on with the next command, and a
later error replaces an earlier one; `errors` remembers them all.

A text is a sequence of bytes over a small alphabet with a newline, a blank, an upper-case
letter and bytes from `0x80` on (`Wide`); a regular expression is a text with or without
anchors. `readSerial` sends `string(char)` of every byte (`main.go:649`), which is the
character with the number of the byte: a `Wide` byte becomes the two bytes of its UTF-8
(`AsString`). `rx` holds the bytes the device sent; what an expect matches is `Converted`
from those it has taken, and what a dry run matches are the bytes of the file as they are.
Left out: characters beyond ASCII that `strings.TrimSpace` removes (U+0085, U+00A0 and
other spaces) or whose lower case is an ASCII letter (U+0130, U+212A), and operators of
regular expressions such as `.`, which count characters where the conversion changes
their number. Programs are constants:
`parseScript` turns lines into them one by one. Time is a counter, and a timer may fire
any time after it is due. The text that is sent is not modelled, only which command sends.

The lines of a captured text are named by what is before them (`LineNames`), so that
`lineIndex` is a place in the text, and the dry run can be compared with what the real run
has consumed. `ExecuteDryRun` is the state of the dry run after each command, a function
of their number: `line` is the next line, `ok` that it goes on, `found` that every pattern
was found (a pattern of a try that is not found is logged and passed over).

## 3. What is checked

| Run | Instance | Properties |
|---|---|---|
| `callback` | 2 connections, 1 device, 2 messages, log of 1 | `NoLostUpdate`, `LogDelivered`, `Registry`, `ImplementsFeed` |
| `races` | 1 connection, 1 device, the callbacks and 1 HTTP goroutine, 2 messages, with fairness | `TypeOK`, `NoCircularWait`, `LogDelivered`, `HandlerChangesMapAlone`, `Finished`, `CatchesUp`, `FailedClientRemoved` |
| `records` | 1 connection, 2 devices, 3 messages, log of 2 | `LogNewestFirst`, `NeverGoesBack` |
| `payload` | 1 connection, 1 message | `FallsBackToString`: **violated** |
| `session` | 2 devices in 3 configurations, 2 publications, 2 outages, with fairness | `TypeOK`, `Current`, `LogsAllAtFirst`, `StatusNeverGoesBack`, `Settles`, `GivesUpInTime` |
| `listener` | both modes, 2 sets of commands, 3 topics, 3 requests, window of 2, 1 outage, with fairness | `TypeOK`, `EchoesEnd`, `Answers`, `Listens` |
| `output` | 3 requests of 1, 2 and 4 bytes, limit of 3 | `TypeOK`, `TextsWhole`, `AloneAppends` |
| `reload` | 2 directories, 2 templates, 1 request at a time, 2 writes, with fairness | `TypeOK`, `PagesAreWhole`, `ReloadIsDue`, `IInv`, `Reloads` |
| `auto` | the same | `AutoReload`: **violated** |
| `programs` | 10 programs, 3 bytes of 4, 3 units of time, with fairness | `TypeOK`, `NeverAhead`, `NothingMissed`, `SentOnce`, `ExceptIsFinal`, `Ends`, `MonitorIsExtended` |
| `dryrun` | 106 programs, all texts of up to 4 of 7 bytes | `DryRunIsKept` |
| `scripts` | all configurations of up to 2 scripts and 2 try blocks, 3 command lines | `PlainReferencesExist` |

### The hub

The properties are aimed at these dangers:

* `NoLostUpdate`, `NeverGoesBack`, `ImplementsFeed`: an update falls between the
  registration of a browser and its snapshot, overtakes the snapshot, or is not sent to
  the browsers after one that failed.
* `LogDelivered`: the same for the log, where snapshot and broadcast may both send an
  entry: at least once, at most twice, unless a recovered panic cut the broadcast short.

  `NoLostUpdate`, `LogDelivered`, `ImplementsFeed` and `CatchesUp` except what is in
  `missed`: a status or an entry whose last frame to this browser was torn by an overlapping
  write. This is the one way in which the code loses a message on an open connection, and
  the four properties say that it is the only one. A torn status is shown again with
  the next one of its device; a torn entry never is, unless the broadcast or the snapshot
  also sends it.
* `Registry`, `FailedClientRemoved`: two parties delete connections.
* `HandlerChangesMapAlone`: the write lock separates a handler's change of the map
  from the broadcasts. That broadcasts are *not* separated from each other is modelled
  (`MapFault`) and is one of the ways for the process to end.
* `LogNewestFirst`: the log at its limit.
* `NoCircularWait`: three mutexes taken in different orders; a handler that kept `wsMutex`
  while it sends its snapshots (a deferred unlock) would be enough for a deadlock, and is
  the mutant of this property.
* `Finished`, `CatchesUp`: the same mutexes, by goroutines that
  may fail while they hold them.

The bound `MaxMessages` limits the messages and control requests of a behaviour; two are
enough for a message to overtake, overwrite and displace another one and three for a log
of two entries to be trimmed. Two connections are enough for the failure of one to
disturb the other (the connections are interchangeable, hence the symmetry). The races
between a broadcast of the callback and one of a request need one connection only.

**Fairness.** Goroutines are scheduled, and a write to a socket returns (weak fairness);
a goroutine that waits for a mutex gets it although others take it in turns, which is
what `sync.RWMutex` does (strong fairness). Nothing is assumed of the broker and the
browsers. The process may end with a fault, and a handler may leak a read lock; the
liveness properties say so explicitly (`fault`, `LockLeaked`), and no further: `CatchesUp`
holds even behind a leaked lock. A browser that neither reads nor closes blocks a
broadcast for as long as it likes, because the code sets no write deadline; that is
outside the fairness and therefore outside these properties.

**Disagreement found** (run `payload`). The comment in `handleStatusUpdate` says "Try to
parse as JSON, fallback to string". A payload such as `21.5`, `true` or `null` parses as
JSON, and the type assertion after it panics in the MQTT client's goroutine, which
nothing recovers.

### The MQTT session

* `Current`: once nothing is on the way, each device shows the latest status published on
  its topic. In between a status is dropped because its device has no entry yet, lost with
  a connection, or handed to a callback that is about to be replaced; only the subscriptions
  that follow, with the retained status, make up for it.
* `StatusNeverGoesBack`: statuses are sent again with every subscription, by `main` and by
  handlers of connections old and new, and none of these copies overwrites a newer one. An
  initialisation with every connection would.
* `Settles`, `GivesUpInTime`: with the broker reachable in the end the session settles;
  without it `main` ends after exactly `maxRetries` attempts, and never with 0.
* `LogsAllAtFirst`: with `-log-all-mqtt` the wildcard is subscribed while the first
  connection lasts.

Two outages let a handler of the first connection meet one of the third; two publications
let one overtake or replace the other. The configurations are two devices with topics of
their own, two that share one, and one without a topic besides the wildcard. Assumed:
goroutines run, and a broker that can be reached answers; nothing of the network or the
devices.

Not confirmed, and without a run of their own: the flag's help (`main.go:16`), "Log all MQTT
messages using wildcard subscription", is true of the first connection only, because the
`OnConnect` handler (`mqtt.go:59-63`) subscribes to the status topics alone. Of devices that
share a `statusTopic` only the last gets statuses (`LastOfTopic`); nothing says whether they
may.

### mqtt_listener

* `EchoesEnd`: in XML mode the filter `<base>/+` matches `<base>/status`, so a reply to a
  request for the status comes back; it is answered on `<base>/status/status`, which does
  not match, even if a command is named `status`. No other reply comes back, however the
  topics and the connections change.
* `Answers`: whatever the client holds is answered, although replies wait for
  acknowledgements that are read behind further messages.
* `Listens`: every reconnection ends with both subscriptions.

Both liveness properties exclude that the process has ended and that the callback is
`Stuck`, and both exceptions are reached. With a window of two, three requests are enough for
an acknowledgement to be behind a message that is not read. One outage lets a connection be
lost in every state of the callback and of the handler; a failed subscription is then
`log.Fatalf` (`main.go:329`), where the client alone would have reconnected. Assumed:
goroutines run, commands end, the broker answers and connections are restored.

### The output of commands

* `TextsWhole`: whatever a race loses, what is shown is made of whole texts of different
  requests, of which only the first may be cut. It would not hold if the cut, whose string
  and length may belong to different versions, could start elsewhere than at the front.
* `AloneAppends`: a request that meets no other one in `appendOutput` leaves exactly the end
  of the old output and its text, and does not panic.

Three sizes, one above the limit, make every combination of texts that fit and do not fit.
The run assumes no fairness. Requests that do meet may lose texts, panic, or exceed the
limit until the next request: the comments "Execute command synchronously so output is
available immediately" (`main.go:118`) and "Keep only last 10KB of output" (`main.go:247`)
hold of a request that is alone.

### The configuration watcher

`ReloadIsDue` relates what is loaded, what is on the disk and what has been recorded: if
they differ in a way a load would repair, a load is in progress or the next check will
lead to one. The danger is in the order (recorded, then loaded, each file by file, while
files are written), in loads that fail after the times were recorded, and in the
directory that a configuration names. `Reloads` adds that the load comes. `PagesAreWhole`
is what the read lock of `homeHandler` is for. Two writes after the first versions are
enough for a file to change between a look at it and the load, and for a load to fail and
be repaired. The watcher is scheduled, a page is written in the end, and a waiting
`Lock` is not starved (`sync.RWMutex` blocks later readers).

**Disagreement found** (run `auto`). The server announces "File watching enabled - server
will auto-reload on changes". At the start the order is reversed: `main` loads, and
`initFileWatcher` records afterwards, so a change in between is never loaded. The other
exception `ReloadIsDue` makes (its last conjunct) is real as well: after a configuration
that names another directory failed to load because of a template there, repairing the
template is not noticed, because only the directory of the loaded configuration is
watched.

### serial_expect

* `NeverAhead`: what has been received can be cut into pieces, one for each command of the
  program before the current one and in their order, that satisfy what these commands (of
  a try, the commands of its script) were waiting for: the script never sends before it
  was asked. It holds although an expect stops at the first character that completes a
  match, attempts leave characters behind, and timeouts race with characters.
* `NothingMissed`: an expect that waits for a pattern in ASCII has not been sent it already,
  whatever bytes are around it: what the conversion makes of those neither hides nor breaks
  it. (`NeverAhead` speaks of the converted text, which is what the commands waited for.)
* `SentOnce`, `ExceptIsFinal`: attempts and except scripts of a try.
* `Ends`: whatever the device sends or does not send, and with monitors that can never be
  satisfied. Assumed: goroutines run, and time passes.
* `MonitorIsExtended`: a monitor of the program itself, first or last, is not cut off by the
  ordinary timeout.
* `DryRunIsKept`: a dry run matches whole lines and drops the rest of a line, the real run
  matches prefixes of lines and continues inside them; nevertheless every text that
  passes the dry run gets the real program through its patterns. The dry run says nothing
  of a monitor that waits for time or for more lines than it shows, nor of a second attempt,
  nor of patterns beyond ASCII, which it finds and the real run does not (`Comparable`;
  the text may have any bytes). One exception is in the code: a dry run looks at an empty line, at the
  end of every file that ends with a newline for example, and `handleExpect` looks at what
  it has received only when a character arrives. A program of one `expect /^$/` passes
  the dry run of an empty file and waits for a device that sends nothing; the property
  therefore excepts patterns that an empty line matches, and no others. No timer fires in
  this run.
* `PlainReferencesExist`: names may be missing, repeated or shadowed; as long as scripts
  are named and try blocks refer to scripts, whatever is accepted can be executed.

The programs are those of `configs/`, reduced, and each construct with its failures. Three
bytes are enough to match, to miss and to leave something behind; a channel of two
is full while nothing reads it. `DeviceBytes` are the bytes the device sends: in `programs`
one of them begins a character beyond ASCII, in `dryrun` two make up one (U+00C2), and each
run has a program that expects it.

**Disagreements met while modelling**, without runs of their own. "Return the original error
from the main script" (`main.go:768`): the first failure does not end the attempt, because
`break` (698, 703, 708) leaves the `switch` only, and the error of a later command replaces
it. "If we have monitor commands, use a much longer timeout" (313): only the commands of the
program itself are looked at (306-311), so a monitor inside a try runs under the ordinary
timeout, which is why `MonitorIsExtended` speaks of the others. "Validate that referenced
scripts exist" (200): the default name of an unnamed script and the name of an earlier try
block are accepted, and then not found (562-569), which is why `PlainReferencesExist` speaks
of plain configurations. "Case-sensitive match at start of current line" (952) is relative
to where the expect began; after an expect that matched inside a line, a double-quoted
pattern matches in the middle of it (`Matches` models it as it is).

And one about characters. "char is a string of length 1" (812) is false of every byte from
`0x80` on, of which a monitor logs the first byte of two. An expect fares worse:
"case-insensitive anywhere in stream" (922) does not hold of a pattern beyond ASCII. A device
that sends `é` sends `C3 A9`; the expect receives `Ã©`, and `expect 'é'` times out. A dry run
matches the bytes of its file (371, 401) and finds `é`, so its promise is kept for patterns
in ASCII only. Nor does a pattern that the device has not sent match by mistake, unless it is
one like `Ã`, which is in the converted text of any `é`.

## 4. What is proved

### StatusHub

`StatusHubProofs` proves, for every finite or infinite set of devices, requests and
connections, every size of the log and every bound on messages:

| Theorem | Statement |
|---|---|
| `TypeCorrect` | `Spec => []TypeOK` |
| `NoUpdateIsLost` | `Spec => []NoLostUpdate` |
| `RegistryIsSound` | `Spec => []Registry` |
| `HubIsAFeed` | `Spec => ImplementsFeed` |
| `Invariance` | `Spec => [](TypeInv /\ IInv)`, on which the others rest |

The only assumption is `HubAssumption` (the sets of goroutines are disjoint, the size of
the log is positive, as `loadConfig` makes it).

`NoLostUpdate` speaks of the moments when no update is in progress and is not inductive.
`IInv` adds what is true in between: `StatusLock` (who holds `statusMutex` at which
place), `FreshInv` (a browser with its snapshot shows the current status of each device,
except the one being broadcast while the broadcast has yet to reach it; a browser in its
snapshot, except what the snapshot has yet to send), `SendingInv` (what is being written
is still current when the write ends, since the lock is held all along), `Registry` and
`ClosedInv` (a broadcast reaches every open connection, and deletes failed ones only).
A device in `missed` is the exception throughout (`Shows`): `Torn` puts it there, and only
a later delivery or the end of the connection takes it out.
`TypeInv` adds to the types where each goroutine can be and for whom it works. Both are
proved action by action. `FeedStep` then maps each action
to a step of the feed: `UpdateStatus` to `Publish`, a status that is `Delivered` to
`Deliver`, a torn one to `Tear`, the end of a status snapshot to `Join`, a lost connection
to `Leave`, and
everything else to stuttering.

On this rest the theorems about the log, the map of clients and what reaches the browsers:

| Theorem | Statement |
|---|---|
| `LogIsInOrder` | `Spec => []LogNewestFirst` |
| `HandlersChangeMapAlone` | `Spec => HandlerChangesMapAlone` |
| `LogIsDelivered` | `Spec => []LogDelivered` |
| `ViewsNeverGoBack` | `Spec => NeverGoesBack` |
| `NobodyWaitsInACircle` | `Spec => []NoCircularWait` |
| `LogInvariance` | `Spec => [](TypeInv /\ ReadersInv /\ LogNewestFirst /\ LogInv)` |
| `DeliveryInvariance` | `Spec => []DeliveryInv` |
| `OrderInvariance` | `Spec => []StatusOrder` |
| `HoldersInvariance` | `Spec => [](TypeInv /\ HoldersInv)` |

A log in order stays in order only if what is logged next is new: `LogInv` adds that the
messages on their way to the log differ from those in it and from each other, and are later
if the callback alone logs (`AddKeeps`, from the lemma `PrependIs` about the trimmed log).
`ReadersInv` says that whoever ranges over the clients is among the readers of `wsMutex`.

`LogDelivered` counts what a browser got of each entry, at the moments when nobody holds the
write lock of the log. `DeliveryInv` follows the entries in between. Whoever has an entry in
the log and still to broadcast holds that lock, and no two workers log the same message
(`LogLock`, `IdsInv`); what is being written is not due again (`OnceInv`). So a browser gets
an entry twice at most, once while its broadcast or its snapshot is still to come, and not
at all while both are (`CountInv`). `SentInv` is the other half: a browser that has its log
snapshot, or is being sent it, has every entry of the log, or it is still to come from the
snapshot or from the broadcast, or its broadcast was cut short (`aborted`), or its last
frame was torn (`missed`).

`NeverGoesBack` compares two states. `StatusOrder` is what makes each step safe: statuses are
applied in the order of their messages, and no browser is shown more than the device's
current status, which is what every step that changes a view sends, since `statusMutex` is
held while it is sent (`SendingInv` above).

`NoCircularWait` says of every set of goroutines that one of them waits for no mutex that
one of the set has. `HoldersInv` says who has which: `wsMutex` only those who range over the
clients (a handler's write lock lasts one step), each of the other two the worker that
changed what it guards and broadcasts it, the requests that encode it, and the handlers that
send it or died doing so. So whoever has `wsMutex` waits for nothing, and whoever has another
waits at most for `wsMutex` (`LocksAreOrdered`): a circle would need both. The theorem does
not say that every wait ends. A lock leaked by a handler that died is waited for forever
(`LockLeaked`), and that the waits end otherwise is `Finished`, which stays with TLC.

### ConfigWatcher

`ConfigWatcherProofs` proves, for any directories, templates, requests and number of
writes, from `WatcherAssumption` (there is a directory and a template, and the watcher is
no request):

| Theorem | Statement |
|---|---|
| `ChangesAreNoticed` | `Spec => []ReloadIsDue` |
| `PagesNeverMix` | `Spec => []PagesAreWhole` |
| `TypeCorrect` | `Spec => []TypeOK` |
| `WatcherInvariance` | `Spec => [](TypeOK /\ IInv)`, on which the others rest |

`ReloadIsDue` says nothing of a load in progress and is therefore not inductive. `DraftInv`
adds that what a load has read so far lies between what was recorded and what is on the
disk: when it is committed (`DueCommit`), whatever is out of date is newer than recorded.
A load that fails (`DueFails`) fails because the disk is not good, or because the
configuration was replaced after it was read, and then that one is newer. A write
(`DueWrite`) is newer than everything, or concerns a directory nobody uses.

### MqttSession

`MqttSessionProofs` proves, for any topics, configurations, number of publications and
number of outages, from `SessionAssumption` (finitely many topics, and no topic is named as
the wildcard or as none):

| Theorem | Statement |
|---|---|
| `StatusesNeverGoBack` | `Spec => StatusNeverGoesBack` |
| `FirstSessionLogsAll` | `Spec => []LogsAllAtFirst` |
| `SettledIsCurrent` | `Spec => []Current` |
| `TypeCorrect` | `Spec => []TypeOK` |
| `SessionInvariance` | `Spec => []IInv` |
| `ControlInvariance` | `Spec => []ControlInv` |
| `CurrentInvariance` | `Spec => [](IInv /\ ControlInv /\ CurrentInv)` |

What a device shows says nothing about the next message, so the invariant is about what is
on the way: the messages of a topic are in the order of their publication, none is newer
than the latest one, and what a device shows is not newer than what is on the way to it. A
granted subscription appends the latest status of its topics (`Retained`), which keeps the
order; a connection that is lost cuts the queue, which does as well; and a callback of a
topic belongs to a device of that topic, whoever has registered it. `WildcardInv` follows
`main` through its subscriptions while the first connection lasts.

`Current` speaks of a session at rest: every handler is through and nothing is on its way.
`CurrentInv` says how it gets there, for the last device of each topic: once no handler has
its subscription still to make, its callback is the one of the topic (`Registered`), and
once every subscription of it is answered, the topic is subscribed and the latest status is
shown or on its way (`Subscribed`, `Informed`). What makes this inductive is that nobody is
forgotten: whenever a connection begins, a subscriber of its own begins with it at the
first filter (lemma `Beginning`), which needs that no earlier step has used that
subscriber up. `ControlInv` says so (`SubscribeInv`), and bounds the connections by the
outages (`ConnInv`) and the attempts by the configuration (`AttemptInv`); it is also what
`TypeCorrect` rests on.

### MqttListener

`MqttListenerProofs` proves, for any sets of commands and topics, window, number of requests
and number of outages, from `ListenerAssumption`:

| Theorem | Statement |
|---|---|
| `ListenerTypes` | `Spec => []TypeOK` |
| `EchoesAlwaysEnd` | `Spec => []EchoesEnd` |
| `ListenerInvariance` | `Spec => []IInv` |

`EchoInv` says that every message which is held, handled or on its way is a request or the
echo of a request for the status, and that a reply is one to such a message: a reply is one
level deeper than what it answers, and only messages of at most one level are sent back
(`Matched`). `AckInv` bounds the acknowledgements: at most one is on its way, and then the
callback waits. `SubsInv` says that legacy mode never subscribes to `<base>/+`, and that a
handler which waits is at a subscription.

### CommandOutput

`CommandOutputProofs` proves, for any requests, sizes and limit, from `OutputAssumption`
(sizes and the limit are positive):

| Theorem | Statement |
|---|---|
| `OutputTypes` | `Spec => []TypeOK` |
| `TextsStayWhole` | `Spec => []TextsWhole` |
| `AloneAppendsAll` | `Spec => AloneAppends` |
| `OutputInvariance` | `Spec => []IInv` |

`TextInv` says of every string that a request has read what `TextsWhole` says of the one that
is shown, and that a request which has yet to append is in none of them: appending a text to
an unmixed string without it, and cutting an unmixed string at the front, leave it unmixed.
`AloneInv` says that while a request is alone, what it has read is what the map holds.

### SerialExpect

`SerialExpectProofs` proves, for any programs, patterns, alphabet with a conversion of its
wide bytes, timeouts, capacity of the channel and number of bytes, from
`ProgramsAssumption` (the scripts of a try contain no try, because a `<script>` is text that
`parseScript` knows no try in), `TimeAssumption` and `AlphabetAssumption` (a wide byte becomes two wide bytes; newline and blank are ASCII, and
lower case does not lead into or out of ASCII):

| Theorem | Statement |
|---|---|
| `ScriptTypes` | `Spec => []TypeOK` |
| `NothingIsMissed` | `Spec => []NothingMissed` |
| `SentOnlyOnce` | `Spec => []SentOnce` |
| `ExceptIsTheLast` | `Spec => []ExceptIsFinal` |
| `MonitorsAreExtended` | `Spec => MonitorIsExtended` |
| `ScriptIsNeverAhead` | `Spec => []NeverAhead` |
| `ScriptInvariance` | `Spec => []IInv` |
| `AheadInvariance` | `Spec => [](IInv /\ AheadInv)` |

`ControlInv` says that the place is one of the program, of an attempt that may be made;
`ErrorsInv` that the errors are those of this attempt, and that the except script runs with
those of the last; `SentInv` that everything sent is `Later` than what was sent before it
and earlier than the current place. Each action of the script keeps the first two and moves
to a later place or none (`Kept`), and since `Later` is transitive (`LaterTransitive`),
`SentInv` follows.

`NothingMissed` speaks of the bytes, and the expect looks at what is made of them. The text
converted is the text with each wide byte replaced by two of which none is in ASCII
(`ConvertedIs`, by `ConvertedBy`: where the strings of the bytes begin and what is in them). An
occurrence of an ASCII pattern in the bytes has no wide byte in it, so it stands unbroken in
the converted text (`OccursConverted`); lines (`LineConverted`), blanks to be trimmed
(`StartConverted`) and lower case (`FoldConverted`) go with it. Hence a match of the bytes is a
match of the strings (`PlainMatches`), and the expect, which ends with the first of these, has
not passed one of those. `PatternInv` adds that what is waited for is a pattern at all.

`NeverAhead` asks for a cut of the text and does not say how a step extends it. `AheadInv`
has the cut of the commands before the current one (`Reach`), and what else there is: of a
script of a try that had no error in this attempt, the commands executed so far are served by
the text after that cut (`InOrder`); after an error nothing is claimed, and the next attempt
begins where the last one ended. A command that succeeds extends the one or the other
(`OneMoreInOrder`); a try that ends without errors turns the cut of its script into one piece
of the cut of the program. That a piece matches comes from the match that ended the command
(`NothingIsMissed` tells where it began).

### DryRun

`DryRunProofs` proves, for the same constants and any number of lines that a dry run shows
for a monitor (`ShownAssumption`: at least one):

| Theorem | Statement |
|---|---|
| `DryRunKeepsItsPromise` | `Spec => []DryRunIsKept` |
| `PaceInvariance` | `Spec => [](IInv /\ CountInv /\ PaceInv)` |

`DryRunIsKept` compares the two runs of a text that has been sent to its end. What holds on
the way must speak of texts that are not known yet: `PaceInv` says, of every text that
begins with what has been consumed and whose dry run finds everything, that the current
command began at or before the line at which the dry run has it begin. So the real run is
never behind with a command that has begun, and the text the dry run found its pattern in
is still to come or has been received by this command.

A command keeps the pace because it ends in time. An expect that began before the line in
which the dry run finds the pattern has received, at the end of that line, a text whose
current line is that line (`CurrentLineIs`), and a text that contains the line
(`MatchesAtTheEnd`, with the two cases of `checkMatch`); since it has not overlooked a match
(`NothingMissed`), it is over by then, and if the line is empty and nothing is received
before its end, with the newline (`EmptyLineMatches`, `MatchInTime`). A monitor that began
before the lines the dry run shows has received, with the last of them, as many lines or
more (`LinesCounted`, an injection between two sets of newlines), and `CountInv` says that
it has not gone on after its last (`EnoughInTime`). An attempt with an error claims nothing:
it is not repeated, and its except script ends the run.

What the dry run computes is a recursion over commands. The library's induction theorems
cannot be used (they take an operator), but a set of numbers that contains 0 and with each
number the next can be an assumption: `Induction` and `Descent` are proved from the least
element of a set (`Least`, from the well-foundedness of `<`). From `RunExists` follow the
equations of the two functions, step by step (`ScriptSteps`, `ExecuteSteps`), and from these
that in a dry run that finds everything each command has its line (`ScriptThrough`,
`ProgramThrough`).

### ScriptConfig

`ScriptConfigProofs` proves, for any names, configurations and arguments, from
`NamesAssumption` (what the constants are, and that there are enough default names):

| Theorem | Statement |
|---|---|
| `PlainReferencesAreFound` | `Spec => []PlainReferencesExist` |
| `SelectInvariance` | `Spec => []SelectInv` |

`SelectInv` adds that whatever is executed was validated as a whole (`AllValid`) and that a
try block which is executed is in the configuration. Where every reference is to a script,
a name that was known when its try block was validated is one of a named script, although
later try blocks may have shadowed it in `scriptMap`.

### Only model-checked

* Liveness, which is out of reach of the prover: `Finished`, `CatchesUp`,
  `FailedClientRemoved`, `Reloads`, `Ends`, `Settles`, `GivesUpInTime`, `Answers`, `Listens`.
* That the session never publishes more than `MaxPublished` messages: the guard of `Publish`
  is about a sum over all topics, a fold. It is a bound of the run and no property of the
  code, and `TypeOK` does not state it.
* The two runs that expect a violation.

## 5. Plan

1. `StatusHub`, `StatusFeed`, with proofs. *Done.*
2. `ConfigWatcher`, with proofs. *Done.*
3. `Patterns`, `SerialExpect`, `DryRun`, `ScriptConfig`, with proofs of the execution.
   *Done.*
4. `CommandOutput`, with proofs. *Done.*
5. `MqttSession`, with proofs. *Done.*
6. `MqttListener`, with proofs. *Done.*
7. `Dashboard`: WebSocket, reconnect timer and fetches against the abstract feed. *Left.*
8. Proofs of `LogDelivered` and `NeverGoesBack` of the hub, of `Current`, of `NeverAhead`,
   of `PlainReferencesExist` and of `DryRunIsKept`. *Done.*

## 6. Not modelled

* The dashboard (`web/static/js/app.js`), but for what it is sent and when it comes and
  goes: the order of its fetches and of what the WebSocket delivers is listed as a hazard.
* Parsing of XML and JSON beyond the distinction of payloads; the lines of a script become
  commands one by one, and programs are constants.
* HTML templates, the layout of the pages, themes and cookies, system statistics, and the
  local commands of the home-automation server (one `exec.Command` per request): no state
  that two steps share.
* Packaging, services and example configurations.
* `reconnectMQTT`, which waits and logs; the client reconnects by itself.
