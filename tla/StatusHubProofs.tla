---------------------------- MODULE StatusHubProofs ----------------------------
(***************************************************************************)
(* Proofs about StatusHub, for every set of devices, requests and          *)
(* connections, every size of the log and every bound on messages.         *)
(***************************************************************************)
EXTENDS StatusHub, SequenceTheorems, TLAPS

\* Who is a worker, and who is a goroutine.
LEMMA Places ==
  /\ Callback \in Workers /\ Http \subseteq Workers
  /\ Workers \subseteq Goroutines /\ Conns \subseteq Goroutines
  /\ Workers \cap Conns = {} /\ Callback \notin Http
  /\ \A g \in Goroutines : g \in Workers \/ g \in Conns
  /\ \A w \in Workers : w = Callback \/ w \in Http
BY HubAssumption DEF Workers, Goroutines

\* The operations of a lock keep it a lock.
LEMMA LockOps ==
  ASSUME NEW m \in Locks, NEW p \in Goroutines
  PROVE  /\ Lock(m, p) \in Locks /\ Unlock(m) \in Locks
         /\ RLock(m, p) \in Locks /\ RUnlock(m, p) \in Locks
BY DEF Locks, Lock, Unlock, RLock, RUnlock

\* A log that gets an entry stays a log.
LEMMA PrependType ==
  ASSUME NEW S, NEW e \in S, NEW log \in Seq(S)
  PROVE  Prepend(e, log) \in Seq(S)
<1>1. <<e>> \in Seq(S)
  OBVIOUS
<1>2. ASSUME Len(log) >= MQTTLogSize PROVE SubSeq(log, 1, MQTTLogSize - 1) \in Seq(S)
  <2>1. \A i \in 1..MQTTLogSize - 1 : log[i] \in S
    BY <1>2, ElementOfSeq, HubAssumption
  <2>2. 1 \in Int /\ MQTTLogSize - 1 \in Int
    BY HubAssumption
  <2> QED BY <2>1, <2>2, SubSeqProperties
<1>3. \A s, t \in Seq(S) : s \o t \in Seq(S)
  BY ConcatProperties
<1> QED BY <1>1, <1>2, <1>3 DEF Prepend

\* The initial values of a goroutine's variables are of their types.
LEMMA Values ==
  /\ NoJob \in Jobs /\ NoMessage \in Messages
  /\ NoJob.id = 0 /\ NoJob.kind = "log" /\ NoJob.device = NoDevice
  /\ \A k \in Kinds : [NoJob EXCEPT !.kind = k] \in Jobs
  /\ "text" \in Forms /\ "status" \in Kinds /\ "log" \in Kinds
BY HubAssumption DEF NoJob, Jobs, NoMessage, Messages, NoStatus, Status, Forms, Kinds

\* A new job is a job with a message to name it.
LEMMA NewJobType ==
  ASSUME received \in 0..MaxMessages, received < MaxMessages,
         NEW d \in Devices \cup {NoDevice}, NEW f \in Forms
  PROVE  NewJob(d, f) \in Jobs /\ NewJob(d, f).id # 0
BY HubAssumption DEF NewJob, Jobs, Kinds

\* What WriteJSON encodes, of a device or of an entry, is a message.
LEMMA EncodedType ==
  ASSUME deviceStatus \in [Devices -> Status], NEW k \in Kinds,
         NEW x \in Devices \cup 0..MaxMessages, k = "status" => x \in Devices
  PROVE  Encoded(k, x) \in Messages
<1>1. NoStatus \in Status
  BY HubAssumption DEF NoStatus, Status
<1> QED BY <1>1 DEF Encoded, Messages, Kinds

\* A status that a payload is applied to stays a status.
LEMMA AppliedType ==
  ASSUME NEW s \in Status, NEW j \in Jobs
  PROVE  Applied(s, j) \in Status
BY HubAssumption DEF Applied, Status, Jobs

\* A message changes one device of one browser's view.
LEMMA ShownType ==
  ASSUME view \in [Conns -> [Devices -> Status]], NEW c \in Conns, NEW m \in Messages
  PROVE  [view EXCEPT ![c][m.of] = m.status] \in [Conns -> [Devices -> Status]]
BY DEF Messages

\* Inserting an entry counts it, and nothing else.
LEMMA InsertedType ==
  ASSUME got \in [Conns -> [Entries -> Nat]], NEW c \in Conns, NEW e
  PROVE  [got EXCEPT ![c][e] = @ + 1] \in [Conns -> [Entries -> Nat]]
<1>1. got[c] \in [Entries -> Nat]
  OBVIOUS
<1>2. CASE e \in Entries
  <2>1. got[c][e] \in Nat
    BY <1>1, <1>2
  <2>2. got[c][e] + 1 \in Nat
    BY <2>1
  <2> QED BY <1>1, <2>2
<1>3. CASE e \notin Entries
  BY <1>1, <1>3
<1> QED BY <1>2, <1>3

\* A browser that is shown a message keeps the types of what it shows.
LEMMA ShownTypes ==
  ASSUME view \in [Conns -> [Devices -> Status]], got \in [Conns -> [Entries -> Nat]],
         NEW c \in Conns, NEW m \in Messages, Shown(c, m)
  PROVE  view' \in [Conns -> [Devices -> Status]] /\ got' \in [Conns -> [Entries -> Nat]]
BY ShownType, InsertedType DEF Shown

\* What a message is about is an item.
LEMMA ItemType == \A m \in Messages : Item(m) \in Items
BY DEF Messages, Item, Items

\* Types, with what the types depend on: jobs, and where the goroutines are.
TypeInv == TypeOK /\ JobsInv /\ PlaceInv /\ TargetInv

\* A number of a message that is not 0 is an entry's.
LEMMA NonZero == \A n \in 0..MaxMessages : n # 0 => n \in Entries
BY HubAssumption DEF Entries

\* Who is logging or updating has a message to name it.
LEMMA NamedJob ==
  ASSUME TypeInv, NEW w \in Workers, pc[w] \notin {"idle", "get"}
  PROVE  job[w].id \in Entries
<1>1. job[w] \in Jobs /\ job[w].id # 0
  BY Places DEF TypeInv, TypeOK, JobsInv
<1> QED BY <1>1, HubAssumption DEF Jobs, Entries

\* The types hold at the start.
LEMMA TypeInvInit == Init => TypeInv
<1> SUFFICES ASSUME Init PROVE TypeInv
  OBVIOUS
<1>1. Unlocked \in Locks
  BY DEF Unlocked, Locks
<1>2. TypeOK
  BY <1>1, HubAssumption, Values DEF Init, TypeOK, Labels, Status, NoStatus
<1> QED BY <1>2, Values, Places DEF Init, TypeInv, JobsInv, PlaceInv, TargetInv, Snapping

\* Every step keeps the types.
LEMMA TypeInvStep == TypeInv /\ [Next]_vars => TypeInv'
<1> SUFFICES ASSUME TypeInv, [Next]_vars PROVE TypeInv'
  OBVIOUS
<1> USE Places DEF TypeInv, TypeOK, JobsInv, PlaceInv, TargetInv, Snapping, Labels,
      ghosts, shared, writing, browsers, shown
<1>s. CASE UNCHANGED vars
  BY <1>s DEF vars
<1>1. ASSUME NEW d \in Devices \cup {NoDevice}, NEW f \in Forms, Receive(d, f)
  PROVE TypeInv'
  <2>1. mutex' \in [Kinds \cup {"ws"} -> Locks]
    BY <1>1, HubAssumption DEF Receive, Arrive, Start, Goto, NewJob, Jobs
  <2>2. pc' \in [Goroutines -> Labels] /\ job' \in [Goroutines -> Jobs]
    BY <1>1, NewJobType DEF Receive, Arrive, Start, Goto
  <2>3. todo' \in [Goroutines -> SUBSET (Conns \cup Devices \cup Entries)]
    BY <1>1, HubAssumption DEF Receive, Arrive, Start, Goto, NewJob, Jobs
  <2>4. /\ target' \in [Goroutines -> Conns \cup {NoConn}]
        /\ sending' \in [Goroutines -> Messages]
    BY <1>1, HubAssumption DEF Receive, Arrive, Start, Goto, NewJob, Jobs
  <2>5. TypeOK'
    BY <1>1, HubAssumption, <2>1, <2>2, <2>3, <2>4 DEF Receive, Arrive, Start, Goto,
      NewJob, Jobs
  <2>6. JobsInv'
    BY <1>1, HubAssumption DEF Receive, Arrive, Start, Goto, NewJob, Jobs
  <2>7. PlaceInv'
    BY <1>1, HubAssumption DEF Receive, Arrive, Start, Goto, NewJob, Jobs
  <2>8. TargetInv'
    BY <1>1, HubAssumption DEF Receive, Arrive, Start, Goto, NewJob, Jobs
  <2> QED BY <2>5, <2>6, <2>7, <2>8
<1>2. ASSUME NEW h \in Http, Control(h) PROVE TypeInv'
  BY <1>2, HubAssumption, Values DEF Control, Arrive, Start, Goto, NewJob, Jobs
<1>3. ASSUME NEW h \in Http, NEW k \in Kinds, BeginGet(h, k) PROVE TypeInv'
  <2>1. TypeOK'
    <3>1. mutex' \in [Kinds \cup {"ws"} -> Locks]
      BY <1>3, LockOps, Values DEF BeginGet, Start, Goto, Kinds, NoJob
    <3> QED BY <1>3, LockOps, Values, <3>1 DEF BeginGet, Start, Goto, Kinds, NoJob
  <2> QED BY <1>3, LockOps, Values, <2>1 DEF BeginGet, Start, Goto, Kinds, NoJob
<1>4. ASSUME NEW c \in Conns, Connect(c) PROVE TypeInv'
  BY <1>4 DEF Connect, Goto, Start
<1>5. ASSUME NEW c \in Conns, Disconnect(c) PROVE TypeInv'
  BY <1>5 DEF Disconnect
<1>6. ASSUME CallbackPanic PROVE TypeInv'
  BY <1>6 DEF CallbackPanic, Overlapped
<1>7. ASSUME NEW w \in Workers, AddLogEntry(w) PROVE TypeInv'
  <2>1. TypeOK'
    <3>1. mutex' \in [Kinds \cup {"ws"} -> Locks]
      BY <1>7, LockOps, PrependType, NamedJob, Values DEF AddLogEntry, Goto, Start
    <3> QED BY <1>7, LockOps, PrependType, NamedJob, Values, <3>1
      DEF AddLogEntry, Goto, Start
  <2> QED BY <1>7, LockOps, PrependType, NamedJob, Values, <2>1 DEF AddLogEntry, Goto, Start
<1>8. ASSUME NEW w \in Workers, UpdateStatus(w) PROVE TypeInv'
  <2>1. TypeOK'
    <3>1. mutex' \in [Kinds \cup {"ws"} -> Locks]
      BY <1>8, LockOps, AppliedType, Values DEF UpdateStatus, Goto, Start
    <3> QED BY <1>8, LockOps, AppliedType, Values, <3>1 DEF UpdateStatus, Goto, Start
  <2> QED BY <1>8, LockOps, AppliedType, Values, <2>1 DEF UpdateStatus, Goto, Start
<1>9. ASSUME NEW w \in Workers, NotAnObject(w) PROVE TypeInv'
  BY <1>9 DEF NotAnObject
<1>10. ASSUME NEW w \in Workers, BeginBroadcast(w) PROVE TypeInv'
  <2>1. TypeOK'
    <3>1. mutex' \in [Kinds \cup {"ws"} -> Locks]
      BY <1>10, LockOps DEF BeginBroadcast, Goto, Start
    <3> QED BY <1>10, LockOps, <3>1 DEF BeginBroadcast, Goto, Start
  <2> QED BY <1>10, LockOps, <2>1 DEF BeginBroadcast, Goto, Start
<1>11. ASSUME NEW w \in Workers, EndBroadcast(w) PROVE TypeInv'
  <2>1. mutex' \in [Kinds \cup {"ws"} -> Locks]
    BY <1>11, LockOps, Values DEF EndBroadcast, Unlocking
  <2>2. CASE job[w].kind = "log" /\ job[w].device # NoDevice
    <3>1. w = Callback /\ job[w].device \in Devices
      BY <1>11, <2>2 DEF EndBroadcast, Jobs
    <3>2. /\ pc' = [pc EXCEPT ![w] = "want"]
          /\ job' = [job EXCEPT ![w] = [job[w] EXCEPT !.kind = "status"]]
      BY <1>11, <2>2 DEF EndBroadcast, NextJob, Start, Goto
    <3>3. [job[w] EXCEPT !.kind = "status"] \in Jobs
      <4>1. job[w] \in Jobs
        OBVIOUS
      <4> QED BY <4>1 DEF Jobs, Kinds
    <3>4. TypeOK'
      BY <1>11, <2>1, <3>2, <3>3 DEF EndBroadcast
    <3>5. /\ job'[w].id = job[w].id /\ job'[w].device = job[w].device
          /\ \A g \in Goroutines \ {w} : job'[g] = job[g]
      BY <3>2
    <3> QED BY <1>11, <2>2, <3>1, <3>2, <3>4, <3>5 DEF EndBroadcast
  <2>3. CASE ~(job[w].kind = "log" /\ job[w].device # NoDevice)
    <3>1. pc' = [pc EXCEPT ![w] = "idle"] /\ job' = [job EXCEPT ![w] = NoJob]
      BY <1>11, <2>3 DEF EndBroadcast, NextJob, Start, Goto
    <3>2. TypeOK'
      BY <1>11, <2>1, <3>1, Values DEF EndBroadcast
    <3> QED BY <1>11, <3>1, <3>2, Values DEF EndBroadcast
  <2> QED BY <2>2, <2>3
<1>12. ASSUME NEW w \in Workers, DeleteClient(w) PROVE TypeInv'
  BY <1>12, Values DEF DeleteClient, EndWrite, WriteEnds, Goto, Start
<1>13. ASSUME NEW w \in Workers, MapFault(w) PROVE TypeInv'
  BY <1>13 DEF MapFault
<1>14. ASSUME NEW w \in Workers, NEW c \in Conns, BroadcastTo(w, c) PROVE TypeInv'
  <2> DEFINE x == IF job[w].kind = "log" THEN job[w].id ELSE job[w].device
  <2>1. /\ job[w].kind \in Kinds /\ x \in Devices \cup 0..MaxMessages
        /\ job[w].kind = "status" => x \in Devices
    BY <1>14, NamedJob DEF BroadcastTo, Jobs, Entries, Kinds
  <2>2. Encoded(job[w].kind, x) \in Messages
    BY <2>1, EncodedType
  <2> HIDE DEF x
  <2>3. sending' \in [Goroutines -> Messages]
    BY <1>14, <2>2 DEF BroadcastTo, BeginWrite, x
  <2>4. overlapped' \subseteq Goroutines
    BY <1>14 DEF BroadcastTo, BeginWrite, Writing
  <2> QED BY <1>14, <2>3, <2>4 DEF BroadcastTo, BeginWrite, Goto, Remaining, x
<1>15. ASSUME NEW g \in Goroutines, Delivered(g) PROVE TypeInv'
  <2>1. sending[g] \in Messages /\ target[g] \in Conns
    BY <1>15 DEF Delivered
  <2>2. view' \in [Conns -> [Devices -> Status]] /\ got' \in [Conns -> [Entries -> Nat]]
    <3>1. Shown(target[g], sending[g])
      BY <1>15 DEF Delivered
    <3> QED BY <2>1, <3>1, ShownTypes
  <2>3. missed' \in [Conns -> SUBSET Items]
    BY <1>15, <2>1 DEF Delivered
  <2>4. TypeOK'
    BY <1>15, <2>2, <2>3, Values DEF Delivered, EndWrite, WriteEnds, Goto
  <2> QED BY <1>15, <2>4 DEF Delivered, EndWrite, WriteEnds, Goto
<1>16. ASSUME NEW g \in Goroutines, Lost(g) PROVE TypeInv'
  <2>1. CASE EndWrite(g)
    BY <1>16, <2>1, Values DEF Lost, EndWrite, WriteEnds, Goto
  <2>2. CASE g \in Workers /\ Goto(g, "delete") /\ UNCHANGED writing
    BY <1>16, <2>2 DEF Lost, Goto
  <2> QED BY <1>16, <2>1, <2>2 DEF Lost
<1>17. ASSUME NEW g \in Goroutines, Torn(g) PROVE TypeInv'
  <2>1. target[g] \in Conns /\ Item(sending[g]) \in Items
    BY <1>17, ItemType DEF Torn, Overlapped
  <2>2. missed' \in [Conns -> SUBSET Items]
    BY <1>17, <2>1 DEF Torn
  <2> QED BY <1>17, <2>2, Values DEF Torn, Overlapped, EndWrite, WriteEnds, Goto
<1>18. ASSUME NEW h \in Http, EndGet(h) PROVE TypeInv'
  <2>1. TypeOK'
    <3>1. mutex' \in [Kinds \cup {"ws"} -> Locks]
      <4>1. mutex' = [mutex EXCEPT ![job[h].kind] = RUnlock(@, h)] /\ job[h].kind \in Kinds
        BY <1>18 DEF EndGet, Jobs
      <4> QED BY <4>1, LockOps
    <3> QED BY <1>18, LockOps, Values, <3>1 DEF EndGet, Start, Goto, Jobs
  <2> QED BY <1>18, LockOps, Values, <2>1 DEF EndGet, Start, Goto, Jobs
<1>19. ASSUME NEW h \in Http, HttpPanic(h) PROVE TypeInv'
  <2>1. mutex' \in [Kinds \cup {"ws"} -> Locks]
    <3>1. mutex' = [mutex EXCEPT !["ws"] = RUnlock(@, h), !["log"] = Unlock(@)]
      BY <1>19 DEF HttpPanic
    <3>2. RUnlock(mutex["ws"], h) \in Locks /\ Unlock(mutex["log"]) \in Locks
      BY LockOps, Values
    <3> QED BY <3>1, <3>2
  <2>2. pc' \in [Goroutines -> Labels] /\ job' \in [Goroutines -> Jobs]
    BY <1>19, LockOps, Values, NamedJob DEF HttpPanic, Overlapped, WriteEnds, Start, Goto
  <2>3. todo' \in [Goroutines -> SUBSET (Conns \cup Devices \cup Entries)]
    BY <1>19, LockOps, Values, NamedJob DEF HttpPanic, Overlapped, WriteEnds, Start, Goto
  <2>4. /\ target' \in [Goroutines -> Conns \cup {NoConn}]
        /\ sending' \in [Goroutines -> Messages]
    BY <1>19, LockOps, Values, NamedJob DEF HttpPanic, Overlapped, WriteEnds, Start, Goto
  <2>5. TypeOK'
    <3>1. job[h].id \in Entries
      <4>1. h \in Workers /\ pc[h] = "write"
        BY <1>19 DEF HttpPanic, Overlapped
      <4>2. job[h] \in Jobs /\ job[h].id # 0
        BY <4>1
      <4>3. job[h].id \in 0..MaxMessages
        BY <4>2 DEF Jobs
      <4> QED BY <4>2, <4>3, NonZero
    <3>2. aborted' \subseteq Entries
      BY <1>19, <3>1 DEF HttpPanic, Overlapped, WriteEnds, Shown
    <3>3. view' \in [Conns -> [Devices -> Status]] /\ got' \in [Conns -> [Entries -> Nat]]
      <4>1. CASE Shown(target[h], sending[h])
        <5>1. target[h] \in Conns /\ sending[h] \in Messages
          BY <1>19 DEF HttpPanic, Overlapped
        <5> QED BY <4>1, <5>1, ShownTypes
      <4>2. CASE UNCHANGED <<view, got>>
        BY <4>2
      <4> QED BY <1>19, <4>1, <4>2 DEF HttpPanic
    <3> QED BY <1>19, <3>2, <3>3, <2>1, <2>2, <2>3, <2>4 DEF HttpPanic, WriteEnds
  <2>6. JobsInv'
    BY <1>19, LockOps, Values, NamedJob DEF HttpPanic, Overlapped, WriteEnds, Start, Goto
  <2>7. PlaceInv'
    BY <1>19, LockOps, Values, NamedJob DEF HttpPanic, Overlapped, WriteEnds, Start, Goto
  <2>8. TargetInv'
    BY <1>19, LockOps, Values, NamedJob DEF HttpPanic, Overlapped, WriteEnds, Start, Goto
  <2> QED BY <2>5, <2>6, <2>7, <2>8
<1>20. ASSUME NEW c \in Conns, Register(c) PROVE TypeInv'
  BY <1>20, Values DEF Register, Start, Goto
<1>21. ASSUME NEW c \in Conns, BeginSnapshot(c) PROVE TypeInv'
  <2>1. TypeOK'
    <3>1. mutex' \in [Kinds \cup {"ws"} -> Locks]
      BY <1>21, LockOps DEF BeginSnapshot, Goto, Start, SnapshotOf, Jobs
    <3> QED BY <1>21, LockOps, <3>1 DEF BeginSnapshot, Goto, Start, SnapshotOf, Jobs
  <2> QED BY <1>21, LockOps, <2>1 DEF BeginSnapshot, Goto, Start, SnapshotOf, Jobs
<1>22. ASSUME NEW c \in Conns, EndSnapshot(c) PROVE TypeInv'
  <2>1. TypeOK'
    <3>1. mutex' \in [Kinds \cup {"ws"} -> Locks]
      BY <1>22, LockOps, Values DEF EndSnapshot, Start, Goto
    <3> QED BY <1>22, LockOps, Values, <3>1 DEF EndSnapshot, Start, Goto
  <2> QED BY <1>22, LockOps, Values, <2>1 DEF EndSnapshot, Start, Goto
<1>23. ASSUME NEW c \in Conns, SnapshotPanic(c) PROVE TypeInv'
  BY <1>23, Values DEF SnapshotPanic, Overlapped, WriteEnds, Goto, Start
<1>24. ASSUME NEW c \in Conns, Unregister(c) PROVE TypeInv'
  BY <1>24 DEF Unregister, Goto, Start
<1>25. ASSUME NEW c \in Conns, NEW x \in Devices \cup Entries, SendTo(c, x) PROVE TypeInv'
  <2>1. job[c].kind \in Kinds /\ (job[c].kind = "status" => x \in Devices)
    BY <1>25 DEF SendTo, Jobs
  <2>2. Encoded(job[c].kind, x) \in Messages
    BY <2>1, EncodedType DEF Entries
  <2>3. sending' \in [Goroutines -> Messages] /\ overlapped' \subseteq Goroutines
    BY <1>25, <2>2 DEF SendTo, BeginWrite, Writing
  <2>4. TypeOK'
    BY <1>25, <2>3 DEF SendTo, BeginWrite, Goto
  <2> QED BY <1>25, <2>4 DEF SendTo, BeginWrite, Goto
<1>26. ASSUME NEW w \in Workers, WriterClosed(w) PROVE TypeInv'
  BY <1>26 DEF WriterClosed, Overlapped, Goto
<1> HIDE DEF TypeInv, TypeOK, JobsInv, PlaceInv, TargetInv, Snapping, Labels, ghosts,
      shared, writing, browsers, shown
<1>e. ASSUME Environment PROVE TypeInv'
  BY <1>e, <1>1, <1>2, <1>3, <1>4, <1>5 DEF Environment, Forms
<1>w. ASSUME NEW w \in Workers, WorkerStep(w) PROVE TypeInv'
  BY <1>w, <1>7, <1>8, <1>9, <1>10, <1>11, <1>12, <1>13, <1>14, <1>15, <1>16, <1>17,
    <1>26, Places DEF WorkerStep
<1>h. ASSUME NEW h \in Http, HttpStep(h) PROVE TypeInv'
  BY <1>h, <1>18, <1>19 DEF HttpStep
<1>c. ASSUME NEW c \in Conns, HandlerStep(c) PROVE TypeInv'
  BY <1>c, <1>20, <1>21, <1>22, <1>23, <1>24, <1>25, <1>15, <1>16, <1>17, Places
    DEF HandlerStep
<1> QED
  BY <1>e, <1>w, <1>h, <1>c, <1>6, <1>s DEF Next, Step, Stopped

\* The inductive invariant holds at the start.
LEMMA IInvInit == Init => IInv
BY TypeInvInit, HubAssumption, Places DEF Init, TypeInv, IInv, StatusLock, ClosedInv,
  Registry,
  SendingInv, FreshInv, Fresh, Updating, Snapping, HasStatus, NoJob, Unlocked, Kinds

\* Every step keeps the inductive invariant.
LEMMA IInvStep == TypeInv /\ IInv /\ [Next]_vars => IInv'
<1> SUFFICES ASSUME TypeInv, TypeInv', IInv, [Next]_vars PROVE IInv'
  BY TypeInvStep
<1> USE Places DEF TypeInv, TypeOK, IInv, StatusLock, JobsInv, PlaceInv, TargetInv,
      ClosedInv, Registry, SendingInv, FreshInv, Fresh, Updating, Pending, Snapping,
      Remaining, HasStatus, Encoded, ghosts, shared, writing, browsers, shown
<1>f. ASSUME UNCHANGED <<deviceStatus, view, missed>>
      PROVE  \A c \in Conns, d \in Devices : Shows(c, d)' <=> Shows(c, d)
  BY <1>f DEF Shows
<1>s. CASE UNCHANGED vars
  BY <1>s, <1>f DEF vars
<1>1. ASSUME NEW d \in Devices \cup {NoDevice}, NEW f \in Forms, Receive(d, f) PROVE IInv'
  BY <1>1, <1>f DEF Receive, Arrive, Start, Goto, NewJob
<1>2. ASSUME NEW h \in Http, Control(h) PROVE IInv'
  BY <1>2, <1>f DEF Control, Arrive, Start, Goto, NewJob
<1>3. ASSUME NEW h \in Http, NEW k \in Kinds, BeginGet(h, k) PROVE IInv'
  BY <1>3, <1>f DEF BeginGet, Start, Goto, NoJob, Locks, Kinds, NoWriter, RLock
<1>4. ASSUME NEW c \in Conns, Connect(c) PROVE IInv'
  BY <1>4, <1>f DEF Connect, Goto, Start
<1>5. ASSUME NEW c \in Conns, Disconnect(c) PROVE IInv'
  <2>1. \A c1 \in Conns \ {c}, d \in Devices : Shows(c1, d)' <=> Shows(c1, d)
    BY <1>5 DEF Disconnect, Shows
  <2> QED BY <1>5, <2>1 DEF Disconnect
<1>6. ASSUME CallbackPanic PROVE IInv'
  BY <1>6, <1>f DEF CallbackPanic, Overlapped
<1>7. ASSUME NEW w \in Workers, AddLogEntry(w) PROVE IInv'
  BY <1>7, <1>f DEF AddLogEntry, Goto, Start, Locks, Kinds, Free, Lock
<1>8. ASSUME NEW w \in Workers, UpdateStatus(w) PROVE IInv'
  <2>0. w = Callback /\ ~Updating /\ mutex["status"].readers = {}
    BY <1>8, <1>f DEF UpdateStatus, Free
  <2>1. StatusLock'
    BY <1>8, <1>f DEF UpdateStatus, Goto, Start, Locks, Kinds, Free, Lock
  <2>2. ClosedInv'
    BY <1>8, <1>f DEF UpdateStatus, Goto, Start, Locks, Kinds, Free, Lock
  <2>3. Registry'
    BY <1>8, <1>f DEF UpdateStatus, Goto, Start, Locks, Kinds, Free, Lock
  <2>4. SendingInv'
    <3>1. \A g \in Goroutines : pc[g] = "write" => job[g].kind = "log"
      <4> SUFFICES ASSUME NEW g \in Goroutines, pc[g] = "write" PROVE job[g].kind = "log"
        OBVIOUS
      <4>1. job[g].kind \in {"log", "status"}
        BY DEF Jobs, Kinds
      <4>2. job[g].kind # "status"
        BY <2>0
      <4> QED BY <4>1, <4>2
    <3> QED BY <1>8, <1>f, <3>1 DEF UpdateStatus, Goto
  <2>5. FreshInv'
    <3> SUFFICES ASSUME NEW c \in Conns, NEW d \in Devices
                 PROVE  Fresh(c, d)'
      BY DEF FreshInv
    <3>1. ~Snapping(c) /\ (HasStatus(c) => Shows(c, d))
      BY <2>0
    <3>2. d # job[w].device => (Shows(c, d)' <=> Shows(c, d))
      BY <1>8 DEF UpdateStatus, Shows
    <3>3. Updating' /\ job' = job /\ pc'[Callback] = "bcast"
      BY <1>8, <1>f, <2>0 DEF UpdateStatus, Goto
    <3> QED BY <1>8, <2>0, <3>1, <3>2, <3>3 DEF UpdateStatus, Goto
  <2> QED BY <2>1, <2>2, <2>3, <2>4, <2>5
<1>9. ASSUME NEW w \in Workers, NotAnObject(w) PROVE IInv'
  BY <1>9, <1>f DEF NotAnObject
<1>10. ASSUME NEW w \in Workers, BeginBroadcast(w) PROVE IInv'
  <2>1. StatusLock'
    BY <1>10, <1>f DEF BeginBroadcast, Goto, Start, Locks, Kinds, NoWriter, RLock
  <2>2. ClosedInv'
    BY <1>10, <1>f DEF BeginBroadcast, Goto, Start, Locks, Kinds, NoWriter, RLock
  <2>3. Registry'
    BY <1>10, <1>f DEF BeginBroadcast, Goto, Start, Locks, Kinds, NoWriter, RLock
  <2>4. SendingInv'
    BY <1>10, <1>f DEF BeginBroadcast, Goto, Start, Locks, Kinds, NoWriter, RLock
  <2>5. FreshInv'
    <3> SUFFICES ASSUME NEW c \in Conns, NEW d \in Devices
                 PROVE  Fresh(c, d)'
      BY DEF FreshInv
    <3>1. HasStatus(c) => c \in wsClients
      OBVIOUS
    <3>2. CASE w = Callback
      <4>1. Remaining(Callback)' = wsClients /\ pc'[Callback] = "loop"
        BY <1>10, <1>f, <3>2 DEF BeginBroadcast, Goto
      <4> QED BY <1>10, <1>f, <3>1, <3>2, <4>1 DEF BeginBroadcast, Goto
    <3>3. CASE w # Callback
      BY <1>10, <1>f, <3>3 DEF BeginBroadcast, Goto
    <3> QED BY <3>2, <3>3
  <2> QED BY <2>1, <2>2, <2>3, <2>4, <2>5
<1>11. ASSUME NEW w \in Workers, EndBroadcast(w) PROVE IInv'
  <2>1. StatusLock'
    <3>1. CASE w = Callback /\ job[w].kind = "status"
      <4>1. ~Updating'
        BY <1>11, <1>f, <3>1 DEF EndBroadcast, NextJob, Start, Goto, NoJob
      <4>2. mutex'["status"].writer = {}
        BY <1>11, <1>f, <3>1 DEF EndBroadcast, Unlocking, Unlock, Locks, Kinds
      <4>3. mutex'["status"].readers = mutex["status"].readers
        BY <1>11, <1>f, <3>1 DEF EndBroadcast, Unlocking, Unlock, Locks, Kinds
      <4>4. \A c \in Conns : Snapping(c)' => Snapping(c)
        BY <1>11, <1>f DEF EndBroadcast, NextJob, Start, Goto
      <4> QED BY <4>1, <4>2, <4>3, <4>4
    <3>2. CASE job[w].kind = "log"
      <4>1. mutex'["status"] = mutex["status"]
        BY <1>11, <1>f, <3>2 DEF EndBroadcast, Unlocking, Kinds
      <4>2. Updating' = Updating
        BY <1>11, <1>f, <3>2 DEF EndBroadcast, NextJob, Start, Goto, NoJob
      <4>3. \A c \in Conns : Snapping(c)' => Snapping(c)
        BY <1>11, <1>f DEF EndBroadcast, NextJob, Start, Goto
      <4> QED BY <4>1, <4>2, <4>3
    <3> QED BY <1>11, <1>f, <3>1, <3>2 DEF EndBroadcast, Jobs, Kinds
  <2>2. ClosedInv'
    BY <1>11, <1>f DEF EndBroadcast, NextJob, Start, Goto, NoJob, Unlocking, Locks, Kinds,
      Unlock, RUnlock
  <2>3. Registry'
    BY <1>11 DEF EndBroadcast, NextJob, Start, Goto, NoJob
  <2>4. SendingInv'
    BY <1>11, <1>f DEF EndBroadcast, NextJob, Start, Goto, NoJob, Unlocking, Locks, Kinds,
      Unlock, RUnlock
  <2>5. FreshInv'
    BY <1>11, <1>f DEF EndBroadcast, NextJob, Start, Goto, NoJob
  <2> QED BY <2>1, <2>2, <2>3, <2>4, <2>5
<1>12. ASSUME NEW w \in Workers, DeleteClient(w) PROVE IInv'
  BY <1>12, <1>f DEF DeleteClient, EndWrite, WriteEnds, Goto, Start
<1>13. ASSUME NEW w \in Workers, MapFault(w) PROVE IInv'
  BY <1>13, <1>f DEF MapFault
<1>14. ASSUME NEW w \in Workers, NEW c \in Conns, BroadcastTo(w, c) PROVE IInv'
  <2>1. StatusLock'
    BY <1>14, <1>f DEF BroadcastTo, BeginWrite, Goto, Start
  <2>2. ClosedInv'
    BY <1>14, <1>f DEF BroadcastTo, BeginWrite, Goto, Start
  <2>3. Registry'
    BY <1>14, <1>f DEF BroadcastTo, BeginWrite, Goto, Start
  <2>4. SendingInv'
    BY <1>14, <1>f DEF BroadcastTo, BeginWrite, Goto, Start
  <2>5. FreshInv'
    BY <1>14, <1>f DEF BroadcastTo, BeginWrite, Goto, Start
  <2> QED BY <2>1, <2>2, <2>3, <2>4, <2>5
<1>15. ASSUME NEW g \in Goroutines, Delivered(g) PROVE IInv'
  <2>1. StatusLock'
    BY <1>15, <1>f DEF Delivered, Shown, EndWrite, WriteEnds, Goto, Start
  <2>2. ClosedInv'
    BY <1>15, <1>f DEF Delivered, Shown, EndWrite, WriteEnds, Goto, Start
  <2>3. Registry'
    BY <1>15, <1>f DEF Delivered, Shown, EndWrite, WriteEnds, Goto, Start
  <2>4. SendingInv'
    BY <1>15, <1>f DEF Delivered, Shown, EndWrite, WriteEnds, Goto, Start
  <2>5. FreshInv'
    <3> DEFINE t == target[g]  e == sending[g].of
    <3>1. t \in Conns /\ pc[g] = "write" /\ conn' = conn /\ pc' = [pc EXCEPT ![g] = "loop"]
      BY <1>15 DEF Delivered, EndWrite, Goto
    <3>2. \A c \in Conns, d \in Devices : Shows(c, d) => Shows(c, d)'
      <4>1. CASE job[g].kind = "log"
        <5>1. sending[g].kind = "log" /\ view' = view /\ deviceStatus' = deviceStatus
          BY <1>15, <3>1, <4>1 DEF Delivered, Shown
        <5>2. \A c \in Conns, d \in Devices :
                <<"status", d>> \in missed[c] => <<"status", d>> \in missed'[c]
          BY <1>15, <3>1, <5>1 DEF Delivered, Item
        <5> QED BY <5>1, <5>2 DEF Shows
      <4>2. CASE job[g].kind = "status"
        <5>1. /\ sending[g].kind = "status" /\ e \in Devices
              /\ sending[g].status = deviceStatus[e]
          BY <3>1, <4>2
        <5>2. view' = [view EXCEPT ![t][e] = deviceStatus[e]] /\ deviceStatus' = deviceStatus
          BY <1>15, <5>1 DEF Delivered, Shown
        <5>3. missed' = [missed EXCEPT ![t] = @ \ {<<"status", e>>}]
          BY <1>15, <5>1 DEF Delivered, Item
        <5> HIDE DEF t, e
        <5>4. view'[t][e] = deviceStatus'[e]
          BY <3>1, <5>1, <5>2
        <5>5. \A c \in Conns, d \in Devices : ~(c = t /\ d = e) =>
                view'[c][d] = view[c][d] /\ (<<"status", d>> \in missed[c]
                                               => <<"status", d>> \in missed'[c])
          BY <3>1, <5>1, <5>2, <5>3
        <5> QED BY <5>2, <5>4, <5>5 DEF Shows
      <4> QED BY <4>1, <4>2 DEF Jobs, Kinds
    <3>3. \A c \in Conns, d \in Devices :
            job[g].kind = "status" /\ c = target[g] /\ d = sending[g].of => Shows(c, d)'
      <4> SUFFICES ASSUME NEW c \in Conns, NEW d \in Devices, job[g].kind = "status",
                          c = target[g], d = sending[g].of
                   PROVE  Shows(c, d)'
        OBVIOUS
      <4>1. sending[g].kind = "status" /\ sending[g].status = deviceStatus[d]
        BY <3>1
      <4>2. view' = [view EXCEPT ![c][d] = deviceStatus[d]] /\ deviceStatus' = deviceStatus
        BY <1>15, <4>1 DEF Delivered, Shown
      <4>3. view'[c][d] = deviceStatus'[d]
        BY <4>2
      <4> QED BY <4>3 DEF Shows
    <3>4. job' = job /\ todo' = todo /\ target' = [target EXCEPT ![g] = NoConn]
          /\ wsClients' = wsClients
          /\ \A h \in Goroutines \ {g} : sending'[h] = sending[h]
      BY <1>15 DEF Delivered, EndWrite, WriteEnds
    <3> SUFFICES ASSUME NEW c \in Conns, NEW d \in Devices PROVE Fresh(c, d)'
      BY DEF FreshInv
    <3> HIDE DEF t, e
    <3>5. CASE g = Callback
      <4>1. /\ HasStatus(c)' <=> HasStatus(c)
            /\ Snapping(c)' <=> Snapping(c)
            /\ todo'[c] = todo[c] /\ pc'[c] = pc[c] /\ sending'[c] = sending[c]
        BY <3>1, <3>4, <3>5
      <4>2. Updating /\ d = job[Callback].device /\ Pending(c) =>
              Shows(c, d)' \/ (Updating /\ Pending(c))'
        BY <3>1, <3>3, <3>4, <3>5
      <4> HIDE DEF HasStatus, Snapping, Pending, Updating
      <4> QED BY <3>1, <3>2, <3>4, <4>1, <4>2
    <3>6. CASE g \in Http
      BY <3>1, <3>2, <3>4, <3>6
    <3>7. CASE g \in Conns
      <4>1. t = g
        BY <3>1, <3>7 DEF t
      <4>2. HasStatus(c)' <=> HasStatus(c)
        BY <3>1, <3>4, <3>7
      <4>3. Snapping(c)' <=> Snapping(c)
        BY <3>1, <3>4, <3>7
      <4>4. (Pending(c)' <=> Pending(c)) /\ (Updating' <=> Updating)
        BY <3>1, <3>4, <3>7
      <4>5. pc[c] = "write" /\ d = sending[c].of /\ Snapping(c) =>
              Shows(c, d)' \/ (pc'[c] = "write" /\ d = sending'[c].of)
        BY <3>1, <3>3, <3>4, <3>7, <4>1
      <4> HIDE DEF HasStatus, Snapping, Pending, Updating
      <4> QED BY <3>1, <3>2, <3>4, <4>2, <4>3, <4>4, <4>5
    <3> QED BY <3>5, <3>6, <3>7
  <2> QED BY <2>1, <2>2, <2>3, <2>4, <2>5
<1>16. ASSUME NEW g \in Goroutines, Lost(g) PROVE IInv'
  <2>1. CASE EndWrite(g)
    BY <1>16, <1>f, <2>1 DEF Lost, EndWrite, WriteEnds, Goto
  <2>2. CASE g \in Workers /\ Goto(g, "delete") /\ UNCHANGED writing
    <3>1. ClosedInv' /\ Registry'
      BY <1>16, <1>f, <2>2 DEF Lost, Goto
    <3>2. SendingInv' /\ StatusLock'
      BY <1>16, <1>f, <2>2 DEF Lost, Goto
    <3>3. FreshInv'
      BY <1>16, <1>f, <2>2 DEF Lost, Goto
    <3> QED BY <3>1, <3>2, <3>3
  <2> QED BY <1>16, <1>f, <2>1, <2>2 DEF Lost
<1>17. ASSUME NEW g \in Goroutines, Torn(g) PROVE IInv'
  <2>0. pc[g] = "write" /\ target[g] \in Conns
    BY <1>17 DEF Torn, Overlapped
  <2>1. \A c \in Conns, d \in Devices : Shows(c, d) => Shows(c, d)'
    BY <1>17, <2>0 DEF Torn, Shows
  <2>2. \A c \in Conns, d \in Devices :
          sending[g].kind = "status" /\ c = target[g] /\ d = sending[g].of => Shows(c, d)'
    <3>1. missed' = [missed EXCEPT ![target[g]] = @ \cup {Item(sending[g])}]
      BY <1>17 DEF Torn
    <3>2. <<sending[g].kind, sending[g].of>> \in missed'[target[g]]
      BY <2>0, <3>1 DEF Item
    <3> QED BY <3>2 DEF Shows
  <2>3. StatusLock' /\ ClosedInv' /\ Registry' /\ SendingInv'
    BY <1>17, <2>0 DEF Torn, EndWrite, WriteEnds, Goto
  <2>4. FreshInv'
    <3>1. /\ conn' = conn /\ pc' = [pc EXCEPT ![g] = "loop"] /\ job' = job /\ todo' = todo
          /\ target' = [target EXCEPT ![g] = NoConn] /\ wsClients' = wsClients
          /\ \A h \in Goroutines \ {g} : sending'[h] = sending[h]
      BY <1>17 DEF Torn, EndWrite, WriteEnds, Goto
    <3>2. job[g].kind = "status" => sending[g].kind = "status" /\ sending[g].of \in Devices
      BY <2>0
    <3> SUFFICES ASSUME NEW c \in Conns, NEW d \in Devices PROVE Fresh(c, d)'
      BY DEF FreshInv
    <3>5. CASE g = Callback
      <4>1. /\ HasStatus(c)' <=> HasStatus(c)
            /\ Snapping(c)' <=> Snapping(c)
            /\ todo'[c] = todo[c] /\ pc'[c] = pc[c] /\ sending'[c] = sending[c]
        BY <2>0, <3>1, <3>5
      <4>2. Updating /\ d = job[Callback].device /\ Pending(c) =>
              Shows(c, d)' \/ (Updating /\ Pending(c))'
        BY <2>0, <2>2, <3>1, <3>2, <3>5
      <4> HIDE DEF HasStatus, Snapping, Pending, Updating
      <4> QED BY <2>1, <3>1, <4>1, <4>2
    <3>6. CASE g \in Http
      BY <2>0, <2>1, <3>1, <3>6
    <3>7. CASE g \in Conns
      <4>1. target[g] = g
        BY <2>0, <3>7
      <4>2. HasStatus(c)' <=> HasStatus(c)
        BY <2>0, <3>1, <3>7
      <4>3. Snapping(c)' <=> Snapping(c)
        BY <2>0, <3>1, <3>7
      <4>4. (Pending(c)' <=> Pending(c)) /\ (Updating' <=> Updating)
        BY <2>0, <3>1, <3>7
      <4>5. pc[c] = "write" /\ d = sending[c].of /\ Snapping(c) =>
              Shows(c, d)' \/ (pc'[c] = "write" /\ d = sending'[c].of)
        BY <2>0, <2>2, <3>1, <3>2, <3>7, <4>1
      <4> HIDE DEF HasStatus, Snapping, Pending, Updating
      <4> QED BY <2>0, <2>1, <3>1, <4>2, <4>3, <4>4, <4>5
    <3> QED BY <3>5, <3>6, <3>7
  <2> QED BY <2>3, <2>4
<1>18. ASSUME NEW h \in Http, EndGet(h) PROVE IInv'
  BY <1>18, <1>f DEF EndGet, Start, Goto, NoJob, Locks, Kinds, RUnlock
<1>19. ASSUME NEW h \in Http, HttpPanic(h) PROVE IInv'
  <2>1. /\ pc[h] = "write" /\ pc' = [pc EXCEPT ![h] = "idle"] /\ conn' = conn
        /\ job' = [job EXCEPT ![h] = NoJob] /\ todo' = [todo EXCEPT ![h] = {}]
        /\ target' = [target EXCEPT ![h] = NoConn]
        /\ sending' = [sending EXCEPT ![h] = NoMessage]
        /\ UNCHANGED <<deviceStatus, wsClients, missed>>
    BY <1>19 DEF HttpPanic, Overlapped, WriteEnds, Start, Goto
  <2>2. mutex'["status"] = mutex["status"]
    BY <1>19 DEF HttpPanic, Kinds
  <2>3. view' = view
    <3>1. sending[h].kind = "log"
      <4>1. job[h].kind = "log" /\ sending[h].kind = job[h].kind
        BY <2>1
      <4> QED BY <4>1
    <3> QED BY <1>19, <3>1 DEF HttpPanic, Shown
  <2>4. \A g \in Goroutines \ {h} :
          /\ pc'[g] = pc[g] /\ job'[g] = job[g] /\ todo'[g] = todo[g]
          /\ target'[g] = target[g] /\ sending'[g] = sending[g]
    BY <2>1
  <2>5. StatusLock'
    <3>1. Updating' <=> Updating
      <4>1. pc'[Callback] = pc[Callback] /\ job'[Callback] = job[Callback]
        BY <2>4
      <4> QED BY <4>1
    <3>2. \A c \in Conns : Snapping(c)' <=> Snapping(c)
      BY <2>4
    <3> QED BY <2>2, <3>1, <3>2
  <2>6. ClosedInv' /\ Registry'
    BY <2>1, <2>4
  <2>7. SendingInv'
    BY <2>1, <2>4
  <2>8. FreshInv'
    <3> SUFFICES ASSUME NEW c \in Conns, NEW d \in Devices PROVE Fresh(c, d)'
      BY DEF FreshInv
    <3>1. Shows(c, d)' <=> Shows(c, d)
      BY <1>f, <2>1, <2>3
    <3> QED BY <2>1, <2>4, <3>1
  <2> QED BY <2>5, <2>6, <2>7, <2>8
<1>20. ASSUME NEW c \in Conns, Register(c) PROVE IInv'
  BY <1>20, <1>f DEF Register, Start, Goto, NoJob
<1>21. ASSUME NEW c \in Conns, BeginSnapshot(c) PROVE IInv'
  BY <1>21, <1>f DEF BeginSnapshot, Goto, Start, SnapshotOf, Locks, Kinds, NoWriter, RLock
<1>22. ASSUME NEW c \in Conns, EndSnapshot(c) PROVE IInv'
  <2>1. StatusLock'
    BY <1>22, <1>f DEF EndSnapshot, Start, Goto, NoJob, Locks, Kinds, RUnlock
  <2>2. ClosedInv'
    BY <1>22, <1>f DEF EndSnapshot, Start, Goto, NoJob, Locks, Kinds, RUnlock
  <2>3. Registry'
    BY <1>22, <1>f DEF EndSnapshot, Start, Goto, NoJob, Locks, Kinds, RUnlock
  <2>4. SendingInv'
    BY <1>22, <1>f DEF EndSnapshot, Start, Goto, NoJob, Locks, Kinds, RUnlock
  <2>5. FreshInv'
    <3> SUFFICES ASSUME NEW c1 \in Conns, NEW d \in Devices
                 PROVE  Fresh(c1, d)'
      BY DEF FreshInv
    <3>1. Updating' = Updating /\ Pending(c1)' = Pending(c1)
      BY <1>22, <1>f DEF EndSnapshot, Start, Goto
    <3>2. CASE c1 = c
      <4>1. CASE job[c].kind = "status"
        <5>1. conn[c] = "open" => Shows(c, d)
          BY <1>22, <4>1 DEF EndSnapshot
        <5> QED BY <1>22, <1>f, <3>2, <4>1, <5>1 DEF EndSnapshot, Start, Goto, NoJob
      <4>2. CASE job[c].kind # "status"
        <5>1. job[c].kind = "log"
          BY <4>2 DEF Jobs, Kinds
        <5> QED BY <1>22, <1>f, <3>1, <3>2, <5>1 DEF EndSnapshot, Start, Goto, NoJob
      <4> QED BY <4>1, <4>2
    <3>3. CASE c1 # c
      BY <1>22, <1>f, <3>1, <3>3 DEF EndSnapshot, Start, Goto
    <3> QED BY <3>2, <3>3
  <2> QED BY <2>1, <2>2, <2>3, <2>4, <2>5
<1>23. ASSUME NEW c \in Conns, SnapshotPanic(c) PROVE IInv'
  <2>1. \A c1 \in Conns \ {c}, d \in Devices : Shows(c1, d)' <=> Shows(c1, d)
    BY <1>23 DEF SnapshotPanic, Overlapped, Shows
  <2> QED BY <1>23, <2>1 DEF SnapshotPanic, Overlapped, WriteEnds, Goto
<1>24. ASSUME NEW c \in Conns, Unregister(c) PROVE IInv'
  BY <1>24, <1>f DEF Unregister, Goto, Start
<1>25. ASSUME NEW c \in Conns, NEW x \in Devices \cup Entries, SendTo(c, x) PROVE IInv'
  <2>1. StatusLock'
    BY <1>25, <1>f DEF SendTo, BeginWrite, Goto, Start
  <2>2. ClosedInv'
    BY <1>25, <1>f DEF SendTo, BeginWrite, Goto, Start
  <2>3. Registry'
    BY <1>25, <1>f DEF SendTo, BeginWrite, Goto, Start
  <2>4. SendingInv'
    BY <1>25, <1>f DEF SendTo, BeginWrite, Goto, Start
  <2>5. FreshInv'
    BY <1>25, <1>f DEF SendTo, BeginWrite, Goto, Start
  <2> QED BY <2>1, <2>2, <2>3, <2>4, <2>5
<1>26. ASSUME NEW w \in Workers, WriterClosed(w) PROVE IInv'
  <2>1. \A c \in Conns \ {target[w]}, d \in Devices : Shows(c, d)' <=> Shows(c, d)
    <3>1. target[w] \in Conns /\ missed' = [missed EXCEPT ![target[w]] = {}]
      BY <1>26 DEF WriterClosed, Overlapped
    <3>2. \A c \in Conns \ {target[w]} : missed'[c] = missed[c]
      BY <3>1
    <3>3. view' = view /\ deviceStatus' = deviceStatus
      BY <1>26 DEF WriterClosed
    <3> SUFFICES ASSUME NEW c \in Conns \ {target[w]}, NEW d \in Devices
                 PROVE  Shows(c, d)' <=> Shows(c, d)
      OBVIOUS
    <3>4. missed'[c] = missed[c]
      BY <3>2
    <3> QED BY <3>3, <3>4 DEF Shows
  <2> QED BY <1>26, <2>1 DEF WriterClosed, Overlapped, Goto
<1> HIDE DEF TypeInv, TypeOK, IInv, StatusLock, JobsInv, PlaceInv, TargetInv, ClosedInv,
      Registry, SendingInv, FreshInv, Fresh, Updating, Pending, Snapping, Remaining,
      HasStatus, Encoded, ghosts, shared, writing, browsers, shown
<1>e. ASSUME Environment PROVE IInv'
  BY <1>e, <1>1, <1>2, <1>3, <1>4, <1>5 DEF Environment, Forms
<1>w. ASSUME NEW w \in Workers, WorkerStep(w) PROVE IInv'
  BY <1>w, <1>7, <1>8, <1>9, <1>10, <1>11, <1>12, <1>13, <1>14, <1>15, <1>16, <1>17,
    <1>26, Places DEF WorkerStep
<1>h. ASSUME NEW h \in Http, HttpStep(h) PROVE IInv'
  BY <1>h, <1>18, <1>19 DEF HttpStep
<1>c. ASSUME NEW c \in Conns, HandlerStep(c) PROVE IInv'
  BY <1>c, <1>20, <1>21, <1>22, <1>23, <1>24, <1>25, <1>15, <1>16, <1>17, Places
    DEF HandlerStep
<1> QED
  BY <1>e, <1>w, <1>h, <1>c, <1>6, <1>s DEF Next, Step, Stopped

\* The devices whose status is among what was torn.
StatusesOf(f) == [c \in Conns |-> {d \in Devices : <<"status", d>> \in f[c]}]

\* A step of the hub is a step of the feed, or leaves the feed alone.
LEMMA FeedStep == TypeInv /\ IInv /\ [Next]_vars => [Feed!Next]_(Feed!vars)
<1> DEFINE live == {c \in Conns : HasStatus(c)}
          torn == StatusesOf(missed)
          Alone == UNCHANGED <<deviceStatus, live, view, missed>>
          Goal == [Feed!Next]_(Feed!vars)
<1> SUFFICES ASSUME TypeInv, IInv, [Next]_vars PROVE Goal
  OBVIOUS
<1>m. missed \in [Conns -> SUBSET Items] /\ missed' \in [Conns -> SUBSET Items]
  BY TypeInvStep DEF TypeInv, TypeOK
<1>a. Alone => Goal
  BY DEF Feed!vars
<1>b. ASSUME NEW c \in Conns, UNCHANGED <<deviceStatus, view>>, live' = live \ {c},
             missed' = [missed EXCEPT ![c] = {}]
      PROVE  Goal
  <2>1. torn' = [torn EXCEPT ![c] = {}]
    BY <1>b, <1>m DEF StatusesOf
  <2>2. Feed!Leave(c)
    BY <1>b, <2>1 DEF Feed!Leave, StatusesOf
  <2> QED BY <2>2 DEF Feed!Next
<1>i. \A c \in Conns : Feed!InSync(c) <=> \A d \in Devices : Shows(c, d)
  BY DEF Feed!InSync, Shows, StatusesOf
<1> HIDE DEF Goal
<1> USE Places DEF TypeInv, TypeOK, JobsInv, PlaceInv, TargetInv, Snapping, ghosts,
      shared, writing, browsers, shown, HasStatus
<1>s. CASE UNCHANGED vars
  BY <1>s, <1>a DEF vars
<1>1. ASSUME NEW d \in Devices \cup {NoDevice}, NEW f \in Forms, Receive(d, f) PROVE Goal
  BY <1>1, <1>a, Values DEF Receive, Arrive, Start, Goto, NewJob
<1>2. ASSUME NEW h \in Http, Control(h) PROVE Goal
  BY <1>2, <1>a, Values DEF Control, Arrive, Start, Goto, NewJob
<1>3. ASSUME NEW h \in Http, NEW k \in Kinds, BeginGet(h, k) PROVE Goal
  BY <1>3, <1>a, Values DEF BeginGet, Start, Goto
<1>4. ASSUME NEW c \in Conns, Connect(c) PROVE Goal
  BY <1>4, <1>a, Values DEF Connect, Goto, Start
<1>5. ASSUME NEW c \in Conns, Disconnect(c) PROVE Goal
  <2>1. live' = live \ {c}
    BY <1>5 DEF Disconnect
  <2> QED BY <1>5, <2>1, <1>b DEF Disconnect
<1>6. ASSUME CallbackPanic PROVE Goal
  BY <1>6, <1>a, Values DEF CallbackPanic, Overlapped
<1>7. ASSUME NEW w \in Workers, AddLogEntry(w) PROVE Goal
  BY <1>7, <1>a, Values DEF AddLogEntry, Goto, Start
<1>8. ASSUME NEW w \in Workers, UpdateStatus(w) PROVE Goal
  <2>1. w = Callback /\ ~Updating /\ job[w].device \in Devices
    BY <1>8 DEF UpdateStatus, Updating, Kinds
  <2>2. \A s \in live : Feed!InSync(s)
    BY <2>1, <1>i DEF IInv, FreshInv, Fresh
  <2>3. Applied(deviceStatus[job[w].device], job[w]) \in Status
    BY <2>1, AppliedType
  <2>4. live' = live
    BY <1>8 DEF UpdateStatus, Goto
  <2>5. Feed!Publish(job[w].device, Applied(deviceStatus[job[w].device], job[w]))
    BY <1>8, <2>2, <2>4 DEF UpdateStatus, Feed!Publish
  <2> QED BY <2>1, <2>3, <2>5 DEF Goal, Feed!Next
<1>9. ASSUME NEW w \in Workers, NotAnObject(w) PROVE Goal
  BY <1>9, <1>a, Values DEF NotAnObject
<1>10. ASSUME NEW w \in Workers, BeginBroadcast(w) PROVE Goal
  BY <1>10, <1>a, Values DEF BeginBroadcast, Goto, Start
<1>11. ASSUME NEW w \in Workers, EndBroadcast(w) PROVE Goal
  BY <1>11, <1>a, Values DEF EndBroadcast, NextJob, Start, Goto
<1>12. ASSUME NEW w \in Workers, DeleteClient(w) PROVE Goal
  BY <1>12, <1>a, Values DEF DeleteClient, EndWrite, WriteEnds, Goto, Start
<1>13. ASSUME NEW w \in Workers, MapFault(w) PROVE Goal
  BY <1>13, <1>a, Values DEF MapFault
<1>14. ASSUME NEW w \in Workers, NEW c \in Conns, BroadcastTo(w, c) PROVE Goal
  BY <1>14, <1>a, Values DEF BroadcastTo, BeginWrite, Goto, Start
<1>15. ASSUME NEW g \in Goroutines, Delivered(g) PROVE Goal
  <2> PICK t \in Conns, e \in Devices \cup 0..MaxMessages :
             t = target[g] /\ e = sending[g].of
    BY <1>15 DEF Delivered, Messages
  <2>1. live' = live /\ deviceStatus' = deviceStatus
    BY <1>15 DEF Delivered, EndWrite, Goto
  <2>2. missed' = [missed EXCEPT ![t] = @ \ {<<sending[g].kind, e>>}]
    BY <1>15 DEF Delivered, Item
  <2>3. CASE sending[g].kind = "log"
    <3>1. view' = view
      BY <1>15, <2>3 DEF Delivered, Shown
    <3>2. torn' = torn
      BY <1>m, <2>2, <2>3 DEF StatusesOf
    <3>3. UNCHANGED Feed!vars
      BY <2>1, <3>1, <3>2 DEF Feed!vars, StatusesOf
    <3> QED BY <3>3 DEF Goal
  <2>4. CASE sending[g].kind # "log"
    <3>1. sending[g].kind = "status" /\ job[g].kind = "status"
      BY <1>15, <2>4 DEF Delivered, IInv, SendingInv, Messages, Kinds
    <3>2. e \in Devices /\ sending[g] = Encoded("status", e)
      BY <1>15, <3>1 DEF Delivered, IInv, SendingInv
    <3>3. sending[g].status = deviceStatus[e]
      <4>1. Encoded("status", e).status = deviceStatus[e]
        BY DEF Encoded
      <4> QED BY <3>2, <4>1
    <3>4. view' = [view EXCEPT ![t][e] = deviceStatus[e]]
      BY <1>15, <3>1, <3>3 DEF Delivered, Shown
    <3>5. torn' = [torn EXCEPT ![t] = @ \ {e}]
      <4>1. missed' = [missed EXCEPT ![t] = @ \ {<<"status", e>>}]
        BY <2>2, <3>1
      <4>2. missed'[t] = missed[t] \ {<<"status", e>>} /\ e \in Devices
        BY <1>m, <3>2, <4>1
      <4>3. \A c \in Conns \ {t} : missed'[c] = missed[c]
        BY <1>m, <3>2, <4>1
      <4>4. torn'[t] = torn[t] \ {e}
        BY <1>m, <4>2, <4>3 DEF StatusesOf
      <4>5. \A c \in Conns \ {t} : torn'[c] = torn[c]
        BY <1>m, <4>3 DEF StatusesOf
      <4>6. torn' = [c \in Conns |-> torn'[c]] /\ torn = [c \in Conns |-> torn[c]]
        BY DEF StatusesOf
      <4> HIDE DEF torn
      <4> QED BY <4>4, <4>5, <4>6
    <3>6. Feed!Deliver(t, e)
      BY <2>1, <3>4, <3>5 DEF Feed!Deliver, StatusesOf
    <3> QED BY <2>1, <3>2, <3>6 DEF Goal, Feed!Next
  <2> QED BY <2>3, <2>4
<1>16. ASSUME NEW g \in Goroutines, Lost(g) PROVE Goal
  <2>1. CASE EndWrite(g)
    BY <1>16, <2>1, <1>a DEF Lost, EndWrite, WriteEnds, Goto
  <2>2. CASE Goto(g, "delete")
    BY <1>16, <2>2, <1>a DEF Lost, Goto
  <2> QED BY <1>16, <2>1, <2>2 DEF Lost
<1>17. ASSUME NEW g \in Goroutines, Torn(g) PROVE Goal
  <2> PICK t \in Conns, e \in Devices \cup 0..MaxMessages :
             t = target[g] /\ e = sending[g].of
    BY <1>17 DEF Torn, Overlapped, Messages
  <2>1. /\ live' = live /\ UNCHANGED <<deviceStatus, view>>
        /\ sending[g] \in Messages /\ pc[g] = "write"
    BY <1>17 DEF Torn, Overlapped, EndWrite, Goto
  <2>2. missed' = [missed EXCEPT ![t] = @ \cup {<<sending[g].kind, e>>}]
    BY <1>17 DEF Torn, Item
  <2>3. CASE sending[g].kind = "log"
    <3>1. torn' = torn
      BY <1>m, <2>2, <2>3 DEF StatusesOf
    <3>2. UNCHANGED Feed!vars
      BY <2>1, <3>1 DEF Feed!vars, StatusesOf
    <3> QED BY <3>2 DEF Goal
  <2>4. CASE sending[g].kind # "log"
    <3>1. sending[g].kind = "status" /\ e \in Devices
      BY <2>1, <2>4 DEF IInv, SendingInv, Messages, Kinds
    <3>2. missed' = [missed EXCEPT ![t] = @ \cup {<<"status", e>>}]
      BY <2>2, <3>1
    <3>3. torn' = [torn EXCEPT ![t] = @ \cup {e}]
      <4>2. missed'[t] = missed[t] \cup {<<"status", e>>} /\ e \in Devices
        BY <1>m, <3>1, <3>2
      <4>3. \A c \in Conns \ {t} : missed'[c] = missed[c]
        BY <1>m, <3>1, <3>2
      <4>4. torn'[t] = torn[t] \cup {e}
        BY <1>m, <4>2, <4>3 DEF StatusesOf
      <4>5. \A c \in Conns \ {t} : torn'[c] = torn[c]
        BY <1>m, <4>3 DEF StatusesOf
      <4>6. torn' = [c \in Conns |-> torn'[c]] /\ torn = [c \in Conns |-> torn[c]]
        BY DEF StatusesOf
      <4> HIDE DEF torn
      <4> QED BY <4>4, <4>5, <4>6
    <3>4. Feed!Tear(t, e)
      BY <2>1, <3>3 DEF Feed!Tear, StatusesOf
    <3> QED BY <2>1, <3>1, <3>4 DEF Goal, Feed!Next
  <2> QED BY <2>3, <2>4
<1>18. ASSUME NEW h \in Http, EndGet(h) PROVE Goal
  BY <1>18, <1>a, Values DEF EndGet, Start, Goto
<1>19. ASSUME NEW h \in Http, HttpPanic(h) PROVE Goal
  <2>1. sending[h].kind = "log"
    BY <1>19 DEF HttpPanic, Overlapped, IInv, SendingInv
  <2>2. view' = view /\ live' = live
    BY <1>19, <2>1 DEF HttpPanic, Shown, Start, Goto
  <2> QED BY <1>19, <1>a, <2>2 DEF HttpPanic
<1>20. ASSUME NEW c \in Conns, Register(c) PROVE Goal
  BY <1>20, <1>a, Values DEF Register, Start, Goto
<1>21. ASSUME NEW c \in Conns, BeginSnapshot(c) PROVE Goal
  BY <1>21, <1>a, Values DEF BeginSnapshot, Goto, Start
<1>22. ASSUME NEW c \in Conns, EndSnapshot(c) PROVE Goal
  <2>1. CASE job[c].kind = "status" /\ conn[c] = "open"
    <3>1. \A d \in Devices : Shows(c, d)
      BY <1>22, <2>1 DEF EndSnapshot, IInv, FreshInv, Fresh
    <3>2. Feed!InSync(c)
      BY <3>1, <1>i
    <3>3. live' = live \cup {c}
      BY <1>22, <2>1, Values DEF EndSnapshot, Start, Goto
    <3>4. Feed!Join(c)
      BY <1>22, <3>2, <3>3 DEF EndSnapshot, Feed!Join
    <3> QED BY <3>4 DEF Goal, Feed!Next
  <2>2. CASE job[c].kind # "status"
    <3>1. job[c].kind = "log"
      BY <2>2 DEF Jobs, Kinds
    <3>2. live' = live
      BY <1>22, <3>1, Values DEF EndSnapshot, Start, Goto
    <3> QED BY <1>22, <3>2, <1>a DEF EndSnapshot
  <2>3. CASE conn[c] # "open"
    <3>1. live' = live
      BY <1>22, <2>3, Values DEF EndSnapshot, Start, Goto
    <3> QED BY <1>22, <3>1, <1>a DEF EndSnapshot
  <2> QED BY <2>1, <2>2, <2>3
<1>23. ASSUME NEW c \in Conns, SnapshotPanic(c) PROVE Goal
  <2>1. live' = live \ {c}
    BY <1>23 DEF SnapshotPanic, Overlapped, WriteEnds, Goto
  <2> QED BY <1>23, <2>1, <1>b DEF SnapshotPanic, Overlapped, WriteEnds
<1>24. ASSUME NEW c \in Conns, Unregister(c) PROVE Goal
  BY <1>24, <1>a, Values DEF Unregister, Goto, Start
<1>25. ASSUME NEW c \in Conns, NEW x \in Devices \cup Entries, SendTo(c, x) PROVE Goal
  BY <1>25, <1>a, Values DEF SendTo, BeginWrite, Goto, Start
<1>26. ASSUME NEW w \in Workers, WriterClosed(w) PROVE Goal
  <2>1. target[w] \in Conns /\ live' = live \ {target[w]}
    BY <1>26 DEF WriterClosed, Overlapped, Goto
  <2> QED BY <1>26, <2>1, <1>b DEF WriterClosed, Overlapped
<1> HIDE DEF TypeInv, TypeOK, JobsInv, PlaceInv, TargetInv, Snapping, ghosts, shared,
      writing, browsers, shown, HasStatus, live, torn, Alone
<1>e. ASSUME Environment PROVE Goal
  BY <1>e, <1>1, <1>2, <1>3, <1>4, <1>5 DEF Environment, Forms
<1>w. ASSUME NEW w \in Workers, WorkerStep(w) PROVE Goal
  BY <1>w, <1>7, <1>8, <1>9, <1>10, <1>11, <1>12, <1>13, <1>14, <1>15, <1>16, <1>17,
    <1>26, Places DEF WorkerStep
<1>h. ASSUME NEW h \in Http, HttpStep(h) PROVE Goal
  BY <1>h, <1>18, <1>19 DEF HttpStep
<1>c. ASSUME NEW c \in Conns, HandlerStep(c) PROVE Goal
  BY <1>c, <1>20, <1>21, <1>22, <1>23, <1>24, <1>25, <1>15, <1>16, <1>17, Places
    DEF HandlerStep
<1> QED
  BY <1>e, <1>w, <1>h, <1>c, <1>6, <1>s DEF Next, Step, Stopped, Goal

\* The inductive invariant holds in every state.
THEOREM Invariance == Spec => [](TypeInv /\ IInv)
<1>1. Init => TypeInv /\ IInv
  BY TypeInvInit, IInvInit
<1>2. TypeInv /\ IInv /\ [Next]_vars => (TypeInv /\ IInv)'
  BY TypeInvStep, IInvStep
<1> QED BY <1>1, <1>2, PTL DEF Spec

\* Type correctness: the state keeps its shape, whatever the browsers, the broker and
\* the races of the goroutines do.
THEOREM TypeCorrect == Spec => []TypeOK
<1>1. TypeInv => TypeOK
  BY DEF TypeInv
<1> QED BY <1>1, Invariance, PTL

\* No lost update: a browser with its initial status shows every device as it is,
\* whenever the callback is not in the middle of handleStatusUpdate, or the device's last
\* frame was torn by another goroutine that wrote to the same connection meanwhile: the
\* unlocked WriteJSON calls of handleWebSocket and of the broadcasts are the
\* only way to lose a status on an open connection.
THEOREM NoUpdateIsLost == Spec => []NoLostUpdate
<1>1. TypeInv /\ IInv => NoLostUpdate
  <2> SUFFICES ASSUME TypeInv, IInv, mutex["status"].writer = {},
                      NEW c \in Conns, HasStatus(c)
               PROVE  InSync(c)
    BY DEF NoLostUpdate
  <2>1. ~Updating
    BY DEF IInv, StatusLock
  <2>2. \A d \in Devices : Shows(c, d)
    BY <2>1 DEF IInv, FreshInv, Fresh
  <2> QED BY <2>2 DEF InSync
<1> QED BY <1>1, Invariance, PTL

\* Registration: the broadcasts and the handlers' deferred clean-up never take a working
\* connection out of wsClients, and never leave a finished one in it.
THEOREM RegistryIsSound == Spec => []Registry
<1>1. IInv => Registry
  BY DEF IInv
<1> QED BY <1>1, Invariance, PTL

\* The hub implements the feed: handleStatusUpdate and handleWebSocket let no browser
\* miss a status, not even a short-lived one, but for those torn between two WriteJSON
\* calls on one connection.
THEOREM HubIsAFeed == Spec => ImplementsFeed
<1>1. Init => Feed!Init
  BY DEF Init, Feed!Init, HasStatus
<1>2. TypeInv /\ IInv /\ [Next]_vars => [Feed!Next]_(Feed!vars)
  BY FeedStep
<1> QED BY <1>1, <1>2, Invariance, PTL DEF Spec, ImplementsFeed, Feed!Spec

------------------------------------------------------------------------------
(***************************************************************************)
(* The log, which the callback and the HTTP requests write, and the map of *)
(* the clients, which the broadcasts range over and the handlers change.   *)
(* And what reaches the browsers: the statuses they are shown never get    *)
(* older, and every entry of the log reaches each of them, at least once   *)
(* and at most twice.                                                      *)
(***************************************************************************)
Broadcasting(w) == pc[w] \in {"loop", "write", "delete"}

\* A goroutine has a message that is not in the log yet.
Waiting(w) == pc[w] = "want" /\ job[w].kind = "log"

\* Who ranges over the clients holds the read lock.
ReadersInv == \A w \in Workers : Broadcasting(w) => w \in mutex["ws"].readers

\* The messages of the log have arrived; those on their way to it are different from
\* them and from each other, and, without HTTP requests, later.
LogInv ==
  /\ \A i \in 1 .. Len(mqttLog) : mqttLog[i] <= received
  /\ \A w \in Workers : Waiting(w) =>
       job[w].id <= received /\ \A i \in 1 .. Len(mqttLog) : mqttLog[i] # job[w].id
  /\ \A v, w \in Workers : v # w /\ Waiting(v) /\ Waiting(w) => job[v].id # job[w].id
  /\ Http = {} => \A w \in Workers : Waiting(w) =>
       \A i \in 1 .. Len(mqttLog) : mqttLog[i] < job[w].id

------------------------------------------------------------------------------
(***************************************************************************)
(* The log.                                                                *)
(***************************************************************************)

\* The new entry, and as many of the old ones, in their order, as there is room for.
LEMMA PrependIs ==
  ASSUME NEW S, NEW e \in S, NEW log \in Seq(S), Len(log) <= MQTTLogSize
  PROVE  /\ Len(Prepend(e, log)) \in 1 .. MQTTLogSize /\ Prepend(e, log)[1] = e
         /\ \A i \in 2 .. Len(Prepend(e, log)) :
              i - 1 \in 1 .. Len(log) /\ Prepend(e, log)[i] = log[i - 1]
<1>1. Len(log) \in Nat /\ MQTTLogSize \in Nat \ {0}
  BY LenProperties, HubAssumption
<1>2. <<e>> \in Seq(S) /\ Len(<<e>>) = 1 /\ <<e>>[1] = e
  OBVIOUS
<1>3. CASE Len(log) >= MQTTLogSize
  <2> DEFINE n == MQTTLogSize - 1
             rest == SubSeq(log, 1, n)
  <2>1. n \in Nat /\ n < Len(log) /\ 1 \in Int /\ n \in Int
    BY <1>1, <1>3
  <2>2. \A i \in 1 .. n : log[i] \in S
    BY <1>1, <2>1, ElementOfSeq
  <2> HIDE DEF n
  <2>3. rest \in Seq(S) /\ Len(rest) = n /\ \A i \in 1 .. n : rest[i] = log[i]
    BY <2>1, <2>2, SubSeqProperties
  <2>4. Prepend(e, log) = <<e>> \o rest
    BY <1>3 DEF Prepend, n
  <2> HIDE DEF rest
  <2>5. /\ Len(Prepend(e, log)) = 1 + n
        /\ \A i \in 1 .. 1 + n :
             Prepend(e, log)[i] = IF i <= 1 THEN <<e>>[i] ELSE rest[i - 1]
    BY <1>2, <2>3, <2>4, ConcatProperties
  <2>6. 1 + n = MQTTLogSize
    BY <1>1 DEF n
  <2> QED BY <1>1, <1>2, <2>1, <2>3, <2>5, <2>6
<1>4. CASE ~(Len(log) >= MQTTLogSize)
  <2>1. Prepend(e, log) = <<e>> \o log
    BY <1>4 DEF Prepend
  <2>2. /\ Len(Prepend(e, log)) = 1 + Len(log)
        /\ \A i \in 1 .. 1 + Len(log) :
             Prepend(e, log)[i] = IF i <= 1 THEN <<e>>[i] ELSE log[i - 1]
    BY <1>2, <2>1, ConcatProperties
  <2> QED BY <1>1, <1>2, <1>4, <2>2
<1> QED BY <1>3, <1>4

\* A step that neither logs nor receives.
LEMMA LogStays ==
  ASSUME LogNewestFirst, LogInv, UNCHANGED <<mqttLog, received>>,
         \A w \in Workers : Waiting(w)' => Waiting(w) /\ job'[w] = job[w]
  PROVE  LogNewestFirst' /\ LogInv'
BY DEF LogNewestFirst, LogInv, Waiting

\* A message arrives: its number is a new one.
LEMMA ArriveKeeps ==
  ASSUME TypeOK, LogNewestFirst, LogInv, UNCHANGED mqttLog, received' = received + 1,
         NEW u \in Workers, job'[u].id = received + 1, pc[u] = "idle",
         \A w \in Workers \ {u} : pc'[w] = pc[w] /\ job'[w] = job[w]
  PROVE  LogNewestFirst' /\ LogInv'
<1>1. received \in Nat
  BY HubAssumption DEF TypeOK
<1>2. \A i \in 1 .. Len(mqttLog) : mqttLog[i] \in Nat
  BY ElementOfSeq, HubAssumption DEF TypeOK, Entries
<1>3. \A w \in Workers : job[w].id \in Nat
  BY Places, HubAssumption DEF TypeOK, Jobs
<1>4. LogNewestFirst'
  BY DEF LogNewestFirst
<1>5. \A w \in Workers \ {u} : Waiting(w)' => Waiting(w)
  BY DEF Waiting
<1>6. \A i \in 1 .. Len(mqttLog') : mqttLog'[i] <= received'
  BY <1>1, <1>2 DEF LogInv
<1>7. \A w \in Workers : Waiting(w)' =>
        job'[w].id <= received' /\ \A i \in 1 .. Len(mqttLog') : mqttLog'[i] # job'[w].id
  BY <1>1, <1>2, <1>3, <1>5 DEF LogInv
<1>8. \A v, w \in Workers : v # w /\ Waiting(v)' /\ Waiting(w)' => job'[v].id # job'[w].id
  BY <1>1, <1>3, <1>5 DEF LogInv
<1>9. Http = {} => \A w \in Workers : Waiting(w)' =>
        \A i \in 1 .. Len(mqttLog') : mqttLog'[i] < job'[w].id
  BY <1>1, <1>2, <1>5 DEF LogInv
<1> QED BY <1>4, <1>6, <1>7, <1>8, <1>9 DEF LogInv

\* A message is logged.
LEMMA AddKeeps ==
  ASSUME TypeInv, LogNewestFirst, LogInv, NEW u \in Workers, AddLogEntry(u)
  PROVE  LogNewestFirst' /\ LogInv'
<1> DEFINE e == job[u].id
<1>1. /\ Waiting(u) /\ mqttLog' = Prepend(e, mqttLog)
      /\ pc' = [pc EXCEPT ![u] = "bcast"] /\ UNCHANGED <<received, job>>
  BY DEF AddLogEntry, Waiting, Goto, ghosts
<1>2. e \in Entries /\ mqttLog \in Seq(Entries) /\ Len(mqttLog) <= MQTTLogSize
  BY <1>1, NamedJob DEF TypeInv, TypeOK, LogNewestFirst, Waiting
<1>3. e \in Nat /\ received \in Nat /\ Len(mqttLog) \in Nat
      /\ \A i \in 1 .. Len(mqttLog) : mqttLog[i] \in Nat
  BY <1>2, LenProperties, ElementOfSeq, HubAssumption DEF TypeInv, TypeOK, Entries
<1>4. /\ e <= received /\ \A i \in 1 .. Len(mqttLog) : mqttLog[i] # e
      /\ Http = {} => \A i \in 1 .. Len(mqttLog) : mqttLog[i] < e
  BY <1>1 DEF LogInv
<1>5. /\ Len(mqttLog') \in 1 .. MQTTLogSize /\ mqttLog'[1] = e
      /\ \A i \in 2 .. Len(mqttLog') :
           i - 1 \in 1 .. Len(mqttLog) /\ mqttLog'[i] = mqttLog[i - 1]
  BY <1>1, <1>2, PrependIs
<1>6. \A w \in Workers : Waiting(w)' => Waiting(w) /\ w # u
  BY <1>1, Places DEF Waiting, TypeInv, TypeOK
<1> HIDE DEF e
<1>7. \A i \in 1 .. Len(mqttLog') : i = 1 \/ i \in 2 .. Len(mqttLog')
  BY <1>5, HubAssumption
<1>8. LogNewestFirst'
  <2>1. Len(mqttLog') <= MQTTLogSize
    BY <1>5, HubAssumption
  <2>2. ASSUME NEW i \in 1 .. Len(mqttLog'), NEW j \in 1 .. Len(mqttLog'), i < j
        PROVE  mqttLog'[i] # mqttLog'[j] /\ (Http = {} => mqttLog'[i] > mqttLog'[j])
    <3>1. j \in 2 .. Len(mqttLog') /\ j - 1 \in 1 .. Len(mqttLog)
          /\ mqttLog'[j] = mqttLog[j - 1]
      BY <1>5, <1>7, <2>2
    <3>2. CASE i = 1
      BY <1>3, <1>4, <1>5, <3>1, <3>2
    <3>3. CASE i \in 2 .. Len(mqttLog')
      <4>1. i - 1 \in 1 .. Len(mqttLog) /\ mqttLog'[i] = mqttLog[i - 1] /\ i - 1 < j - 1
        BY <1>5, <2>2, <3>3
      <4> QED BY <3>1, <4>1 DEF LogNewestFirst
    <3> QED BY <1>7, <3>2, <3>3
  <2> QED BY <2>1, <2>2 DEF LogNewestFirst
<1>9. LogInv'
  <2>1. ASSUME NEW i \in 1 .. Len(mqttLog')
        PROVE  mqttLog'[i] = e \/ \E k \in 1 .. Len(mqttLog) : mqttLog'[i] = mqttLog[k]
    BY <1>5, <1>7
  <2>2. \A i \in 1 .. Len(mqttLog') : mqttLog'[i] <= received'
    BY <1>1, <1>4, <2>1 DEF LogInv
  <2>3. \A w \in Workers : Waiting(w)' =>
          job'[w].id <= received' /\ \A i \in 1 .. Len(mqttLog') : mqttLog'[i] # job'[w].id
    BY <1>1, <1>6, <2>1 DEF LogInv, e
  <2>4. \A v, w \in Workers : v # w /\ Waiting(v)' /\ Waiting(w)' => job'[v].id # job'[w].id
    BY <1>1, <1>6 DEF LogInv
  <2>5. Http = {} => ~ \E w \in Workers : w # u
    BY Places
  <2>6. Http = {} => \A w \in Workers : Waiting(w)' =>
          \A i \in 1 .. Len(mqttLog') : mqttLog'[i] < job'[w].id
    BY <1>6, <2>5
  <2> QED BY <2>2, <2>3, <2>4, <2>6 DEF LogInv
<1> QED BY <1>8, <1>9

------------------------------------------------------------------------------
(***************************************************************************)
(* Every step: at most one goroutine moves, and a handler that registers   *)
(* or unregisters has found the map's lock free.                           *)
(***************************************************************************)
AloneStep ==
  \A c \in Conns : pc[c] \in {"reg", "read"} /\ pc'[c] # pc[c] => mutex["ws"].readers = {}

LEMMA HubStep ==
  TypeInv /\ ReadersInv /\ LogNewestFirst /\ LogInv /\ [Next]_vars
    => ReadersInv' /\ AloneStep /\ LogNewestFirst' /\ LogInv'
<1> DEFINE Goal == ReadersInv' /\ AloneStep /\ LogNewestFirst' /\ LogInv'
           Silent == \A w \in Workers : Waiting(w)' => Waiting(w) /\ job'[w] = job[w]
<1> SUFFICES ASSUME TypeInv, ReadersInv, LogNewestFirst, LogInv, [Next]_vars
             PROVE  Goal
  OBVIOUS
<1>t. /\ pc \in [Goroutines -> Labels] /\ job \in [Goroutines -> Jobs]
      /\ mutex \in [Kinds \cup {"ws"} -> Locks] /\ TypeOK /\ PlaceInv
  BY DEF TypeInv, TypeOK
<1>a. ASSUME ReadersInv', AloneStep, Silent, UNCHANGED <<mqttLog, received>> PROVE Goal
  BY <1>a, LogStays
<1> HIDE DEF Goal
<1> USE Places, <1>t DEF ReadersInv, Broadcasting, AloneStep, Waiting, PlaceInv, ghosts, shared
<1>s. CASE UNCHANGED vars
  BY <1>s, <1>a DEF vars
<1>1. ASSUME NEW u \in Workers, NEW d \in Devices \cup {NoDevice}, NEW f \in Forms,
             Arrive(u, d, f)
      PROVE  Goal
  <2>1. /\ pc[u] = "idle" /\ received' = received + 1 /\ UNCHANGED <<mqttLog, mutex>>
        /\ pc' = [pc EXCEPT ![u] = "want"] /\ job' = [job EXCEPT ![u] = NewJob(d, f)]
    BY <1>1 DEF Arrive, Start, Goto
  <2>2. job'[u].id = received + 1
    BY <2>1 DEF NewJob
  <2>3. \A w \in Workers \ {u} : pc'[w] = pc[w] /\ job'[w] = job[w]
    BY <2>1
  <2>4. LogNewestFirst' /\ LogInv'
    BY <2>1, <2>2, <2>3, ArriveKeeps
  <2> QED BY <2>1, <2>4 DEF Goal
<1>2. ASSUME NEW h \in Http, NEW k \in Kinds, BeginGet(h, k) PROVE Goal
  BY <1>2, <1>a DEF BeginGet, Start, Goto, Kinds
<1>3. ASSUME NEW c \in Conns, Connect(c) \/ Disconnect(c) PROVE Goal
  BY <1>3, <1>a DEF Connect, Disconnect, Goto
<1>p. ASSUME CallbackPanic PROVE Goal
  BY <1>p, <1>a DEF CallbackPanic, Overlapped
<1>4. ASSUME NEW w \in Workers, AddLogEntry(w) PROVE Goal
  <2>1. ReadersInv' /\ AloneStep
    BY <1>4 DEF AddLogEntry, Goto, Kinds
  <2> QED BY <1>4, <2>1, AddKeeps DEF Goal
<1>5. ASSUME NEW w \in Workers, UpdateStatus(w) \/ NotAnObject(w) \/ MapFault(w) PROVE Goal
  BY <1>5, <1>a DEF UpdateStatus, NotAnObject, MapFault, Goto, Kinds
<1>6. ASSUME NEW w \in Workers, BeginBroadcast(w) PROVE Goal
  BY <1>6, <1>a DEF BeginBroadcast, Goto, RLock, Locks
<1>7. ASSUME NEW w \in Workers, EndBroadcast(w) PROVE Goal
  <2>1. PICK label \in {"want", "idle"} : pc' = [pc EXCEPT ![w] = label]
    BY <1>7 DEF EndBroadcast, NextJob, Start, Goto
  <2>2. /\ label = "want" => job'[w].kind = "status"
        /\ \A g \in Goroutines \ {w} : job'[g] = job[g]
    <3>1. CASE job[w].kind = "log" /\ job[w].device # NoDevice
      BY <1>7, <3>1 DEF EndBroadcast, NextJob, Start, Goto, Jobs
    <3>2. CASE ~(job[w].kind = "log" /\ job[w].device # NoDevice)
      BY <1>7, <2>1, <3>2 DEF EndBroadcast, NextJob, Start, Goto
    <3> QED BY <3>1, <3>2
  <2>3. \A v \in Workers \ {w} : v \in mutex["ws"].readers => v \in mutex'["ws"].readers
    <3>1. job[w].kind \in Kinds /\ "ws" \notin Kinds
      BY DEF Jobs, Kinds
    <3>2. mutex'["ws"] = RUnlock(mutex["ws"], w)
      BY <1>7, <3>1 DEF EndBroadcast, Unlocking
    <3> QED BY <3>2 DEF RUnlock, Locks
  <2>4. Silent
    BY <2>1, <2>2
  <2>5. ReadersInv' /\ AloneStep
    BY <1>7, <2>1, <2>3 DEF EndBroadcast
  <2> QED BY <1>7, <1>a, <2>4, <2>5 DEF EndBroadcast
<1>8. ASSUME NEW w \in Workers, DeleteClient(w) PROVE Goal
  BY <1>8, <1>a DEF DeleteClient, EndWrite, WriteEnds, Goto
<1>9. ASSUME NEW w \in Workers, NEW c \in Conns, BroadcastTo(w, c) PROVE Goal
  BY <1>9, <1>a DEF BroadcastTo, BeginWrite, Goto
<1>10. ASSUME NEW g \in Goroutines, Delivered(g) \/ Lost(g) \/ Torn(g) \/ WriterClosed(g)
       PROVE  Goal
  BY <1>10, <1>a DEF Delivered, Shown, Lost, Torn, WriterClosed, Overlapped, EndWrite,
       WriteEnds, Goto
<1>11. ASSUME NEW h \in Http, EndGet(h) PROVE Goal
  <2>1. pc' = [pc EXCEPT ![h] = "idle"] /\ job' = [job EXCEPT ![h] = NoJob]
    BY <1>11 DEF EndGet, Start, Goto
  <2>2. mutex'["ws"] = mutex["ws"]
    BY <1>11 DEF EndGet, Jobs, Kinds
  <2> QED BY <1>11, <1>a, <2>1, <2>2 DEF EndGet
<1>12. ASSUME NEW h \in Http, HttpPanic(h) PROVE Goal
  <2>1. pc' = [pc EXCEPT ![h] = "idle"] /\ job' = [job EXCEPT ![h] = NoJob]
    BY <1>12 DEF HttpPanic, Overlapped, WriteEnds, Shown, Start, Goto
  <2>2. mutex'["ws"] = RUnlock(mutex["ws"], h)
    BY <1>12 DEF HttpPanic, Overlapped, WriteEnds, Shown, Kinds
  <2>3. \A v \in Workers \ {h} : v \in mutex["ws"].readers => v \in mutex'["ws"].readers
    BY <2>2 DEF RUnlock, Locks
  <2> QED BY <1>12, <1>a, <2>1, <2>3 DEF HttpPanic, Overlapped, WriteEnds, Shown
<1>13. ASSUME NEW c \in Conns, Register(c) \/ Unregister(c) PROVE Goal
  BY <1>13, <1>a DEF Register, Unregister, Start, Goto, Free
<1>14. ASSUME NEW c \in Conns, BeginSnapshot(c) \/ EndSnapshot(c) PROVE Goal
  <2>1. mutex'["ws"] = mutex["ws"]
    BY <1>14 DEF BeginSnapshot, EndSnapshot, Jobs, Kinds
  <2> QED BY <1>14, <1>a, <2>1 DEF BeginSnapshot, EndSnapshot, Start, Goto
<1>15. ASSUME NEW c \in Conns, SnapshotPanic(c) PROVE Goal
  BY <1>15, <1>a DEF SnapshotPanic, Overlapped, WriteEnds, Goto
<1>16. ASSUME NEW c \in Conns, NEW x \in Devices \cup Entries, SendTo(c, x) PROVE Goal
  BY <1>16, <1>a DEF SendTo, BeginWrite, Goto
<1> HIDE DEF ReadersInv, Broadcasting, AloneStep, Waiting, PlaceInv, ghosts, shared, Silent
<1>e. ASSUME Environment PROVE Goal
  BY <1>e, <1>1, <1>2, <1>3, Places DEF Environment, Receive, Control, Forms
<1>w. ASSUME NEW w \in Workers, WorkerStep(w) PROVE Goal
  BY <1>w, <1>4, <1>5, <1>6, <1>7, <1>8, <1>9, <1>10 DEF WorkerStep
<1>h. ASSUME NEW h \in Http, HttpStep(h) PROVE Goal
  BY <1>h, <1>11, <1>12 DEF HttpStep
<1>c. ASSUME NEW c \in Conns, HandlerStep(c) PROVE Goal
  BY <1>c, <1>10, <1>13, <1>14, <1>15, <1>16 DEF HandlerStep
<1> QED BY <1>e, <1>w, <1>h, <1>c, <1>p, <1>s DEF Next, Step, Stopped

------------------------------------------------------------------------------
(***************************************************************************)
(* Theorems.                                                               *)
(***************************************************************************)

\* The locks of the broadcasts and the numbers of the messages, in every state.
THEOREM LogInvariance == Spec => [](TypeInv /\ ReadersInv /\ LogNewestFirst /\ LogInv)
<1>1. Init => TypeInv /\ ReadersInv /\ LogNewestFirst /\ LogInv
  <2> SUFFICES ASSUME Init PROVE TypeInv /\ ReadersInv /\ LogNewestFirst /\ LogInv
    OBVIOUS
  <2>1. mqttLog = <<>> /\ Len(mqttLog) = 0 /\ received = 0
    BY EmptySeq DEF Init
  <2>2. \A w \in Workers : pc[w] = "idle"
    BY Places DEF Init
  <2> QED BY <2>1, <2>2, TypeInvInit, HubAssumption
        DEF ReadersInv, Broadcasting, LogNewestFirst, LogInv, Waiting
<1>2. TypeInv /\ ReadersInv /\ LogNewestFirst /\ LogInv /\ [Next]_vars
        => (TypeInv /\ ReadersInv /\ LogNewestFirst /\ LogInv)'
  BY HubStep, TypeInvStep
<1> QED BY <1>1, <1>2, PTL DEF Spec

\* LogNewestFirst: addMQTTLogEntry keeps the log within its size and every message in it
\* once, whoever logs, and newest first, if only the callback does.
THEOREM LogIsInOrder == Spec => []LogNewestFirst
BY LogInvariance, PTL

\* HandlerChangesMapAlone: handleWebSocket's insert and delete wait for every broadcast
\* that ranges over wsClients.
THEOREM HandlersChangeMapAlone == Spec => HandlerChangesMapAlone
<1> DEFINE Alone ==
      \A c \in Conns : pc[c] \in {"reg", "read"} /\ pc'[c] # pc[c]
        => \A w \in Workers : pc[w] \notin {"loop", "write", "delete"}
<1>1. TypeInv /\ ReadersInv /\ LogNewestFirst /\ LogInv /\ [Next]_vars => [Alone]_vars
  BY HubStep DEF AloneStep, ReadersInv, Broadcasting
<1> QED BY <1>1, LogInvariance, PTL DEF Spec, HandlerChangesMapAlone

------------------------------------------------------------------------------
(***************************************************************************)
(* The order of the statuses.                                              *)
(***************************************************************************)

\* The callback has a message whose status is still to be applied.
Unapplied == pc[Callback] # "idle" /\ ~Updating

\* The statuses come from messages that have arrived, earlier than the one the callback
\* has yet to apply; a browser is shown none that is newer than the device's.
StatusOrder ==
  /\ job[Callback].id <= received
  /\ \A d \in Devices :
       deviceStatus[d].fields <= received /\ deviceStatus[d].value <= received
  /\ Unapplied => \A d \in Devices :
       deviceStatus[d].fields < job[Callback].id /\ deviceStatus[d].value < job[Callback].id
  /\ \A c \in Conns, d \in Devices : Newest(view[c][d]) <= Newest(deviceStatus[d])

\* What a step does to what a browser is shown.
Forward == \A c \in Conns, d \in Devices : Newest(view'[c][d]) >= Newest(view[c][d])

\* The numbers in the state are natural numbers.
LEMMA Numbers ==
  ASSUME TypeOK
  PROVE  /\ received \in Nat /\ job[Callback].id \in Nat
         /\ \A d \in Devices : deviceStatus[d].fields \in Nat /\ deviceStatus[d].value \in Nat
         /\ \A d \in Devices : Newest(deviceStatus[d]) \in Nat
         /\ \A c \in Conns, d \in Devices : Newest(view[c][d]) \in Nat
<1>1. \A s \in Status : s.fields \in Nat /\ s.value \in Nat /\ Newest(s) \in Nat
  BY HubAssumption DEF Status, Newest
<1>2. \A d \in Devices : deviceStatus[d] \in Status
  BY DEF TypeOK
<1>3. \A c \in Conns, d \in Devices : view[c][d] \in Status
  BY DEF TypeOK
<1>4. job[Callback] \in Jobs
  BY Places DEF TypeOK
<1> QED BY <1>1, <1>2, <1>3, <1>4, HubAssumption DEF TypeOK, Jobs

\* A step that applies nothing and shows nothing.
LEMMA OrderStays ==
  ASSUME TypeOK, StatusOrder, UNCHANGED <<deviceStatus, view, received>>,
         job'[Callback] = job[Callback] \/ job'[Callback].id \in {0, job[Callback].id},
         Unapplied' => Unapplied /\ job'[Callback].id = job[Callback].id
  PROVE  StatusOrder' /\ Forward
<1> USE Numbers
<1>1. Forward
  BY DEF Forward
<1>2. job'[Callback].id <= received'
  BY DEF StatusOrder
<1> QED BY <1>1, <1>2 DEF StatusOrder

\* The status of a message that is newer than all that was there is the newest.
LEMMA AppliedIsNewer ==
  ASSUME NEW s \in Status, NEW j \in Jobs, s.fields < j.id, s.value < j.id
  PROVE  /\ Applied(s, j).fields <= j.id /\ Applied(s, j).value <= j.id
         /\ Newest(s) <= Newest(Applied(s, j))
<1>1. s.fields \in Nat /\ s.value \in Nat /\ j.id \in Nat
  BY HubAssumption DEF Status, Jobs
<1>2. CASE j.form = "object"
  BY <1>1, <1>2 DEF Applied, Newest
<1>3. CASE j.form # "object"
  <2>1. Applied(s, j).fields = s.fields /\ Applied(s, j).value = j.id
    BY <1>3 DEF Applied, Status
  <2> QED BY <1>1, <2>1 DEF Newest
<1> QED BY <1>2, <1>3

LEMMA OrderStep ==
  TypeInv /\ IInv /\ StatusOrder /\ [Next]_vars => StatusOrder' /\ Forward
<1> DEFINE Goal == StatusOrder' /\ Forward
<1> SUFFICES ASSUME TypeInv, IInv, StatusOrder, [Next]_vars PROVE Goal
  OBVIOUS
<1>t. /\ pc \in [Goroutines -> Labels] /\ job \in [Goroutines -> Jobs] /\ TypeOK
      /\ deviceStatus \in [Devices -> Status] /\ JobsInv /\ PlaceInv
  BY DEF TypeInv, TypeOK
<1>a. ASSUME UNCHANGED <<deviceStatus, view, received>>,
             job'[Callback] = job[Callback] \/ job'[Callback].id \in {0, job[Callback].id},
             Unapplied' => Unapplied /\ job'[Callback].id = job[Callback].id
      PROVE  Goal
  BY <1>a, <1>t, OrderStays
<1> HIDE DEF Goal
<1> USE Places, <1>t DEF Unapplied, Updating, PlaceInv, ghosts, shared, browsers, shown
<1>s. CASE UNCHANGED vars
  BY <1>s, <1>a DEF vars
<1>1. ASSUME NEW u \in Workers, NEW d \in Devices \cup {NoDevice}, NEW f \in Forms,
             Arrive(u, d, f)
      PROVE  Goal
  <2>1. /\ UNCHANGED <<deviceStatus, view>> /\ received' = received + 1 /\ pc[u] = "idle"
        /\ pc' = [pc EXCEPT ![u] = "want"] /\ job' = [job EXCEPT ![u] = NewJob(d, f)]
    BY <1>1 DEF Arrive, Start, Goto
  <2>2. job'[u].id = received + 1 /\ job'[u].kind = "log"
    BY <2>1 DEF NewJob
  <2>3. \A w \in Workers \ {u} : pc'[w] = pc[w] /\ job'[w] = job[w]
    BY <2>1
  <2>4. Unapplied' => u = Callback \/ Unapplied
    BY <2>3
  <2>5. Forward
    BY <2>1, Numbers DEF Forward
  <2>6. job'[Callback].id <= received'
    BY <2>1, <2>2, <2>3, Numbers DEF StatusOrder
  <2>7. \A e \in Devices :
          deviceStatus'[e].fields <= received' /\ deviceStatus'[e].value <= received'
    BY <2>1, Numbers DEF StatusOrder
  <2>8. Unapplied' => \A e \in Devices : deviceStatus'[e].fields < job'[Callback].id
                                        /\ deviceStatus'[e].value < job'[Callback].id
    BY <2>1, <2>2, <2>3, <2>4, Numbers DEF StatusOrder
  <2>9. \A c \in Conns, e \in Devices : Newest(view'[c][e]) <= Newest(deviceStatus'[e])
    BY <2>1 DEF StatusOrder
  <2> QED BY <2>5, <2>6, <2>7, <2>8, <2>9 DEF Goal, StatusOrder
<1>2. ASSUME NEW h \in Http, NEW k \in Kinds, BeginGet(h, k) PROVE Goal
  BY <1>2, <1>a DEF BeginGet, Start, Goto
<1>3. ASSUME NEW c \in Conns, Connect(c) \/ Disconnect(c) PROVE Goal
  BY <1>3, <1>a DEF Connect, Disconnect, Goto
<1>p. ASSUME CallbackPanic PROVE Goal
  BY <1>p, <1>a DEF CallbackPanic, Overlapped
<1>4. ASSUME NEW w \in Workers, AddLogEntry(w) PROVE Goal
  BY <1>4, <1>a DEF AddLogEntry, Goto
<1>5. ASSUME NEW w \in Workers, NotAnObject(w) \/ MapFault(w) PROVE Goal
  BY <1>5, <1>a DEF NotAnObject, MapFault
<1>6. ASSUME NEW w \in Workers, UpdateStatus(w) PROVE Goal
  <2> DEFINE j == job[Callback]  e == j.device  s == deviceStatus[e]
  <2>1. w = Callback /\ e \in Devices /\ Unapplied /\ j \in Jobs /\ s \in Status
    BY <1>6 DEF UpdateStatus, JobsInv
  <2>2. /\ deviceStatus' = [deviceStatus EXCEPT ![e] = Applied(s, j)]
        /\ UNCHANGED <<view, received, job>> /\ Updating'
    BY <1>6, <2>1 DEF UpdateStatus, Goto
  <2>3. /\ Applied(s, j).fields <= j.id /\ Applied(s, j).value <= j.id
        /\ Newest(s) <= Newest(Applied(s, j)) /\ Applied(s, j) \in Status
    BY <2>1, AppliedIsNewer, AppliedType DEF StatusOrder
  <2>4. /\ j.id \in Nat
        /\ \A x \in Status : x.fields \in Nat /\ x.value \in Nat /\ Newest(x) \in Nat
    BY Numbers, HubAssumption DEF Status, Newest
  <2> HIDE DEF j, e, s
  <2>5. deviceStatus'[e] = Applied(s, j)
        /\ \A d \in Devices \ {e} : deviceStatus'[d] = deviceStatus[d]
    BY <2>1, <2>2
  <2>6. \A d \in Devices :
          deviceStatus'[d].fields <= received' /\ deviceStatus'[d].value <= received'
    BY <2>1, <2>2, <2>3, <2>4, <2>5, Numbers DEF StatusOrder, j
  <2>7. \A c \in Conns, d \in Devices : Newest(view'[c][d]) <= Newest(deviceStatus'[d])
    BY <2>1, <2>2, <2>3, <2>4, <2>5, Numbers DEF StatusOrder, s
  <2>8. Forward
    BY <2>2, Numbers DEF Forward
  <2> QED BY <2>2, <2>6, <2>7, <2>8 DEF StatusOrder, Goal
<1>7. ASSUME NEW w \in Workers, BeginBroadcast(w) PROVE Goal
  BY <1>7, <1>a DEF BeginBroadcast, Goto
<1>8. ASSUME NEW w \in Workers, EndBroadcast(w) PROVE Goal
  <2>1. UNCHANGED <<deviceStatus, view, received>>
    BY <1>8 DEF EndBroadcast
  <2>2. CASE job[w].kind = "log" /\ job[w].device # NoDevice
    <3>1. /\ pc' = [pc EXCEPT ![w] = "want"]
          /\ job' = [job EXCEPT ![w] = [job[w] EXCEPT !.kind = "status"]]
      BY <1>8, <2>2 DEF EndBroadcast, NextJob, Start, Goto
    <3>2. job'[Callback].id = job[Callback].id
      BY <3>1 DEF Jobs
    <3>3. pc[w] = "loop"
      BY <1>8 DEF EndBroadcast
    <3> QED BY <1>a, <2>1, <2>2, <3>1, <3>2, <3>3
  <2>3. CASE ~(job[w].kind = "log" /\ job[w].device # NoDevice)
    <3>1. pc' = [pc EXCEPT ![w] = "idle"] /\ job' = [job EXCEPT ![w] = NoJob]
      BY <1>8, <2>3 DEF EndBroadcast, NextJob, Start, Goto
    <3> QED BY <1>a, <2>1, <3>1, Values
  <2> QED BY <2>2, <2>3
<1>9. ASSUME NEW w \in Workers, DeleteClient(w) PROVE Goal
  BY <1>9, <1>a DEF DeleteClient, EndWrite, WriteEnds, Goto
<1>10. ASSUME NEW w \in Workers, NEW c \in Conns, BroadcastTo(w, c) PROVE Goal
  BY <1>10, <1>a DEF BroadcastTo, BeginWrite, Goto
<1>11. ASSUME NEW g \in Goroutines, Lost(g) \/ Torn(g) \/ WriterClosed(g) PROVE Goal
  BY <1>11, <1>a DEF Lost, Torn, WriterClosed, Overlapped, EndWrite, WriteEnds, Goto
<1>12. ASSUME NEW g \in Goroutines, Delivered(g) PROVE Goal
  <2> DEFINE e == sending[g].of
  <2>0. pc[g] = "write" /\ target[g] \in Conns
    BY <1>12 DEF Delivered, Shown, TypeInv, TargetInv
  <2>1. /\ UNCHANGED <<deviceStatus, received, job>> /\ pc' = [pc EXCEPT ![g] = "loop"]
        /\ Unapplied' = Unapplied
    BY <1>12, <2>0 DEF Delivered, Shown, EndWrite, WriteEnds, Goto
  <2>2. CASE sending[g].kind = "log"
    BY <1>12, <1>a, <2>1, <2>2 DEF Delivered, Shown
  <2>3. CASE sending[g].kind # "log"
    <3>1. sending[g].kind = "status" /\ job[g].kind = "status"
      BY <2>0, <2>3 DEF IInv, SendingInv, TypeOK, Messages, Kinds
    <3>2. e \in Devices /\ sending[g].status = deviceStatus[e]
      <4>1. Encoded("status", e).status = deviceStatus[e]
        BY DEF Encoded
      <4> QED BY <2>0, <3>1, <4>1 DEF IInv, SendingInv
    <3>3. view' = [view EXCEPT ![target[g]][e] = deviceStatus[e]]
      BY <1>12, <3>1, <3>2 DEF Delivered, Shown
    <3> HIDE DEF e
    <3>4. view \in [Conns -> [Devices -> Status]]
      BY DEF TypeOK
    <3>5. \A c \in Conns, d \in Devices :
            view'[c][d] = view[c][d] \/ view'[c][d] = deviceStatus[d]
      BY <2>0, <3>2, <3>3, <3>4
    <3>6. Forward
      BY <3>5, Numbers DEF Forward, StatusOrder
    <3>7. \A c \in Conns, d \in Devices : Newest(view'[c][d]) <= Newest(deviceStatus'[d])
      BY <2>1, <3>5, Numbers DEF StatusOrder
    <3> QED BY <2>1, <3>6, <3>7 DEF Goal, StatusOrder
  <2> QED BY <2>2, <2>3
<1>13. ASSUME NEW h \in Http, EndGet(h) PROVE Goal
  BY <1>13, <1>a DEF EndGet, Start, Goto
<1>14. ASSUME NEW h \in Http, HttpPanic(h) PROVE Goal
  <2>1. sending[h].kind = "log"
    BY <1>14 DEF HttpPanic, Overlapped, IInv, SendingInv, JobsInv
  <2>2. view' = view
    BY <1>14, <2>1 DEF HttpPanic, Shown
  <2> QED BY <1>14, <1>a, <2>2 DEF HttpPanic, Start, Goto
<1>15. ASSUME NEW c \in Conns, Register(c) \/ Unregister(c) \/ SnapshotPanic(c) PROVE Goal
  BY <1>15, <1>a DEF Register, Unregister, SnapshotPanic, Overlapped, WriteEnds, Start, Goto
<1>16. ASSUME NEW c \in Conns, BeginSnapshot(c) \/ EndSnapshot(c) PROVE Goal
  BY <1>16, <1>a DEF BeginSnapshot, EndSnapshot, Start, Goto
<1>17. ASSUME NEW c \in Conns, NEW x \in Devices \cup Entries, SendTo(c, x) PROVE Goal
  BY <1>17, <1>a DEF SendTo, BeginWrite, Goto
<1> HIDE DEF Unapplied, Updating, PlaceInv, ghosts, shared, browsers, shown
<1>e. ASSUME Environment PROVE Goal
  BY <1>e, <1>1, <1>2, <1>3, Places DEF Environment, Receive, Control, Forms
<1>w. ASSUME NEW w \in Workers, WorkerStep(w) PROVE Goal
  BY <1>w, <1>4, <1>5, <1>6, <1>7, <1>8, <1>9, <1>10, <1>11, <1>12 DEF WorkerStep
<1>h. ASSUME NEW h \in Http, HttpStep(h) PROVE Goal
  BY <1>h, <1>13, <1>14 DEF HttpStep
<1>c. ASSUME NEW c \in Conns, HandlerStep(c) PROVE Goal
  BY <1>c, <1>11, <1>12, <1>15, <1>16, <1>17 DEF HandlerStep
<1> QED BY <1>e, <1>w, <1>h, <1>c, <1>p, <1>s DEF Next, Step, Stopped

------------------------------------------------------------------------------
(***************************************************************************)
(* The log reaches every browser.                                          *)
(***************************************************************************)

\* A goroutine broadcasts its message; it logs it, or is about to.
Held(w) == job[w].kind = "log" /\ pc[w] \in {"bcast", "loop", "write", "delete"}
Logging(w) == Held(w) \/ Waiting(w)

\* Who broadcasts an entry holds the write lock of the log, and no two log the same.
LogLock == \A w \in Workers : Held(w) => mutex["log"].writer = {w}
IdsInv ==
  /\ \A w \in Workers : Logging(w) => job[w].id <= received
  /\ \A v, w \in Workers : v # w /\ Logging(v) /\ Logging(w) => job[v].id # job[w].id

\* What is being written is not written again; a broadcast of the log writes its entry.
OnceInv ==
  /\ \A w \in Workers : pc[w] = "write" =>
       target[w] \notin todo[w] /\ (job[w].kind = "log" => sending[w].of = job[w].id)
  /\ \A c \in Conns : pc[c] = "write" => sending[c].of \notin todo[c]

\* The broadcast of entry e may still come to c, and so may its log snapshot.
Due(w, c) ==
  \/ pc[w] \in {"want", "bcast"} \/ c \in todo[w]
  \/ pc[w] = "write" /\ target[w] = c
ToBroadcast(c, e) ==
  \/ e > received
  \/ \E w \in Workers : Logging(w) /\ job[w].id = e /\ Due(w, c)
ToSnap(c, e) ==
  \/ pc[c] \in {"new", "reg", "snap"} \/ job[c].kind = "status"
  \/ pc[c] \in {"loop", "write"} /\ e \in todo[c]
  \/ pc[c] = "write" /\ sending[c].of = e

\* A browser gets an entry from the broadcast and from the snapshot, once from each.
CountInv ==
  \A c \in Conns, e \in Entries :
    /\ got[c][e] <= 2
    /\ ToBroadcast(c, e) \/ ToSnap(c, e) => got[c][e] <= 1
    /\ ToBroadcast(c, e) /\ ToSnap(c, e) => got[c][e] = 0

\* The broadcast by w has yet to reach c.
OnItsWay(w, c) ==
  \/ pc[w] = "bcast" \/ c \in Remaining(w)
  \/ pc[w] = "write" /\ target[w] = c

\* Browser c has entry e, or will get it, or its broadcast was cut short, or it was torn.
Sent(c, e) ==
  \/ got[c][e] >= 1 \/ e \in aborted \/ <<"log", e>> \in missed[c]
  \/ pc[c] \in {"loop", "write"} /\ e \in todo[c]
  \/ pc[c] = "write" /\ sending[c].of = e
  \/ \E w \in Workers : Held(w) /\ job[w].id = e /\ OnItsWay(w, c)

\* A browser has its log snapshot, or is being sent it.
GetsLog(c) ==
  conn[c] = "open" /\ (pc[c] = "read" \/ (job[c].kind = "log" /\ pc[c] \in {"loop", "write"}))

SentInv == \A c \in Conns : GetsLog(c) => \A i \in 1 .. Len(mqttLog) : Sent(c, mqttLog[i])

\* A step that takes nothing up, and leaves the write lock of the log alone.
LEMMA LocksStay ==
  ASSUME LogLock, IdsInv, mutex'["log"].writer = mutex["log"].writer, UNCHANGED received,
         \A w \in Workers : Held(w)' => Held(w),
         \A w \in Workers : Logging(w)' => Logging(w) /\ job'[w].id = job[w].id
  PROVE  LogLock' /\ IdsInv'
BY DEF LogLock, IdsInv

\* The goroutines that log have a message each, and one at most broadcasts it.
LEMMA LogLockStep == TypeInv /\ LogLock /\ IdsInv /\ [Next]_vars => LogLock' /\ IdsInv'
<1> DEFINE Goal == LogLock' /\ IdsInv'
<1> SUFFICES ASSUME TypeInv, LogLock, IdsInv, [Next]_vars PROVE Goal
  OBVIOUS
<1>t. /\ pc \in [Goroutines -> Labels] /\ job \in [Goroutines -> Jobs] /\ TypeOK
      /\ mutex \in [Kinds \cup {"ws"} -> Locks] /\ JobsInv /\ PlaceInv
  BY DEF TypeInv, TypeOK
<1>a. ASSUME mutex'["log"].writer = mutex["log"].writer, UNCHANGED received,
             \A w \in Workers : Held(w)' => Held(w),
             \A w \in Workers : Logging(w)' => Logging(w) /\ job'[w].id = job[w].id
      PROVE  Goal
  BY <1>a, LocksStay
<1> HIDE DEF Goal
<1> USE Places, <1>t DEF Held, Logging, Waiting, PlaceInv, ghosts, shared
<1>s. CASE UNCHANGED vars
  BY <1>s, <1>a DEF vars
<1>1. ASSUME NEW u \in Workers, NEW d \in Devices \cup {NoDevice}, NEW f \in Forms,
             Arrive(u, d, f)
      PROVE  Goal
  <2>1. /\ UNCHANGED mutex /\ received' = received + 1 /\ pc[u] = "idle"
        /\ pc' = [pc EXCEPT ![u] = "want"] /\ job' = [job EXCEPT ![u] = NewJob(d, f)]
    BY <1>1 DEF Arrive, Start, Goto
  <2>2. job'[u].id = received + 1 /\ received \in Nat
    BY <2>1, HubAssumption DEF NewJob, TypeOK
  <2>3. \A w \in Workers \ {u} : pc'[w] = pc[w] /\ job'[w] = job[w]
    BY <2>1
  <2>4. \A w \in Workers \ {u} : Logging(w)' => Logging(w) /\ job'[w].id \in Nat
    BY <2>3, HubAssumption DEF Jobs
  <2>5. IdsInv'
    BY <2>1, <2>2, <2>3, <2>4 DEF IdsInv
  <2>6. LogLock'
    BY <2>1, <2>3 DEF LogLock
  <2> QED BY <2>5, <2>6 DEF Goal
<1>2. ASSUME NEW h \in Http, NEW k \in Kinds, BeginGet(h, k) PROVE Goal
  BY <1>2, <1>a DEF BeginGet, Start, Goto, Kinds, RLock, Locks
<1>3. ASSUME NEW c \in Conns, Connect(c) \/ Disconnect(c) PROVE Goal
  BY <1>3, <1>a DEF Connect, Disconnect, Goto
<1>p. ASSUME CallbackPanic PROVE Goal
  BY <1>p, <1>a DEF CallbackPanic, Overlapped
<1>4. ASSUME NEW w \in Workers, AddLogEntry(w) PROVE Goal
  <2>1. /\ pc' = [pc EXCEPT ![w] = "bcast"] /\ UNCHANGED <<job, received>> /\ Waiting(w)
        /\ mutex["log"].writer = {} /\ mutex'["log"].writer = {w}
    BY <1>4 DEF AddLogEntry, Goto, Free, Lock, Locks, Kinds
  <2>2. \A v \in Workers : Held(v)' => v = w
    BY <2>1 DEF LogLock
  <2>3. \A v \in Workers : Logging(v)' => Logging(v)
    BY <2>1
  <2> QED BY <2>1, <2>2, <2>3 DEF Goal, LogLock, IdsInv
<1>5. ASSUME NEW w \in Workers, UpdateStatus(w) \/ NotAnObject(w) \/ MapFault(w) PROVE Goal
  BY <1>5, <1>a DEF UpdateStatus, NotAnObject, MapFault, Goto, Kinds
<1>6. ASSUME NEW w \in Workers, BeginBroadcast(w) PROVE Goal
  BY <1>6, <1>a DEF BeginBroadcast, Goto, Kinds
<1>7. ASSUME NEW w \in Workers, EndBroadcast(w) PROVE Goal
  <2>1. PICK label \in {"want", "idle"} : pc' = [pc EXCEPT ![w] = label]
    BY <1>7 DEF EndBroadcast, NextJob, Start, Goto
  <2>2. /\ label = "want" => job'[w].kind = "status"
        /\ \A g \in Goroutines \ {w} : job'[g] = job[g]
    <3>1. CASE job[w].kind = "log" /\ job[w].device # NoDevice
      BY <1>7, <3>1 DEF EndBroadcast, NextJob, Start, Goto, Jobs
    <3>2. CASE ~(job[w].kind = "log" /\ job[w].device # NoDevice)
      BY <1>7, <2>1, <3>2 DEF EndBroadcast, NextJob, Start, Goto
    <3> QED BY <3>1, <3>2
  <2>3. ~Logging(w)' /\ \A v \in Workers \ {w} : Logging(v)' => Logging(v) /\ job'[v] = job[v]
    BY <2>1, <2>2
  <2>4. \A v \in Workers \ {w} : Held(v)' => Held(v)
    BY <2>1, <2>2
  <2>5. job[w].kind = "log" => \A v \in Workers \ {w} : ~Held(v)
    BY <1>7 DEF LogLock, EndBroadcast
  <2>6. job[w].kind # "log" => mutex'["log"].writer = mutex["log"].writer
    BY <1>7 DEF EndBroadcast, Unlocking, Kinds, Jobs
  <2>7. UNCHANGED received
    BY <1>7 DEF EndBroadcast
  <2> QED BY <2>3, <2>4, <2>5, <2>6, <2>7 DEF Goal, LogLock, IdsInv
<1>8. ASSUME NEW w \in Workers, DeleteClient(w) PROVE Goal
  BY <1>8, <1>a DEF DeleteClient, EndWrite, WriteEnds, Goto
<1>9. ASSUME NEW w \in Workers, NEW c \in Conns, BroadcastTo(w, c) PROVE Goal
  BY <1>9, <1>a DEF BroadcastTo, BeginWrite, Goto
<1>10. ASSUME NEW g \in Goroutines, Delivered(g) \/ Lost(g) \/ Torn(g) \/ WriterClosed(g)
       PROVE  Goal
  BY <1>10, <1>a DEF Delivered, Shown, Lost, Torn, WriterClosed, Overlapped, EndWrite,
       WriteEnds, Goto
<1>11. ASSUME NEW h \in Http, EndGet(h) PROVE Goal
  <2>1. pc' = [pc EXCEPT ![h] = "idle"] /\ job' = [job EXCEPT ![h] = NoJob]
    BY <1>11 DEF EndGet, Start, Goto
  <2>2. mutex'["log"].writer = mutex["log"].writer
    BY <1>11 DEF EndGet, Jobs, Kinds, RUnlock, Locks
  <2> QED BY <1>11, <1>a, <2>1, <2>2 DEF EndGet
<1>12. ASSUME NEW h \in Http, HttpPanic(h) PROVE Goal
  <2>1. /\ pc' = [pc EXCEPT ![h] = "idle"] /\ job' = [job EXCEPT ![h] = NoJob]
        /\ pc[h] = "write" /\ UNCHANGED received
    BY <1>12 DEF HttpPanic, Overlapped, WriteEnds, Shown, Start, Goto
  <2>2. job[h].kind = "log" /\ h \in Workers
    BY <2>1 DEF JobsInv
  <2>3. \A v \in Workers : ~Held(v)'
    BY <2>1, <2>2 DEF LogLock
  <2>4. \A v \in Workers : Logging(v)' => Logging(v) /\ job'[v] = job[v]
    BY <2>1
  <2> QED BY <2>1, <2>3, <2>4 DEF Goal, LogLock, IdsInv
<1>13. ASSUME NEW c \in Conns, Register(c) \/ Unregister(c) PROVE Goal
  BY <1>13, <1>a DEF Register, Unregister, Start, Goto
<1>14. ASSUME NEW c \in Conns, BeginSnapshot(c) \/ EndSnapshot(c) PROVE Goal
  <2>1. mutex'["log"].writer = mutex["log"].writer
    BY <1>14 DEF BeginSnapshot, EndSnapshot, Jobs, Kinds, RLock, RUnlock, Locks
  <2> QED BY <1>14, <1>a, <2>1 DEF BeginSnapshot, EndSnapshot, Start, Goto
<1>15. ASSUME NEW c \in Conns, SnapshotPanic(c) PROVE Goal
  BY <1>15, <1>a DEF SnapshotPanic, Overlapped, WriteEnds, Goto
<1>16. ASSUME NEW c \in Conns, NEW x \in Devices \cup Entries, SendTo(c, x) PROVE Goal
  BY <1>16, <1>a DEF SendTo, BeginWrite, Goto
<1> HIDE DEF Held, Logging, Waiting, PlaceInv, ghosts, shared
<1>e. ASSUME Environment PROVE Goal
  BY <1>e, <1>1, <1>2, <1>3, Places DEF Environment, Receive, Control, Forms
<1>w. ASSUME NEW w \in Workers, WorkerStep(w) PROVE Goal
  BY <1>w, <1>4, <1>5, <1>6, <1>7, <1>8, <1>9, <1>10 DEF WorkerStep
<1>h. ASSUME NEW h \in Http, HttpStep(h) PROVE Goal
  BY <1>h, <1>11, <1>12 DEF HttpStep
<1>c. ASSUME NEW c \in Conns, HandlerStep(c) PROVE Goal
  BY <1>c, <1>10, <1>13, <1>14, <1>15, <1>16 DEF HandlerStep
<1> QED BY <1>e, <1>w, <1>h, <1>c, <1>p, <1>s DEF Next, Step, Stopped

\* A step in which nobody begins to write.
LEMMA OnceStays ==
  ASSUME OnceInv,
         \A g \in Goroutines : pc'[g] = "write" =>
           /\ pc[g] = "write" /\ target'[g] = target[g] /\ todo'[g] = todo[g]
           /\ sending'[g] = sending[g] /\ job'[g] = job[g]
  PROVE  OnceInv'
BY Places DEF OnceInv

\* No client and no item is written twice in one broadcast or snapshot.
LEMMA OnceStep == TypeInv /\ OnceInv /\ [Next]_vars => OnceInv'
<1> SUFFICES ASSUME TypeInv, OnceInv, [Next]_vars PROVE OnceInv'
  OBVIOUS
<1>t. /\ pc \in [Goroutines -> Labels] /\ job \in [Goroutines -> Jobs] /\ TypeOK
      /\ todo \in [Goroutines -> SUBSET (Conns \cup Devices \cup Entries)]
      /\ target \in [Goroutines -> Conns \cup {NoConn}]
      /\ sending \in [Goroutines -> Messages] /\ JobsInv /\ PlaceInv
  BY DEF TypeInv, TypeOK
<1> USE Places, <1>t DEF writing
<1>s. CASE UNCHANGED vars
  BY <1>s, OnceStays DEF vars
<1>1. ASSUME NEW u \in Workers, NEW d \in Devices \cup {NoDevice}, NEW f \in Forms,
             Arrive(u, d, f)
      PROVE  OnceInv'
  BY <1>1, OnceStays DEF Arrive, Start, Goto
<1>2. ASSUME NEW h \in Http, NEW k \in Kinds, BeginGet(h, k) PROVE OnceInv'
  BY <1>2, OnceStays DEF BeginGet, Start, Goto
<1>3. ASSUME NEW c \in Conns, Connect(c) \/ Disconnect(c) PROVE OnceInv'
  BY <1>3, OnceStays DEF Connect, Disconnect, Goto
<1>p. ASSUME CallbackPanic PROVE OnceInv'
  BY <1>p, OnceStays DEF CallbackPanic, Overlapped
<1>4. ASSUME NEW w \in Workers, AddLogEntry(w) \/ UpdateStatus(w) PROVE OnceInv'
  BY <1>4, OnceStays DEF AddLogEntry, UpdateStatus, Goto
<1>5. ASSUME NEW w \in Workers, NotAnObject(w) \/ MapFault(w) PROVE OnceInv'
  BY <1>5, OnceStays DEF NotAnObject, MapFault
<1>6. ASSUME NEW w \in Workers, BeginBroadcast(w) PROVE OnceInv'
  BY <1>6, OnceStays DEF BeginBroadcast, Goto
<1>7. ASSUME NEW w \in Workers, EndBroadcast(w) PROVE OnceInv'
  <2>1. PICK label \in {"want", "idle"} : pc' = [pc EXCEPT ![w] = label]
    BY <1>7 DEF EndBroadcast, NextJob, Start, Goto
  <2>2. \A g \in Goroutines \ {w} : job'[g] = job[g]
    BY <1>7 DEF EndBroadcast, NextJob, Start
  <2> QED BY <1>7, <2>1, <2>2, OnceStays DEF EndBroadcast
<1>8. ASSUME NEW w \in Workers, DeleteClient(w) PROVE OnceInv'
  BY <1>8, OnceStays DEF DeleteClient, EndWrite, WriteEnds, Goto
<1>9. ASSUME NEW w \in Workers, NEW c \in Conns, BroadcastTo(w, c) PROVE OnceInv'
  <2> DEFINE x == IF job[w].kind = "log" THEN job[w].id ELSE job[w].device
  <2>1. /\ pc' = [pc EXCEPT ![w] = "write"] /\ target' = [target EXCEPT ![w] = c]
        /\ todo' = [todo EXCEPT ![w] = @ \ {c}] /\ UNCHANGED job
        /\ sending' = [sending EXCEPT ![w] = Encoded(job[w].kind, x)]
    BY <1>9 DEF BroadcastTo, BeginWrite, Goto
  <2>2. sending'[w].of = x
    BY <2>1 DEF Encoded
  <2>3. \A g \in Goroutines \ {w} :
          /\ pc'[g] = pc[g] /\ target'[g] = target[g] /\ todo'[g] = todo[g]
          /\ sending'[g] = sending[g] /\ job'[g] = job[g]
    BY <2>1
  <2> QED BY <2>1, <2>2, <2>3 DEF OnceInv
<1>10. ASSUME NEW g \in Goroutines, Delivered(g) \/ Lost(g) \/ Torn(g) \/ WriterClosed(g)
       PROVE  OnceInv'
  BY <1>10, OnceStays DEF Delivered, Shown, Lost, Torn, WriterClosed, Overlapped, EndWrite,
       WriteEnds, Goto
<1>11. ASSUME NEW h \in Http, EndGet(h) PROVE OnceInv'
  BY <1>11, OnceStays DEF EndGet, Start, Goto
<1>12. ASSUME NEW h \in Http, HttpPanic(h) PROVE OnceInv'
  BY <1>12, OnceStays DEF HttpPanic, Overlapped, WriteEnds, Shown, Start, Goto
<1>13. ASSUME NEW c \in Conns, Register(c) \/ Unregister(c) \/ SnapshotPanic(c) PROVE OnceInv'
  BY <1>13, OnceStays DEF Register, Unregister, SnapshotPanic, Overlapped, WriteEnds, Start,
       Goto
<1>14. ASSUME NEW c \in Conns, BeginSnapshot(c) \/ EndSnapshot(c) PROVE OnceInv'
  BY <1>14, OnceStays DEF BeginSnapshot, EndSnapshot, Start, Goto
<1>15. ASSUME NEW c \in Conns, NEW x \in Devices \cup Entries, SendTo(c, x) PROVE OnceInv'
  <2>1. /\ pc' = [pc EXCEPT ![c] = "write"] /\ target' = [target EXCEPT ![c] = c]
        /\ todo' = [todo EXCEPT ![c] = @ \ {x}] /\ UNCHANGED job
        /\ sending' = [sending EXCEPT ![c] = Encoded(job[c].kind, x)]
    BY <1>15 DEF SendTo, BeginWrite, Goto
  <2>2. sending'[c].of = x
    BY <2>1 DEF Encoded
  <2>3. \A g \in Goroutines \ {c} :
          /\ pc'[g] = pc[g] /\ target'[g] = target[g] /\ todo'[g] = todo[g]
          /\ sending'[g] = sending[g] /\ job'[g] = job[g]
    BY <2>1
  <2> QED BY <2>1, <2>2, <2>3 DEF OnceInv
<1>e. ASSUME Environment PROVE OnceInv'
  BY <1>e, <1>1, <1>2, <1>3 DEF Environment, Receive, Control, Forms
<1>w. ASSUME NEW w \in Workers, WorkerStep(w) PROVE OnceInv'
  BY <1>w, <1>4, <1>5, <1>6, <1>7, <1>8, <1>9, <1>10 DEF WorkerStep
<1>h. ASSUME NEW h \in Http, HttpStep(h) PROVE OnceInv'
  BY <1>h, <1>11, <1>12 DEF HttpStep
<1>c. ASSUME NEW c \in Conns, HandlerStep(c) PROVE OnceInv'
  BY <1>c, <1>10, <1>13, <1>14, <1>15 DEF HandlerStep
<1> QED BY <1>e, <1>w, <1>h, <1>c, <1>p, <1>s DEF Next, Step, Stopped

\* A step that brings no browser an entry, and no entry closer.
LEMMA CountStays ==
  ASSUME CountInv, UNCHANGED got,
         \A c \in Conns, e \in Entries : /\ ToBroadcast(c, e)' => ToBroadcast(c, e)
                                         /\ ToSnap(c, e)' => ToSnap(c, e)
  PROVE  CountInv'
BY DEF CountInv

\* Who is not in a broadcast of the log when it has moved adds nothing to what is due.
LEMMA NothingDue ==
  ASSUME UNCHANGED received,
         \A w \in Workers : Logging(w)' =>
           /\ Logging(w) /\ job'[w].id = job[w].id
           /\ \A c \in Conns : Due(w, c)' => Due(w, c)
  PROVE  \A c \in Conns, e \in Entries : ToBroadcast(c, e)' => ToBroadcast(c, e)
BY DEF ToBroadcast

\* A browser is sent an entry twice at most: once by its broadcast, once by the snapshot.
LEMMA CountStep ==
  TypeInv /\ IInv /\ IdsInv /\ OnceInv /\ CountInv /\ [Next]_vars => CountInv'
<1> SUFFICES ASSUME TypeInv, IInv, IdsInv, OnceInv, CountInv, [Next]_vars PROVE CountInv'
  OBVIOUS
<1>t. /\ pc \in [Goroutines -> Labels] /\ job \in [Goroutines -> Jobs] /\ TypeOK
      /\ todo \in [Goroutines -> SUBSET (Conns \cup Devices \cup Entries)]
      /\ target \in [Goroutines -> Conns \cup {NoConn}]
      /\ sending \in [Goroutines -> Messages] /\ JobsInv /\ PlaceInv
  BY DEF TypeInv, TypeOK
<1> DEFINE Later == \A w \in Workers : Logging(w)' =>
                      /\ Logging(w) /\ job'[w].id = job[w].id
                      /\ \A c \in Conns : Due(w, c)' => Due(w, c)
           SnapLater == \A c \in Conns, e \in Entries : ToSnap(c, e)' => ToSnap(c, e)
<1>a. ASSUME Later, SnapLater, UNCHANGED <<got, received>> PROVE CountInv'
  BY <1>a, CountStays, NothingDue
<1> USE Places, <1>t DEF writing, Held, Logging, Waiting, Due, ToSnap, ghosts, shared,
      browsers, shown, PlaceInv
<1>s. CASE UNCHANGED vars
  BY <1>s, <1>a DEF vars
<1>1. ASSUME NEW u \in Workers, NEW d \in Devices \cup {NoDevice}, NEW f \in Forms,
             Arrive(u, d, f)
      PROVE  CountInv'
  <2>1. /\ UNCHANGED <<todo, target, sending, got>> /\ received' = received + 1
        /\ pc' = [pc EXCEPT ![u] = "want"] /\ job' = [job EXCEPT ![u] = NewJob(d, f)]
        /\ received \in Nat
    BY <1>1, HubAssumption DEF Arrive, Start, Goto, TypeOK
  <2>2. SnapLater
    BY <2>1
  <2>3. ASSUME NEW c \in Conns, NEW e \in Entries, ToBroadcast(c, e)' PROVE ToBroadcast(c, e)
    <3>1. job'[u].id = received + 1 /\ received + 1 > received
      BY <2>1 DEF NewJob
    <3>2. CASE e > received'
      BY <2>1, <3>2, HubAssumption DEF ToBroadcast, Entries
    <3>3. CASE \E w \in Workers : Logging(w)' /\ job'[w].id = e /\ Due(w, c)'
      BY <2>1, <3>1, <3>3 DEF ToBroadcast
    <3> QED BY <2>3, <3>2, <3>3 DEF ToBroadcast
  <2> QED BY <2>1, <2>2, <2>3, CountStays
<1>2. ASSUME NEW h \in Http, NEW k \in Kinds, BeginGet(h, k) PROVE CountInv'
  BY <1>2, <1>a DEF BeginGet, Start, Goto
<1>3. ASSUME NEW c \in Conns, Connect(c) \/ Disconnect(c) PROVE CountInv'
  BY <1>3, <1>a DEF Connect, Disconnect, Goto
<1>p. ASSUME CallbackPanic PROVE CountInv'
  BY <1>p, <1>a DEF CallbackPanic, Overlapped
<1>4. ASSUME NEW w \in Workers, AddLogEntry(w) \/ UpdateStatus(w) PROVE CountInv'
  BY <1>4, <1>a DEF AddLogEntry, UpdateStatus, Goto
<1>5. ASSUME NEW w \in Workers, NotAnObject(w) \/ MapFault(w) PROVE CountInv'
  BY <1>5, <1>a DEF NotAnObject, MapFault
<1>6. ASSUME NEW w \in Workers, BeginBroadcast(w) PROVE CountInv'
  BY <1>6, <1>a DEF BeginBroadcast, Goto
<1>7. ASSUME NEW w \in Workers, EndBroadcast(w) PROVE CountInv'
  <2>1. PICK label \in {"want", "idle"} : pc' = [pc EXCEPT ![w] = label]
    BY <1>7 DEF EndBroadcast, NextJob, Start, Goto
  <2>2. /\ label = "want" => job'[w].kind = "status"
        /\ \A g \in Goroutines \ {w} : job'[g] = job[g]
    <3>1. CASE job[w].kind = "log" /\ job[w].device # NoDevice
      BY <1>7, <3>1 DEF EndBroadcast, NextJob, Start, Goto, Jobs
    <3>2. CASE ~(job[w].kind = "log" /\ job[w].device # NoDevice)
      BY <1>7, <2>1, <3>2 DEF EndBroadcast, NextJob, Start, Goto
    <3> QED BY <3>1, <3>2
  <2>3. Later
    BY <1>7, <2>1, <2>2 DEF EndBroadcast
  <2>4. SnapLater
    BY <1>7, <2>1, <2>2 DEF EndBroadcast
  <2> QED BY <1>7, <1>a, <2>3, <2>4 DEF EndBroadcast
<1>8. ASSUME NEW w \in Workers, DeleteClient(w) PROVE CountInv'
  BY <1>8, <1>a DEF DeleteClient, EndWrite, WriteEnds, Goto
<1>9. ASSUME NEW w \in Workers, NEW c \in Conns, BroadcastTo(w, c) PROVE CountInv'
  BY <1>9, <1>a DEF BroadcastTo, BeginWrite, Goto, Remaining
<1>10. ASSUME NEW g \in Goroutines, Lost(g) \/ Torn(g) \/ WriterClosed(g) PROVE CountInv'
  BY <1>10, <1>a DEF Lost, Torn, WriterClosed, Overlapped, EndWrite, WriteEnds, Goto
<1>i. ASSUME NEW g \in Workers, NEW c \in Conns, pc[g] = "write", job[g].kind = "log",
             c = target[g], Later, SnapLater, UNCHANGED received,
             ~Logging(g)' \/ ~Due(g, c)', got' = [got EXCEPT ![c][job[g].id] = @ + 1]
      PROVE  CountInv'
  <2>e. PICK e \in Entries : e = job[g].id
    BY <1>i, NamedJob
  <2>1. e <= received /\ Logging(g) /\ Due(g, c)
    BY <1>i, <2>e DEF IdsInv
  <2>2. \A c1 \in Conns, e1 \in Entries : ToBroadcast(c1, e1)' => ToBroadcast(c1, e1)
    BY <1>i, NothingDue
  <2>3. ToBroadcast(c, e)
    BY <2>e, <2>1 DEF ToBroadcast
  <2>4. ~ToBroadcast(c, e)'
    <3> HIDE DEF Logging, Due
    <3>1. \A w \in Workers : Logging(w)' /\ job'[w].id = e => w = g
      BY <1>i, <2>e, <2>1 DEF IdsInv
    <3>2. ~(e > received')
      BY <1>i, <2>1, HubAssumption DEF Entries, TypeOK
    <3> QED BY <1>i, <3>1, <3>2 DEF ToBroadcast
  <2> HIDE DEF ToSnap, Later, Logging, Due
  <2>5. ASSUME NEW c1 \in Conns, NEW e1 \in Entries
        PROVE  /\ got'[c1][e1] <= 2
               /\ ToBroadcast(c1, e1)' \/ ToSnap(c1, e1)' => got'[c1][e1] <= 1
               /\ ToBroadcast(c1, e1)' /\ ToSnap(c1, e1)' => got'[c1][e1] = 0
    <3>0. got[c1][e1] \in Nat /\ got \in [Conns -> [Entries -> Nat]]
      BY DEF TypeOK
    <3>1. CASE c1 = c /\ e1 = e
      <4>1. got'[c][e] = got[c][e] + 1
        BY <1>i, <2>e, <3>0, <3>1
      <4> QED BY <1>i, <2>3, <2>4, <3>0, <3>1, <4>1 DEF CountInv
    <3>2. CASE ~(c1 = c /\ e1 = e)
      <4>1. got'[c1][e1] = got[c1][e1]
        BY <1>i, <2>e, <3>0, <3>2
      <4> QED BY <1>i, <2>2, <4>1 DEF CountInv
    <3> QED BY <3>1, <3>2
  <2> QED BY <2>5 DEF CountInv
<1>11. ASSUME NEW g \in Goroutines, Delivered(g) PROVE CountInv'
  <2>c. PICK c \in Conns : c = target[g]
    BY <1>11 DEF Delivered, Shown, TypeInv, TargetInv
  <2>e. PICK e : e = sending[g].of
    OBVIOUS
  <2>1. /\ pc[g] = "write" /\ pc' = [pc EXCEPT ![g] = "loop"]
        /\ UNCHANGED <<job, todo, received>>
        /\ target' = [target EXCEPT ![g] = NoConn]
        /\ sending' = [sending EXCEPT ![g] = NoMessage]
    BY <1>11 DEF Delivered, Shown, EndWrite, WriteEnds, Goto
  <2>2. Later
    BY <2>1
  <2>3. SnapLater
    BY <2>1
  <2>4. \A c1 \in Conns, e1 \in Entries : ToBroadcast(c1, e1)' => ToBroadcast(c1, e1)
    BY <2>1, <2>2, NothingDue
  <2>5. CASE sending[g].kind # "log"
    BY <1>11, <1>a, <2>1, <2>2, <2>3, <2>5 DEF Delivered, Shown
  <2>6. CASE sending[g].kind = "log"
    <3>1. job[g].kind = "log"
      BY <2>1, <2>6 DEF IInv, SendingInv
    <3>2. got' = [got EXCEPT ![c][e] = @ + 1] /\ got \in [Conns -> [Entries -> Nat]]
      BY <1>11, <2>c, <2>e, <2>6 DEF Delivered, Shown, TypeOK
    <3>3. CASE g \in Workers
      <4>1. e = job[g].id /\ c \notin todo[g]
        BY <2>c, <2>e, <2>1, <3>1, <3>3 DEF OnceInv
      <4>2. ~Due(g, c)'
        BY <2>1, <4>1
      <4> HIDE DEF Later, SnapLater, Due, Logging, ToSnap
      <4> QED BY <1>i, <2>c, <2>1, <2>2, <2>3, <3>1, <3>2, <3>3, <4>1, <4>2
    <3>4. CASE g \in Conns
      <4>1. c = g /\ e \notin todo[g]
        BY <2>c, <2>e, <2>1, <3>4 DEF OnceInv, TypeInv, TargetInv
      <4>2. ToSnap(c, e)
        BY <2>e, <2>1, <4>1
      <4>3. ~ToSnap(c, e)'
        BY <2>1, <3>1, <3>4, <4>1
      <4> HIDE DEF ToSnap, Later, SnapLater
      <4>4. ASSUME NEW c1 \in Conns, NEW e1 \in Entries
            PROVE  /\ got'[c1][e1] <= 2
                   /\ ToBroadcast(c1, e1)' \/ ToSnap(c1, e1)' => got'[c1][e1] <= 1
                   /\ ToBroadcast(c1, e1)' /\ ToSnap(c1, e1)' => got'[c1][e1] = 0
        <5>0. got[c1][e1] \in Nat
          BY <3>2
        <5>1. CASE c1 = c /\ e1 = e
          <6>1. got'[c][e] = got[c][e] + 1
            BY <2>1, <3>2, <5>1
          <6> QED BY <2>4, <4>2, <4>3, <5>0, <5>1, <6>1 DEF CountInv
        <5>2. CASE ~(c1 = c /\ e1 = e)
          <6>1. got'[c1][e1] = got[c1][e1]
            BY <2>1, <3>2, <5>2
          <6> QED BY <2>3, <2>4, <6>1 DEF CountInv, SnapLater
        <5> QED BY <5>1, <5>2
      <4> QED BY <4>4 DEF CountInv
    <3> QED BY <3>3, <3>4
  <2> QED BY <2>5, <2>6
<1>12. ASSUME NEW h \in Http, EndGet(h) PROVE CountInv'
  BY <1>12, <1>a DEF EndGet, Start, Goto
<1>13. ASSUME NEW h \in Http, HttpPanic(h) PROVE CountInv'
  <2>1. /\ pc[h] = "write" /\ pc' = [pc EXCEPT ![h] = "idle"] /\ UNCHANGED received
        /\ job' = [job EXCEPT ![h] = NoJob] /\ todo' = [todo EXCEPT ![h] = {}]
        /\ target' = [target EXCEPT ![h] = NoConn]
        /\ sending' = [sending EXCEPT ![h] = NoMessage]
    BY <1>13 DEF HttpPanic, Overlapped, WriteEnds, Start, Goto
  <2>2. Later /\ SnapLater /\ ~Logging(h)'
    BY <2>1
  <2>3. target[h] \in Conns /\ job[h].kind = "log" /\ sending[h].kind = "log"
        /\ sending[h].of = job[h].id
    BY <2>1 DEF TypeInv, TargetInv, IInv, SendingInv, JobsInv, OnceInv
  <2>4. CASE Shown(target[h], sending[h])
    <3>1. got' = [got EXCEPT ![target[h]][job[h].id] = @ + 1]
      BY <2>3, <2>4 DEF Shown
    <3> HIDE DEF Later, SnapLater, Due, Logging, ToSnap
    <3> QED BY <1>i, <2>1, <2>2, <2>3, <3>1
  <2>5. CASE UNCHANGED <<view, got>>
    BY <1>a, <2>1, <2>2, <2>5
  <2> QED BY <1>13, <2>4, <2>5 DEF HttpPanic
<1>14. ASSUME NEW c \in Conns, Register(c) \/ Unregister(c) \/ SnapshotPanic(c) PROVE CountInv'
  BY <1>14, <1>a DEF Register, Unregister, SnapshotPanic, Overlapped, WriteEnds, Start, Goto,
       NoJob
<1>15. ASSUME NEW c \in Conns, BeginSnapshot(c) PROVE CountInv'
  BY <1>15, <1>a DEF BeginSnapshot, Goto
<1>16. ASSUME NEW c \in Conns, EndSnapshot(c) PROVE CountInv'
  BY <1>16, <1>a, Values DEF EndSnapshot, Start, Goto
<1>17. ASSUME NEW c \in Conns, NEW x \in Devices \cup Entries, SendTo(c, x) PROVE CountInv'
  <2>1. /\ pc' = [pc EXCEPT ![c] = "write"] /\ todo' = [todo EXCEPT ![c] = @ \ {x}]
        /\ sending' = [sending EXCEPT ![c] = Encoded(job[c].kind, x)]
        /\ target' = [target EXCEPT ![c] = c]
        /\ UNCHANGED <<job, got, received>> /\ x \in todo[c] /\ pc[c] = "loop"
    BY <1>17 DEF SendTo, BeginWrite, Goto
  <2>2. sending'[c].of = x
    BY <2>1 DEF Encoded
  <2> QED BY <1>a, <2>1, <2>2
<1> HIDE DEF writing, Held, Logging, Waiting, Due, ToSnap, ghosts, shared, browsers, shown,
      PlaceInv,
      Later, SnapLater
<1>e. ASSUME Environment PROVE CountInv'
  BY <1>e, <1>1, <1>2, <1>3 DEF Environment, Receive, Control, Forms
<1>w. ASSUME NEW w \in Workers, WorkerStep(w) PROVE CountInv'
  BY <1>w, <1>4, <1>5, <1>6, <1>7, <1>8, <1>9, <1>10, <1>11 DEF WorkerStep
<1>h. ASSUME NEW h \in Http, HttpStep(h) PROVE CountInv'
  BY <1>h, <1>12, <1>13 DEF HttpStep
<1>c. ASSUME NEW c \in Conns, HandlerStep(c) PROVE CountInv'
  BY <1>c, <1>10, <1>11, <1>14, <1>15, <1>16, <1>17 DEF HandlerStep
<1> QED BY <1>e, <1>w, <1>h, <1>c, <1>p, <1>s DEF Next, Step, Stopped

\* A step that loses no entry a browser has or will get.
LEMMA SentStays ==
  ASSUME TypeOK, SentInv, UNCHANGED mqttLog,
         \A c \in Conns : GetsLog(c)' =>
           GetsLog(c) /\ \A e \in Entries : Sent(c, e) => Sent(c, e)'
  PROVE  SentInv'
<1>1. \A i \in 1 .. Len(mqttLog) : mqttLog[i] \in Entries
  BY ElementOfSeq DEF TypeOK
<1> QED BY <1>1 DEF SentInv

\* Every entry is on its way to every browser that gets the log, until it is there.
LEMMA SentStep ==
  TypeInv /\ IInv /\ LogNewestFirst /\ OnceInv /\ SentInv /\ [Next]_vars => SentInv'
<1> SUFFICES ASSUME TypeInv, IInv, LogNewestFirst, OnceInv, SentInv, [Next]_vars
             PROVE  SentInv'
  OBVIOUS
<1>t. /\ pc \in [Goroutines -> Labels] /\ job \in [Goroutines -> Jobs] /\ TypeOK
      /\ todo \in [Goroutines -> SUBSET (Conns \cup Devices \cup Entries)]
      /\ target \in [Goroutines -> Conns \cup {NoConn}]
      /\ sending \in [Goroutines -> Messages] /\ JobsInv /\ PlaceInv
      /\ conn \in [Conns -> {"new", "open", "closed"}] /\ got \in [Conns -> [Entries -> Nat]]
  BY DEF TypeInv, TypeOK
<1> DEFINE Kept == \A c \in Conns : GetsLog(c)' =>
                     GetsLog(c) /\ \A e \in Entries : Sent(c, e) => Sent(c, e)'
<1>a. ASSUME Kept, UNCHANGED mqttLog PROVE SentInv'
  BY <1>a, <1>t, SentStays
<1> USE Places, <1>t DEF writing, Held, GetsLog, Sent, OnItsWay, Remaining, ghosts, shared,
      browsers, shown, PlaceInv
<1>s. CASE UNCHANGED vars
  BY <1>s, <1>a DEF vars
<1>1. ASSUME NEW u \in Workers, NEW d \in Devices \cup {NoDevice}, NEW f \in Forms,
             Arrive(u, d, f)
      PROVE  SentInv'
  BY <1>1, <1>a DEF Arrive, Start, Goto
<1>2. ASSUME NEW h \in Http, NEW k \in Kinds, BeginGet(h, k) PROVE SentInv'
  BY <1>2, <1>a DEF BeginGet, Start, Goto
<1>3. ASSUME NEW c \in Conns, Connect(c) \/ Disconnect(c) PROVE SentInv'
  <2>1. CASE Connect(c)
    BY <2>1, <1>a DEF Connect, Goto
  <2>2. CASE Disconnect(c)
    <3>1. conn' = [conn EXCEPT ![c] = "closed"]
          /\ UNCHANGED <<pc, job, todo, wsClients, target, sending, got, aborted, mqttLog>>
      BY <2>2 DEF Disconnect
    <3>2. \A c1 \in Conns \ {c} : missed'[c1] = missed[c1]
      BY <2>2 DEF Disconnect
    <3> QED BY <1>a, <3>1, <3>2
  <2> QED BY <1>3, <2>1, <2>2
<1>p. ASSUME CallbackPanic PROVE SentInv'
  BY <1>p, <1>a DEF CallbackPanic, Overlapped
<1>4. ASSUME NEW w \in Workers, AddLogEntry(w) PROVE SentInv'
  <2>1. /\ pc[w] = "want" /\ pc' = [pc EXCEPT ![w] = "bcast"] /\ job[w].kind = "log"
        /\ mqttLog' = Prepend(job[w].id, mqttLog)
        /\ UNCHANGED <<job, todo, wsClients, target, sending, got, aborted, missed, conn>>
    BY <1>4 DEF AddLogEntry, Goto
  <2>2. Kept
    BY <2>1
  <2>3. job[w].id \in Entries /\ mqttLog \in Seq(Entries) /\ Len(mqttLog) <= MQTTLogSize
    BY <2>1, NamedJob DEF TypeInv, TypeOK, LogNewestFirst
  <2>4. \A i \in 1 .. Len(mqttLog) : mqttLog[i] \in Entries
    BY <2>3, ElementOfSeq
  <2>5. ASSUME NEW i \in 1 .. Len(mqttLog')
        PROVE  mqttLog'[i] = job[w].id \/ \E k \in 1 .. Len(mqttLog) : mqttLog'[i] = mqttLog[k]
    <3>1. /\ Len(mqttLog') \in 1 .. MQTTLogSize /\ mqttLog'[1] = job[w].id
          /\ \A k \in 2 .. Len(mqttLog') :
               k - 1 \in 1 .. Len(mqttLog) /\ mqttLog'[k] = mqttLog[k - 1]
      BY <2>1, <2>3, PrependIs
    <3>2. i = 1 \/ i \in 2 .. Len(mqttLog')
      BY <3>1, HubAssumption
    <3> QED BY <3>1, <3>2
  <2>6. \A c \in Conns : Sent(c, job[w].id)'
    BY <2>1
  <2> HIDE DEF Sent, GetsLog, JobsInv, PlaceInv
  <2>7. ASSUME NEW c \in Conns, GetsLog(c)', NEW i \in 1 .. Len(mqttLog')
        PROVE  Sent(c, mqttLog[i])'
    <3>1. PICK e : e = mqttLog'[i]
      OBVIOUS
    <3>2. ASSUME NEW k \in 1 .. Len(mqttLog), e = mqttLog[k] PROVE Sent(c, e)'
      <4>1. e \in Entries /\ Sent(c, e)
        BY <2>2, <2>4, <2>7, <3>2 DEF SentInv
      <4> QED BY <2>2, <2>7, <4>1
    <3>3. Sent(c, e)'
      BY <2>1, <2>5, <2>6, <3>1, <3>2
    <3> QED BY <3>1, <3>3
  <2> QED BY <2>7 DEF SentInv
<1>5. ASSUME NEW w \in Workers, UpdateStatus(w) \/ NotAnObject(w) \/ MapFault(w) PROVE SentInv'
  BY <1>5, <1>a DEF UpdateStatus, NotAnObject, MapFault, Goto
<1>6. ASSUME NEW w \in Workers, BeginBroadcast(w) PROVE SentInv'
  <2>1. /\ pc' = [pc EXCEPT ![w] = "loop"] /\ todo' = [todo EXCEPT ![w] = wsClients]
        /\ UNCHANGED <<job, wsClients, target, sending, got, aborted, missed, conn, mqttLog>>
    BY <1>6 DEF BeginBroadcast, Goto
  <2>2. \A c \in Conns : GetsLog(c) => c \in wsClients
    BY DEF IInv, Registry
  <2> QED BY <1>a, <2>1, <2>2
<1>7. ASSUME NEW w \in Workers, EndBroadcast(w) PROVE SentInv'
  <2>1. PICK label \in {"want", "idle"} : pc' = [pc EXCEPT ![w] = label]
    BY <1>7 DEF EndBroadcast, NextJob, Start, Goto
  <2>2. \A g \in Goroutines \ {w} : job'[g] = job[g] /\ pc'[g] = pc[g] /\ todo'[g] = todo[g]
    BY <1>7 DEF EndBroadcast, NextJob, Start, Goto
  <2>3. pc[w] = "loop" /\ Remaining(w) = {}
        /\ UNCHANGED <<wsClients, target, sending, got, aborted, missed, conn, mqttLog>>
    BY <1>7 DEF EndBroadcast
  <2>4. ASSUME NEW c \in Conns, GetsLog(c)', NEW e \in Entries, Sent(c, e) PROVE Sent(c, e)'
    <3>1. ASSUME NEW v \in Workers, Held(v), job[v].id = e, OnItsWay(v, c)
          PROVE  Sent(c, e)'
      BY <3>1, <2>2, <2>3
    <3> QED BY <2>2, <2>3, <2>4, <3>1
  <2>5. \A c \in Conns : GetsLog(c)' => GetsLog(c)
    BY <2>2, <2>3
  <2> QED BY <1>a, <2>3, <2>4, <2>5
<1>8. ASSUME NEW w \in Workers, DeleteClient(w) PROVE SentInv'
  <2>1. /\ pc[w] = "delete" /\ pc' = [pc EXCEPT ![w] = "loop"]
        /\ wsClients' = wsClients \ {target[w]} /\ target' = [target EXCEPT ![w] = NoConn]
        /\ sending' = [sending EXCEPT ![w] = NoMessage]
        /\ UNCHANGED <<job, todo, got, aborted, missed, conn, mqttLog>>
    BY <1>8 DEF DeleteClient, EndWrite, WriteEnds, Goto
  <2>2. conn[target[w]] = "closed"
    BY <2>1 DEF IInv, ClosedInv
  <2> QED BY <1>a, <2>1, <2>2
<1>9. ASSUME NEW w \in Workers, NEW c \in Conns, BroadcastTo(w, c) PROVE SentInv'
  <2>1. /\ pc[w] = "loop" /\ pc' = [pc EXCEPT ![w] = "write"]
        /\ target' = [target EXCEPT ![w] = c] /\ todo' = [todo EXCEPT ![w] = @ \ {c}]
        /\ \A g \in Conns : sending'[g] = sending[g]
        /\ UNCHANGED <<job, wsClients, got, aborted, missed, conn, mqttLog>>
    BY <1>9 DEF BroadcastTo, BeginWrite, Goto
  <2> QED BY <1>a, <2>1
<1>10. ASSUME NEW g \in Goroutines, Lost(g) PROVE SentInv'
  <2>1. /\ pc[g] = "write" /\ conn[target[g]] = "closed"
        /\ \A p \in Goroutines \ {g} :
             pc'[p] = pc[p] /\ target'[p] = target[p] /\ sending'[p] = sending[p]
        /\ pc'[g] = "loop" \/ (pc'[g] = "delete" /\ g \in Workers)
        /\ UNCHANGED <<job, todo, wsClients, got, aborted, missed, conn, mqttLog>>
    <3>1. CASE EndWrite(g)
      BY <1>10, <3>1 DEF Lost, EndWrite, WriteEnds, Goto
    <3>2. CASE g \in Workers /\ Goto(g, "delete") /\ UNCHANGED writing
      BY <1>10, <3>2 DEF Lost, Goto
    <3> QED BY <1>10, <3>1, <3>2 DEF Lost
  <2>2. g \in Conns => conn[g] = "closed"
    BY <2>1 DEF TypeInv, TargetInv
  <2>3. ASSUME NEW c \in Conns, GetsLog(c)' PROVE GetsLog(c) /\ c # g /\ c # target[g]
    BY <2>1, <2>2, <2>3
  <2>4. ASSUME NEW c \in Conns, GetsLog(c)', NEW e \in Entries, Sent(c, e) PROVE Sent(c, e)'
    <3>1. c # g /\ c # target[g]
      BY <2>3, <2>4
    <3>2. ASSUME NEW v \in Workers, Held(v), job[v].id = e, OnItsWay(v, c)
          PROVE  Held(v)' /\ job'[v].id = e /\ OnItsWay(v, c)'
      BY <2>1, <3>1, <3>2
    <3> QED BY <2>1, <2>4, <3>1, <3>2
  <2> QED BY <1>a, <2>1, <2>3, <2>4
<1>11. ASSUME NEW g \in Goroutines, Torn(g) PROVE SentInv'
  <2>c. PICK c \in Conns : c = target[g]
    BY <1>11 DEF Torn, Overlapped, TypeInv, TargetInv
  <2>1. /\ pc[g] = "write" /\ pc'[g] = "loop"
        /\ \A p \in Goroutines \ {g} :
             pc'[p] = pc[p] /\ target'[p] = target[p] /\ sending'[p] = sending[p]
        /\ UNCHANGED <<job, todo, wsClients, got, aborted, conn, mqttLog>>
    BY <1>11 DEF Torn, Overlapped, EndWrite, WriteEnds, Goto
  <2>2. missed' = [missed EXCEPT ![c] = @ \cup {Item(sending[g])}]
    BY <1>11, <2>c DEF Torn
  <2>3. missed \in [Conns -> SUBSET Items] /\ sending[g].kind = job[g].kind
    BY <2>1 DEF TypeOK, IInv, SendingInv
  <2>4. \A c1 \in Conns : missed[c1] \subseteq missed'[c1]
    BY <2>2, <2>3
  <2>5. ASSUME job[g].kind = "log", NEW e \in Entries, sending[g].of = e
        PROVE  <<"log", e>> \in missed'[c]
    BY <2>2, <2>3, <2>5 DEF Item
  <2>6. g \in Conns => c = g
    BY <2>c, <2>1 DEF TypeInv, TargetInv
  <2>7. g \in Workers /\ job[g].kind = "log" => sending[g].of = job[g].id
    BY <2>1 DEF OnceInv
  <2>8. \A c1 \in Conns : GetsLog(c1)' => GetsLog(c1)
    BY <2>1
  <2>9. ASSUME NEW c1 \in Conns, GetsLog(c1), NEW e \in Entries, Sent(c1, e) PROVE Sent(c1, e)'
    <3>1. CASE got[c1][e] >= 1 \/ e \in aborted \/ <<"log", e>> \in missed[c1]
      BY <2>1, <2>4, <3>1
    <3>2. CASE pc[c1] \in {"loop", "write"} /\ e \in todo[c1]
      BY <2>1, <3>2
    <3>3. CASE pc[c1] = "write" /\ sending[c1].of = e
      BY <2>1, <2>5, <2>6, <2>9, <3>3
    <3>4. ASSUME NEW v \in Workers, Held(v), job[v].id = e, OnItsWay(v, c1) PROVE Sent(c1, e)'
      <4>1. CASE v # g
        BY <2>1, <3>4, <4>1
      <4>2. CASE v = g
        <5>1. c1 \in Remaining(v) \/ c1 = c
          BY <2>1, <2>c, <3>4, <4>2
        <5> QED BY <2>1, <2>5, <2>7, <3>4, <4>2, <5>1
      <4> QED BY <4>1, <4>2
    <3> QED BY <2>9, <3>1, <3>2, <3>3, <3>4
  <2> QED BY <1>a, <2>1, <2>8, <2>9
<1>b. ASSUME NEW w \in Workers, WriterClosed(w) PROVE SentInv'
  <2>1. /\ pc[w] = "write" /\ target[w] \in Conns /\ pc' = [pc EXCEPT ![w] = "delete"]
        /\ conn' = [conn EXCEPT ![target[w]] = "closed"]
        /\ UNCHANGED <<job, todo, wsClients, target, sending, got, aborted, mqttLog>>
    BY <1>b DEF WriterClosed, Overlapped, Goto, TypeInv, TargetInv
  <2>2. \A c \in Conns \ {target[w]} : missed'[c] = missed[c]
    BY <1>b DEF WriterClosed
  <2>3. ASSUME NEW c \in Conns, GetsLog(c)' PROVE GetsLog(c) /\ c # target[w] /\ c # w
    BY <2>1, <2>3
  <2>4. ASSUME NEW c \in Conns, GetsLog(c)', NEW e \in Entries, Sent(c, e) PROVE Sent(c, e)'
    <3>1. c # w /\ c # target[w]
      BY <2>3, <2>4
    <3>2. ASSUME NEW v \in Workers, Held(v), job[v].id = e, OnItsWay(v, c)
          PROVE  Held(v)' /\ job'[v].id = e /\ OnItsWay(v, c)'
      BY <2>1, <3>1, <3>2
    <3> QED BY <2>1, <2>2, <2>4, <3>1, <3>2
  <2> QED BY <1>a, <2>1, <2>3, <2>4
<1>12. ASSUME NEW g \in Goroutines, Delivered(g) PROVE SentInv'
  <2>c. PICK c \in Conns : c = target[g]
    BY <1>12 DEF Delivered, Shown, TypeInv, TargetInv
  <2>1. /\ pc[g] = "write" /\ pc'[g] = "loop"
        /\ \A p \in Goroutines \ {g} :
             pc'[p] = pc[p] /\ target'[p] = target[p] /\ sending'[p] = sending[p]
        /\ UNCHANGED <<job, todo, wsClients, aborted, conn, mqttLog>>
    BY <1>12 DEF Delivered, Shown, EndWrite, WriteEnds, Goto
  <2>2. sending[g].kind = job[g].kind
    BY <2>1 DEF IInv, SendingInv
  <2>3. /\ job[g].kind = "log" => got' = [got EXCEPT ![c][sending[g].of] = @ + 1]
        /\ job[g].kind # "log" => UNCHANGED got
    BY <1>12, <2>c, <2>2 DEF Delivered, Shown
  <2>4. \A c1 \in Conns, e \in Entries :
          got[c1][e] \in Nat /\ got'[c1][e] \in Nat /\ got'[c1][e] >= got[c1][e]
    <3>1. ASSUME NEW c1 \in Conns, NEW e \in Entries
          PROVE  got[c1][e] \in Nat /\ got'[c1][e] \in {got[c1][e], got[c1][e] + 1}
      BY <2>3
    <3> QED BY <3>1
  <2>5. ASSUME job[g].kind = "log", NEW e \in Entries, sending[g].of = e PROVE got'[c][e] >= 1
    <3>1. got'[c][e] = got[c][e] + 1 /\ got[c][e] \in Nat
      BY <2>3, <2>5
    <3> QED BY <3>1
  <2>a. missed' = [missed EXCEPT ![c] = @ \ {Item(sending[g])}]
    BY <1>12, <2>c DEF Delivered
  <2>b. ASSUME NEW c1 \in Conns, NEW e \in Entries,
               <<"log", e>> \in missed[c1], <<"log", e>> \notin missed'[c1]
        PROVE  c1 = c /\ job[g].kind = "log" /\ sending[g].of = e
    <3>1. missed \in [Conns -> SUBSET Items]
      BY DEF TypeOK
    <3>2. c1 = c /\ Item(sending[g]) = <<"log", e>>
      BY <2>a, <2>b, <3>1
    <3> QED BY <2>2, <3>2 DEF Item
  <2>6. g \in Conns => c = g
    BY <2>c, <2>1 DEF TypeInv, TargetInv
  <2>7. g \in Workers /\ job[g].kind = "log" => sending[g].of = job[g].id
    BY <2>1 DEF OnceInv
  <2>8. \A c1 \in Conns : GetsLog(c1)' => GetsLog(c1)
    BY <2>1
  <2>9. ASSUME NEW c1 \in Conns, GetsLog(c1), NEW e \in Entries, Sent(c1, e) PROVE Sent(c1, e)'
    <3>1. CASE got[c1][e] >= 1 \/ e \in aborted
      BY <2>1, <2>4, <2>9, <3>1
    <3>m. CASE <<"log", e>> \in missed[c1]
      BY <2>5, <2>a, <2>b, <3>m
    <3>2. CASE pc[c1] \in {"loop", "write"} /\ e \in todo[c1]
      BY <2>1, <3>2
    <3>3. CASE pc[c1] = "write" /\ sending[c1].of = e
      BY <2>1, <2>5, <2>6, <2>9, <3>3
    <3>4. ASSUME NEW v \in Workers, Held(v), job[v].id = e, OnItsWay(v, c1) PROVE Sent(c1, e)'
      <4>1. CASE v # g
        BY <2>1, <3>4, <4>1
      <4>2. CASE v = g
        <5>1. c1 \in Remaining(v) \/ c1 = c
          BY <2>1, <2>c, <3>4, <4>2
        <5> QED BY <2>1, <2>5, <2>7, <3>4, <4>2, <5>1
      <4> QED BY <4>1, <4>2
    <3> QED BY <2>9, <3>1, <3>m, <3>2, <3>3, <3>4
  <2> QED BY <1>a, <2>1, <2>8, <2>9
<1>13. ASSUME NEW h \in Http, EndGet(h) PROVE SentInv'
  BY <1>13, <1>a DEF EndGet, Start, Goto
<1>14. ASSUME NEW h \in Http, HttpPanic(h) PROVE SentInv'
  <2>1. /\ pc[h] = "write" /\ target[h] \in Conns
        /\ pc' = [pc EXCEPT ![h] = "idle"] /\ job' = [job EXCEPT ![h] = NoJob]
        /\ todo' = [todo EXCEPT ![h] = {}] /\ aborted' = aborted \cup {job[h].id}
        /\ \A g \in Conns : sending'[g] = sending[g]
        /\ \A g \in Goroutines \ {h} : target'[g] = target[g]
        /\ UNCHANGED <<wsClients, conn, missed, mqttLog>>
    BY <1>14 DEF HttpPanic, Overlapped, WriteEnds, Start, Goto, TypeInv, TargetInv
  <2>2. ASSUME NEW c \in Conns, NEW e \in Entries, got[c][e] >= 1 PROVE got'[c][e] >= 1
    <3>1. got[c][e] \in Nat
      OBVIOUS
    <3>2. got' = got \/ got' = [got EXCEPT ![target[h]][sending[h].of] = @ + 1]
      BY <1>14 DEF HttpPanic, Shown
    <3>3. got'[c][e] \in {got[c][e], got[c][e] + 1}
      BY <2>1, <3>2
    <3> QED BY <2>2, <3>1, <3>3
  <2>3. \A c \in Conns : GetsLog(c)' => GetsLog(c)
    BY <2>1
  <2>4. ASSUME NEW c \in Conns, NEW e \in Entries, Sent(c, e) PROVE Sent(c, e)'
    <3>1. ASSUME NEW v \in Workers, Held(v), job[v].id = e, OnItsWay(v, c) PROVE Sent(c, e)'
      <4>1. CASE v = h
        BY <2>1, <3>1, <4>1
      <4>2. CASE v # h
        BY <2>1, <3>1, <4>2
      <4> QED BY <4>1, <4>2
    <3>2. CASE got[c][e] >= 1
      BY <2>2, <3>2
    <3>3. CASE e \in aborted \/ <<"log", e>> \in missed[c]
      BY <2>1, <3>3
    <3>4. CASE pc[c] \in {"loop", "write"} /\ e \in todo[c]
      BY <2>1, <3>4
    <3>5. CASE pc[c] = "write" /\ sending[c].of = e
      BY <2>1, <3>5
    <3> QED BY <2>4, <3>1, <3>2, <3>3, <3>4, <3>5
  <2> QED BY <1>a, <2>1, <2>3, <2>4
<1>15. ASSUME NEW c \in Conns, Register(c) PROVE SentInv'
  BY <1>15, <1>a DEF Register, Start, Goto
<1>16. ASSUME NEW c \in Conns, Unregister(c) PROVE SentInv'
  BY <1>16, <1>a DEF Unregister, Start, Goto
<1>17. ASSUME NEW c \in Conns, SnapshotPanic(c) PROVE SentInv'
  BY <1>17, <1>a DEF SnapshotPanic, Overlapped, WriteEnds, Start, Goto
<1>18. ASSUME NEW c \in Conns, BeginSnapshot(c) PROVE SentInv'
  <2>1. /\ pc[c] = "snap" /\ pc' = [pc EXCEPT ![c] = "loop"]
        /\ todo' = [todo EXCEPT ![c] = SnapshotOf(job[c].kind)]
        /\ UNCHANGED <<job, wsClients, target, sending, got, aborted, missed, conn, mqttLog>>
    BY <1>18 DEF BeginSnapshot, Goto
  <2>2. ASSUME NEW c1 \in Conns, GetsLog(c1)', NEW i \in 1 .. Len(mqttLog')
        PROVE  Sent(c1, mqttLog[i])'
    <3>1. CASE c1 = c
      <4>1. todo'[c] = SnapshotOf("log")
        BY <2>1, <2>2, <3>1
      <4>2. mqttLog[i] \in SnapshotOf("log")
        BY <2>1 DEF SnapshotOf
      <4> QED BY <2>1, <3>1, <4>1, <4>2
    <3>2. CASE c1 # c
      <4>1. PICK e : e = mqttLog[i]
        OBVIOUS
      <4>2. GetsLog(c1)
        BY <2>1, <2>2, <3>2
      <4> HIDE DEF Sent
      <4>3. Sent(c1, e)
        BY <2>1, <4>1, <4>2 DEF SentInv
      <4> USE DEF Sent
      <4>4. Sent(c1, e)'
        BY <2>1, <3>2, <4>3
      <4> QED BY <2>1, <4>1, <4>4
    <3> QED BY <3>1, <3>2
  <2> HIDE DEF Sent, GetsLog
  <2> QED BY <2>1, <2>2 DEF SentInv
<1>19. ASSUME NEW c \in Conns, EndSnapshot(c) PROVE SentInv'
  <2>1. CASE job[c].kind = "status"
    BY <1>19, <1>a, <2>1 DEF EndSnapshot, Start, Goto
  <2>2. CASE job[c].kind # "status"
    <3>1. job[c].kind = "log"
      BY <2>2 DEF Jobs, Kinds
    <3>2. /\ pc[c] = "loop" /\ pc' = [pc EXCEPT ![c] = "read"] /\ todo[c] = {}
          /\ job' = [job EXCEPT ![c] = NoJob]
          /\ UNCHANGED <<todo, wsClients, target, sending, got, aborted, missed, conn,
                         mqttLog>>
      BY <1>19, <2>2 DEF EndSnapshot, Start, Goto
    <3> QED BY <1>a, <3>1, <3>2
  <2> QED BY <2>1, <2>2
<1>20. ASSUME NEW c \in Conns, NEW x \in Devices \cup Entries, SendTo(c, x) PROVE SentInv'
  <2>1. /\ pc[c] = "loop" /\ pc' = [pc EXCEPT ![c] = "write"]
        /\ todo' = [todo EXCEPT ![c] = @ \ {x}] /\ target' = [target EXCEPT ![c] = c]
        /\ sending' = [sending EXCEPT ![c] = Encoded(job[c].kind, x)]
        /\ UNCHANGED <<job, wsClients, got, aborted, missed, conn, mqttLog>>
    BY <1>20 DEF SendTo, BeginWrite, Goto
  <2>2. sending'[c].of = x
    BY <2>1 DEF Encoded
  <2> QED BY <1>a, <2>1, <2>2
<1> HIDE DEF writing, Held, GetsLog, Sent, OnItsWay, Remaining, ghosts, shared, browsers,
      shown,
      PlaceInv, Kept
<1>e. ASSUME Environment PROVE SentInv'
  BY <1>e, <1>1, <1>2, <1>3 DEF Environment, Receive, Control, Forms
<1>w. ASSUME NEW w \in Workers, WorkerStep(w) PROVE SentInv'
  BY <1>w, <1>4, <1>5, <1>6, <1>7, <1>8, <1>9, <1>10, <1>11, <1>12, <1>b DEF WorkerStep
<1>h. ASSUME NEW h \in Http, HttpStep(h) PROVE SentInv'
  BY <1>h, <1>13, <1>14 DEF HttpStep
<1>c. ASSUME NEW c \in Conns, HandlerStep(c) PROVE SentInv'
  BY <1>c, <1>10, <1>11, <1>12, <1>15, <1>16, <1>17, <1>18, <1>19, <1>20 DEF HandlerStep
<1> QED BY <1>e, <1>w, <1>h, <1>c, <1>p, <1>s DEF Next, Step, Stopped

------------------------------------------------------------------------------
(***************************************************************************)
(* Theorems.                                                               *)
(***************************************************************************)

\* The order of the statuses, in every state.
THEOREM OrderInvariance == Spec => []StatusOrder
<1>1. Init => StatusOrder
  <2> SUFFICES ASSUME Init PROVE StatusOrder
    OBVIOUS
  <2>1. received = 0 /\ job[Callback].id = 0 /\ pc[Callback] = "idle"
    BY Places, Values DEF Init
  <2>2. \A d \in Devices : deviceStatus[d] = NoStatus
    BY DEF Init
  <2>3. \A c \in Conns, d \in Devices : view[c][d] = NoStatus
    BY DEF Init
  <2>4. NoStatus.fields = 0 /\ NoStatus.value = 0 /\ Newest(NoStatus) = 0
    BY DEF NoStatus, Newest
  <2> QED BY <2>1, <2>2, <2>3, <2>4 DEF StatusOrder, Unapplied
<1>2. TypeInv /\ IInv /\ StatusOrder /\ [Next]_vars => StatusOrder'
  BY OrderStep
<1> QED BY <1>1, <1>2, Invariance, PTL DEF Spec

\* NeverGoesBack: the snapshot of handleWebSocket and the broadcasts of
\* handleStatusUpdate, written by different goroutines, reach a browser in the order of
\* the updates.
THEOREM ViewsNeverGoBack == Spec => NeverGoesBack
<1>1. TypeInv /\ IInv /\ StatusOrder /\ [Next]_vars => [Forward]_vars
  BY OrderStep
<1>2. [Forward]_vars =>
        [\A c \in Conns, d \in Devices : Newest(view'[c][d]) >= Newest(view[c][d])]_vars
  BY DEF Forward
<1> QED BY <1>1, <1>2, Invariance, OrderInvariance, PTL DEF Spec, NeverGoesBack

\* The way of every log entry to every browser.
DeliveryInv == LogLock /\ IdsInv /\ OnceInv /\ CountInv /\ SentInv

THEOREM DeliveryInvariance == Spec => []DeliveryInv
<1>1. Init => DeliveryInv
  <2> SUFFICES ASSUME Init PROVE DeliveryInv
    OBVIOUS
  <2>1. /\ \A w \in Workers : pc[w] = "idle"
        /\ \A c \in Conns : pc[c] = "new"
    BY Places DEF Init
  <2>2. \A c \in Conns, e \in Entries : got[c][e] = 0
    BY DEF Init
  <2>3. LogLock /\ IdsInv /\ OnceInv
    BY <2>1 DEF LogLock, IdsInv, OnceInv, Held, Logging, Waiting
  <2>4. CountInv
    BY <2>2 DEF CountInv
  <2>5. SentInv
    BY <2>1 DEF SentInv, GetsLog
  <2> QED BY <2>3, <2>4, <2>5 DEF DeliveryInv
<1>2. TypeInv /\ IInv /\ LogNewestFirst /\ DeliveryInv /\ [Next]_vars => DeliveryInv'
  BY LogLockStep, OnceStep, CountStep, SentStep DEF DeliveryInv
<1> QED BY <1>1, <1>2, Invariance, LogInvariance, PTL DEF Spec

\* LogDelivered: addMQTTLogEntry and handleWebSocket between them send every entry to every
\* browser, and never more than once each, whatever clients come, go and fail meanwhile.
\* Only a recovered panic of a broadcast, or a frame torn between two WriteJSON calls on
\* the browser's connection, keeps an entry from it.
THEOREM LogIsDelivered == Spec => []LogDelivered
<1>1. TypeInv /\ DeliveryInv => LogDelivered
  <2> SUFFICES ASSUME TypeInv, DeliveryInv, mutex["log"].writer = {},
                      NEW c \in Conns, NEW i \in 1 .. Len(mqttLog), HasLog(c)
               PROVE  /\ got[c][mqttLog[i]] <= 2
                      /\ \/ got[c][mqttLog[i]] >= 1 \/ mqttLog[i] \in aborted
                         \/ <<"log", mqttLog[i]>> \in missed[c]
    BY DEF LogDelivered
  <2>1. mqttLog[i] \in Entries
    BY ElementOfSeq DEF TypeInv, TypeOK
  <2>2. \A w \in Workers : ~Held(w)
    BY DEF DeliveryInv, LogLock
  <2>3. Sent(c, mqttLog[i]) /\ pc[c] = "read"
    BY DEF DeliveryInv, SentInv, HasLog, GetsLog
  <2> QED BY <2>1, <2>2, <2>3 DEF DeliveryInv, CountInv, Sent
<1> QED BY <1>1, Invariance, DeliveryInvariance, PTL

------------------------------------------------------------------------------
(***************************************************************************)
(* Who has which mutex, and why nobody waits in a circle: whoever has      *)
(* wsMutex needs no mutex, and whoever has one of the other two needs at   *)
(* most wsMutex.                                                           *)
(***************************************************************************)

\* A worker has changed what the lock of k guards, and broadcasts it.
Changing(w, k) == job[w].kind = k /\ pc[w] \in {"bcast", "loop", "write", "delete"}

\* A request encodes what the lock of k guards, or a handler sends it, or died doing so.
Reading(g, k) ==
  /\ job[g].kind = k
  /\ \/ g \in Http /\ pc[g] = "get"
     \/ g \in Conns /\ pc[g] \in {"loop", "write", "dead"}

\* The map's lock: a handler's write lock lasts one step, only broadcasts read.
MapLock ==
  /\ mutex["ws"].writer = {}
  /\ \A g \in mutex["ws"].readers : g \in Workers /\ Broadcasting(g)

\* The locks of the data.
DataLock(k) ==
  /\ \A g \in mutex[k].writer : g \in Workers /\ Changing(g, k)
  /\ \A g \in mutex[k].readers : Reading(g, k)

HoldersInv == MapLock /\ \A k \in Kinds : DataLock(k)

\* A step that takes no lock, and after which whoever has one is still where it was.
LEMMA HoldersStay ==
  ASSUME HoldersInv, UNCHANGED mutex,
         \A w \in Workers : Broadcasting(w) => Broadcasting(w)',
         \A w \in Workers, k \in Kinds : Changing(w, k) => Changing(w, k)',
         \A g \in Goroutines, k \in Kinds : Reading(g, k) => Reading(g, k)'
  PROVE  HoldersInv'
<1>1. \A k \in Kinds : \A g : Reading(g, k) => g \in Goroutines
  BY Places DEF Reading
<1> QED BY <1>1 DEF HoldersInv, MapLock, DataLock

\* Every step keeps the locks with those who take them.
LEMMA HoldersStep == TypeInv /\ HoldersInv /\ [Next]_vars => HoldersInv'
<1> SUFFICES ASSUME TypeInv, HoldersInv, [Next]_vars PROVE HoldersInv'
  OBVIOUS
<1>t. /\ pc \in [Goroutines -> Labels] /\ job \in [Goroutines -> Jobs]
      /\ mutex \in [Kinds \cup {"ws"} -> Locks] /\ PlaceInv
  BY DEF TypeInv, TypeOK
<1>k. "ws" \notin Kinds /\ \A g \in Goroutines : job[g].kind \in Kinds
  BY <1>t DEF Jobs, Kinds
<1>a. ASSUME UNCHANGED mutex, \A w \in Workers : Broadcasting(w) => Broadcasting(w)',
             \A w \in Workers, k \in Kinds : Changing(w, k) => Changing(w, k)',
             \A g \in Goroutines, k \in Kinds : Reading(g, k) => Reading(g, k)'
      PROVE  HoldersInv'
  BY <1>a, HoldersStay
<1> USE Places, <1>t, <1>k DEF Broadcasting, Changing, Reading, PlaceInv
<1>s. CASE UNCHANGED vars
  BY <1>s, <1>a DEF vars
<1>1. ASSUME NEW u \in Workers, NEW d \in Devices \cup {NoDevice}, NEW f \in Forms,
             Arrive(u, d, f)
      PROVE  HoldersInv'
  <2>1. /\ UNCHANGED mutex /\ pc[u] = "idle" /\ pc' = [pc EXCEPT ![u] = "want"]
        /\ \A g \in Goroutines \ {u} : job'[g] = job[g]
    BY <1>1 DEF Arrive, Start, Goto
  <2> QED BY <1>a, <2>1
<1>2. ASSUME NEW h \in Http, NEW k \in Kinds, BeginGet(h, k) PROVE HoldersInv'
  <2>1. /\ pc[h] = "idle" /\ pc' = [pc EXCEPT ![h] = "get"] /\ h \in Workers
        /\ job' = [job EXCEPT ![h] = [NoJob EXCEPT !.kind = k]]
        /\ mutex' = [mutex EXCEPT ![k] = RLock(@, h)]
    BY <1>2 DEF BeginGet, Start, Goto
  <2>2. job'[h].kind = k /\ \A g \in Goroutines \ {h} : job'[g] = job[g] /\ pc'[g] = pc[g]
    BY <2>1 DEF NoJob
  <2>3. /\ mutex'["ws"] = mutex["ws"] /\ \A i \in Kinds \ {k} : mutex'[i] = mutex[i]
        /\ mutex'[k].writer = mutex[k].writer
        /\ mutex'[k].readers = mutex[k].readers \cup {h}
    BY <2>1 DEF RLock, Locks
  <2>4. MapLock'
    BY <2>1, <2>2, <2>3 DEF HoldersInv, MapLock
  <2>5. \A i \in Kinds : DataLock(i)'
    BY <2>1, <2>2, <2>3 DEF HoldersInv, DataLock
  <2> QED BY <2>4, <2>5 DEF HoldersInv
<1>3. ASSUME NEW c \in Conns, Connect(c) \/ Disconnect(c) PROVE HoldersInv'
  BY <1>3, <1>a DEF Connect, Disconnect, Goto
<1>p. ASSUME CallbackPanic PROVE HoldersInv'
  BY <1>p, <1>a DEF CallbackPanic, Overlapped
<1>4. ASSUME NEW w \in Workers, NEW k \in Kinds, pc[w] = "want", job[w].kind = k,
             mutex' = [mutex EXCEPT ![k] = Lock(@, w)], Goto(w, "bcast"), UNCHANGED job
      PROVE  HoldersInv'
  <2>1. pc' = [pc EXCEPT ![w] = "bcast"]
    BY <1>4 DEF Goto
  <2>2. /\ mutex'["ws"] = mutex["ws"] /\ \A i \in Kinds \ {k} : mutex'[i] = mutex[i]
        /\ mutex'[k].writer = {w} /\ mutex'[k].readers = mutex[k].readers
    BY <1>4 DEF Lock, Locks
  <2>3. MapLock'
    BY <1>4, <2>1, <2>2 DEF HoldersInv, MapLock
  <2>4. \A i \in Kinds : DataLock(i)'
    BY <1>4, <2>1, <2>2 DEF HoldersInv, DataLock
  <2> QED BY <2>3, <2>4 DEF HoldersInv
<1>5. ASSUME NEW w \in Workers,
             AddLogEntry(w) \/ UpdateStatus(w) \/ NotAnObject(w) \/ MapFault(w)
      PROVE  HoldersInv'
  <2>1. CASE AddLogEntry(w)
    BY <2>1, <1>4, Values DEF AddLogEntry
  <2>2. CASE UpdateStatus(w)
    BY <2>2, <1>4, Values DEF UpdateStatus
  <2>3. CASE NotAnObject(w) \/ MapFault(w)
    BY <2>3, <1>a DEF NotAnObject, MapFault
  <2> QED BY <1>5, <2>1, <2>2, <2>3
<1>6. ASSUME NEW w \in Workers, BeginBroadcast(w) PROVE HoldersInv'
  <2>1. /\ pc[w] = "bcast" /\ pc' = [pc EXCEPT ![w] = "loop"] /\ UNCHANGED job
        /\ mutex' = [mutex EXCEPT !["ws"] = RLock(@, w)]
    BY <1>6 DEF BeginBroadcast, Goto
  <2>2. /\ mutex'["ws"].writer = mutex["ws"].writer
        /\ mutex'["ws"].readers = mutex["ws"].readers \cup {w}
        /\ \A i \in Kinds : mutex'[i] = mutex[i]
    BY <2>1 DEF RLock, Locks
  <2>3. MapLock'
    BY <2>1, <2>2 DEF HoldersInv, MapLock
  <2>4. \A i \in Kinds : DataLock(i)'
    BY <2>1, <2>2 DEF HoldersInv, DataLock
  <2> QED BY <2>3, <2>4 DEF HoldersInv
<1>7. ASSUME NEW w \in Workers, NEW j, NEW label, NEW k \in Kinds,
             pc[w] \in {"loop", "write"}, job[w].kind = k,
             pc' = [pc EXCEPT ![w] = label], job' = [job EXCEPT ![w] = j],
             mutex' = [mutex EXCEPT !["ws"] = RUnlock(@, w), ![k] = Unlock(@)]
      PROVE  HoldersInv'
  <2>1. /\ mutex'["ws"].writer = mutex["ws"].writer
        /\ mutex'["ws"].readers = mutex["ws"].readers \ {w}
        /\ \A i \in Kinds \ {k} : mutex'[i] = mutex[i]
        /\ mutex'[k].writer = {} /\ mutex'[k].readers = mutex[k].readers
    BY <1>7 DEF RUnlock, Unlock, Locks
  <2>2. \A g \in Goroutines \ {w} : job'[g] = job[g] /\ pc'[g] = pc[g]
    BY <1>7
  <2>3. \A i \in Kinds : ~Reading(w, i) /\ (i # k => ~Changing(w, i))
    BY <1>7
  <2>4. MapLock'
    BY <2>1, <2>2 DEF HoldersInv, MapLock
  <2>5. \A i \in Kinds : DataLock(i)'
    BY <2>1, <2>2, <2>3 DEF HoldersInv, DataLock
  <2> QED BY <2>4, <2>5 DEF HoldersInv
<1>8. ASSUME NEW w \in Workers, EndBroadcast(w) PROVE HoldersInv'
  <2>1. PICK label, j : pc' = [pc EXCEPT ![w] = label] /\ job' = [job EXCEPT ![w] = j]
    BY <1>8 DEF EndBroadcast, NextJob, Start, Goto
  <2> QED BY <1>7, <1>8, <2>1 DEF EndBroadcast, Unlocking
<1>9. ASSUME NEW h \in Http, HttpPanic(h) PROVE HoldersInv'
  <2>1. h \in Workers /\ pc[h] = "write" /\ job[h].kind = "log"
    BY <1>9 DEF HttpPanic, Overlapped, WriteEnds, Shown, TypeInv, JobsInv
  <2> QED BY <1>7, <1>9, <2>1, Values DEF HttpPanic, Overlapped, WriteEnds, Shown, Start, Goto
<1>10. ASSUME NEW w \in Workers, DeleteClient(w) PROVE HoldersInv'
  BY <1>10, <1>a DEF DeleteClient, EndWrite, WriteEnds, Goto
<1>11. ASSUME NEW w \in Workers, NEW c \in Conns, BroadcastTo(w, c) PROVE HoldersInv'
  BY <1>11, <1>a DEF BroadcastTo, BeginWrite, Goto
<1>12. ASSUME NEW g \in Goroutines,
              \/ Delivered(g) \/ Lost(g) \/ Torn(g)
              \/ g \in Workers /\ WriterClosed(g)
       PROVE  HoldersInv'
  <2>1. /\ pc[g] = "write" /\ UNCHANGED <<job, mutex>>
        /\ \A p \in Goroutines \ {g} : pc'[p] = pc[p]
        /\ pc'[g] = "loop" \/ (g \in Workers /\ pc'[g] = "delete")
    <3>1. CASE Delivered(g) \/ Torn(g)
      BY <3>1 DEF Delivered, Torn, Overlapped, EndWrite, WriteEnds, Goto
    <3>2. CASE Lost(g)
      BY <3>2 DEF Lost, EndWrite, WriteEnds, Goto
    <3>3. CASE g \in Workers /\ WriterClosed(g)
      BY <3>3 DEF WriterClosed, Overlapped, Goto
    <3> QED BY <1>12, <3>1, <3>2, <3>3
  <2> QED BY <1>a, <2>1
<1>13. ASSUME NEW g \in Goroutines, NEW j, NEW label, NEW k \in Kinds, job[g].kind = k,
             pc[g] = IF g \in Conns THEN "loop" ELSE "get",
             pc' = [pc EXCEPT ![g] = label], job' = [job EXCEPT ![g] = j],
             mutex' = [mutex EXCEPT ![k] = RUnlock(@, g)]
      PROVE  HoldersInv'
  <2>1. /\ mutex'["ws"] = mutex["ws"] /\ \A i \in Kinds \ {k} : mutex'[i] = mutex[i]
        /\ mutex'[k].writer = mutex[k].writer
        /\ mutex'[k].readers = mutex[k].readers \ {g}
    BY <1>13 DEF RUnlock, Locks
  <2>2. \A p \in Goroutines \ {g} : job'[p] = job[p] /\ pc'[p] = pc[p]
    BY <1>13
  <2>3. /\ g \in Workers => ~Broadcasting(g) /\ \A i \in Kinds : ~Changing(g, i)
        /\ \A i \in Kinds \ {k} : ~Reading(g, i)
    BY <1>13
  <2>4. MapLock'
    BY <2>1, <2>2, <2>3 DEF HoldersInv, MapLock
  <2>5. \A i \in Kinds : DataLock(i)'
    BY <2>1, <2>2, <2>3 DEF HoldersInv, DataLock
  <2> QED BY <2>4, <2>5 DEF HoldersInv
<1>14. ASSUME NEW h \in Http, EndGet(h) PROVE HoldersInv'
  BY <1>13, <1>14 DEF EndGet, Start, Goto
<1>15. ASSUME NEW c \in Conns, EndSnapshot(c) PROVE HoldersInv'
  BY <1>13, <1>15 DEF EndSnapshot, Start, Goto
<1>16. ASSUME NEW c \in Conns, BeginSnapshot(c) PROVE HoldersInv'
  <2>1. PICK k \in Kinds : k = job[c].kind
    OBVIOUS
  <2>2. /\ pc[c] = "snap" /\ pc' = [pc EXCEPT ![c] = "loop"] /\ UNCHANGED job
        /\ mutex' = [mutex EXCEPT ![k] = RLock(@, c)]
    BY <1>16, <2>1 DEF BeginSnapshot, Goto
  <2>3. /\ mutex'["ws"] = mutex["ws"] /\ \A i \in Kinds \ {k} : mutex'[i] = mutex[i]
        /\ mutex'[k].writer = mutex[k].writer
        /\ mutex'[k].readers = mutex[k].readers \cup {c}
    BY <2>2 DEF RLock, Locks
  <2>4. MapLock'
    BY <2>2, <2>3 DEF HoldersInv, MapLock
  <2>5. \A i \in Kinds : DataLock(i)'
    BY <2>1, <2>2, <2>3 DEF HoldersInv, DataLock
  <2> QED BY <2>4, <2>5 DEF HoldersInv
<1>17. ASSUME NEW c \in Conns, Register(c) \/ Unregister(c) PROVE HoldersInv'
  BY <1>17, <1>a DEF Register, Unregister, Start, Goto
<1>18. ASSUME NEW c \in Conns, SnapshotPanic(c) PROVE HoldersInv'
  BY <1>18, <1>a DEF SnapshotPanic, Overlapped, WriteEnds, Goto
<1>19. ASSUME NEW c \in Conns, NEW x \in Devices \cup Entries, SendTo(c, x)
       PROVE  HoldersInv'
  BY <1>19, <1>a DEF SendTo, BeginWrite, Goto
<1> HIDE DEF Broadcasting, Changing, Reading, PlaceInv
<1>e. ASSUME Environment PROVE HoldersInv'
  BY <1>e, <1>1, <1>2, <1>3, Places DEF Environment, Receive, Control, Forms
<1>w. ASSUME NEW w \in Workers, WorkerStep(w) PROVE HoldersInv'
  BY <1>w, <1>5, <1>6, <1>8, <1>10, <1>11, <1>12 DEF WorkerStep
<1>h. ASSUME NEW h \in Http, HttpStep(h) PROVE HoldersInv'
  BY <1>h, <1>9, <1>14 DEF HttpStep
<1>c. ASSUME NEW c \in Conns, HandlerStep(c) PROVE HoldersInv'
  BY <1>c, <1>12, <1>15, <1>16, <1>17, <1>18, <1>19 DEF HandlerStep
<1> QED BY <1>e, <1>w, <1>h, <1>c, <1>p, <1>s DEF Next, Step, Stopped

\* Who has the map's lock goes on without a lock, and who has another needs no other.
LEMMA LocksAreOrdered ==
  ASSUME HoldersInv, PlaceInv, NEW g
  PROVE  /\ "ws" \in Has(g) => Needs(g) = {}
         /\ Has(g) # {} => Needs(g) \subseteq {"ws"}
<1>1. ASSUME "ws" \in Has(g) PROVE Needs(g) = {}
  <2>1. g \in Workers /\ Broadcasting(g)
    BY <1>1 DEF Has, HoldersInv, MapLock
  <2> QED BY <2>1, Places DEF Needs, Broadcasting
<1>2. ASSUME NEW k \in Kinds, k \in Has(g) PROVE Needs(g) \subseteq {"ws"}
  <2>1. (g \in Workers /\ Changing(g, k)) \/ Reading(g, k)
    BY <1>2 DEF Has, HoldersInv, DataLock
  <2> QED BY <2>1, Places DEF Needs, Changing, Reading
<1> QED BY <1>1, <1>2 DEF Has

THEOREM HoldersInvariance == Spec => [](TypeInv /\ HoldersInv)
<1>1. Init => TypeInv /\ HoldersInv
  <2> SUFFICES ASSUME Init PROVE HoldersInv
    BY TypeInvInit
  <2>1. \A m \in Kinds \cup {"ws"} : mutex[m].writer = {} /\ mutex[m].readers = {}
    BY DEF Init, Unlocked
  <2> QED BY <2>1 DEF HoldersInv, MapLock, DataLock
<1>2. TypeInv /\ HoldersInv /\ [Next]_vars => (TypeInv /\ HoldersInv)'
  BY TypeInvStep, HoldersStep
<1> QED BY <1>1, <1>2, PTL DEF Spec

\* NoCircularWait: addMQTTLogEntry, handleStatusUpdate, handleWebSocket, handleStatus and
\* handleMQTTLog never wait for one another's mutexes in a circle, however many browsers
\* and requests there are.
THEOREM NobodyWaitsInACircle == Spec => []NoCircularWait
<1>1. TypeInv /\ HoldersInv => NoCircularWait
  <2> SUFFICES ASSUME TypeInv, HoldersInv, NEW S \in (SUBSET Goroutines) \ {{}},
                      \A g \in S : \E h \in S : Needs(g) \cap Has(h) # {}
               PROVE  FALSE
    BY DEF NoCircularWait
  <2>1. PlaceInv
    BY DEF TypeInv
  <2>2. PICK g \in S : TRUE
    OBVIOUS
  <2>3. PICK h \in S : Needs(g) \cap Has(h) # {}
    BY <2>2
  <2>4. Has(h) # {} /\ Needs(h) \subseteq {"ws"}
    BY <2>1, <2>3, LocksAreOrdered
  <2>5. PICK i \in S : Needs(h) \cap Has(i) # {}
    BY <2>3
  <2>6. "ws" \in Has(i)
    BY <2>4, <2>5
  <2>7. Needs(i) = {}
    BY <2>1, <2>6, LocksAreOrdered
  <2> QED BY <2>5, <2>7
<1> QED BY <1>1, HoldersInvariance, PTL

==============================================================================
