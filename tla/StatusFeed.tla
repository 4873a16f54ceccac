------------------------------ MODULE StatusFeed ------------------------------
(***************************************************************************)
(* What the home-automation server promises a browser about device status: *)
(* an abstract feed without locks, connections, snapshots or broadcasts.   *)
(*                                                                         *)
(* A subscriber joins showing the current status of every device.  The     *)
(* next status is published only when every subscriber shows the current   *)
(* one, so no subscriber overtakes a status of any device, or misses one,  *)
(* except those that are torn on their way; what is torn is not sent again. *)
(***************************************************************************)
EXTENDS FiniteSets

CONSTANTS Devices, Subscribers, Statuses, Initial

VARIABLES
  cur,   \* the current status of each device
  live,  \* the subscribers of the feed
  view,  \* what each browser shows of each device
  missed \* the devices whose last status was torn on its way to the browser

vars == <<cur, live, view, missed>>

Init ==
  /\ cur = [d \in Devices |-> Initial]
  /\ live = {}
  /\ view = [s \in Subscribers |-> [d \in Devices |-> Initial]]
  /\ missed = [s \in Subscribers |-> {}]

InSync(s) == \A d \in Devices : view[s][d] = cur[d] \/ d \in missed[s]

Publish(d, status) ==
  /\ \A s \in live : InSync(s)
  /\ cur' = [cur EXCEPT ![d] = status]
  /\ UNCHANGED <<live, view, missed>>

\* A browser shows the current status of a device; it need not have joined yet.
Deliver(s, d) ==
  /\ view' = [view EXCEPT ![s][d] = cur[d]]
  /\ missed' = [missed EXCEPT ![s] = @ \ {d}]
  /\ UNCHANGED <<cur, live>>

\* The current status of a device is torn on its way, and not sent again.
Tear(s, d) ==
  /\ missed' = [missed EXCEPT ![s] = @ \cup {d}]
  /\ UNCHANGED <<cur, live, view>>

Join(s) ==
  /\ InSync(s)
  /\ live' = live \cup {s}
  /\ UNCHANGED <<cur, view, missed>>

Leave(s) ==
  /\ live' = live \ {s}
  /\ missed' = [missed EXCEPT ![s] = {}]
  /\ UNCHANGED <<cur, view>>

Next ==
  \/ \E d \in Devices, status \in Statuses : Publish(d, status)
  \/ \E s \in Subscribers, d \in Devices : Deliver(s, d) \/ Tear(s, d)
  \/ \E s \in Subscribers : Join(s) \/ Leave(s)

Spec == Init /\ [][Next]_vars

==============================================================================
