---------------------------- MODULE CommandOutput ----------------------------
(***************************************************************************)
(* The output that command_runner_server shows: each request that runs a   *)
(* command appends what the command has printed, and cuts the output to    *)
(* its last MaxOutputSize bytes.                                           *)
(*                                                                         *)
(* The output is an entry of a map that no lock protects.  Each access to  *)
(* the map is a step of its own; += is a read and a write.  One that       *)
(* overlaps a write may end the process.  A text is as many copies of its  *)
(* request as it has bytes.                                                *)
(***************************************************************************)
EXTENDS Integers, Sequences

CONSTANTS
  Requests,        \* the requests to /run, with a command
  Size,            \* the size of what each appends
  MaxOutputSize    \* 10240

ASSUME OutputAssumption ==
  MaxOutputSize \in Nat \ {0} /\ Size \in [Requests -> Nat \ {0}]

VARIABLES
  latest,   \* commandOutputs["latest"]; empty: there is no entry
  pc,       \* where each request is
  old,      \* what its += has read
  whole,    \* the string it cuts
  length,   \* the length it has read to cut it
  alone,    \* no other request has been in appendOutput together with it
  fault     \* the runtime has found a write that overlaps another access

vars == <<latest, pc, old, whole, length, alone, fault>>

Text(r) == [i \in 1 .. Size[r] |-> r]
Last(s, n) == SubSeq(s, Len(s) - n + 1, Len(s))
Kept(s) == IF Len(s) > MaxOutputSize THEN Last(s, MaxOutputSize) ELSE s

Init ==
  /\ latest = <<>>
  /\ pc = [r \in Requests |-> "start"]
  /\ old = [r \in Requests |-> <<>>] /\ whole = [r \in Requests |-> <<>>]
  /\ length = [r \in Requests |-> 0]
  /\ alone = [r \in Requests |-> TRUE]
  /\ fault = FALSE

At(r, label) == ~fault /\ pc[r] = label
Goto(r, label) == pc' = [pc EXCEPT ![r] = label]
Appending(r) == pc[r] \notin {"start", "done", "panicked"}

------------------------------------------------------------------------------
(***************************************************************************)
(* A command has ended, and executeCommand calls appendOutput.             *)
(***************************************************************************)
ReadOld(r) ==
  /\ At(r, "start") /\ Goto(r, "append")
  /\ old' = [old EXCEPT ![r] = latest]
  /\ LET others == {q \in Requests \ {r} : Appending(q)}
     IN alone' = [q \in Requests |-> alone[q] /\ q \notin others /\ (q = r => others = {})]
  /\ UNCHANGED <<latest, whole, length, fault>>

\* Mutant: the newest output comes first.
AppendText_First(r) ==
  /\ At(r, "append") /\ Goto(r, "check")
  /\ latest' = Text(r) \o old[r]
  /\ UNCHANGED <<old, whole, length, alone, fault>>

AppendText(r) ==
  /\ At(r, "append") /\ Goto(r, "check")
  /\ latest' = old[r] \o Text(r)
  /\ UNCHANGED <<old, whole, length, alone, fault>>

\* Mutant: an output that is just too long is not cut.
CheckSize_OffByOne(r) ==
  /\ At(r, "check")
  /\ Goto(r, IF Len(latest) > MaxOutputSize + 1 THEN "cut" ELSE "done")
  /\ UNCHANGED <<latest, old, whole, length, alone, fault>>

CheckSize(r) ==
  /\ At(r, "check")
  /\ Goto(r, IF Len(latest) > MaxOutputSize THEN "cut" ELSE "done")
  /\ UNCHANGED <<latest, old, whole, length, alone, fault>>

\* The string and its length are read one after the other; Go leaves open in which order.
ReadWhole(r) ==
  /\ \/ At(r, "cut") /\ Goto(r, "has whole")
     \/ At(r, "has length") /\ Goto(r, "slice")
  /\ whole' = [whole EXCEPT ![r] = latest]
  /\ UNCHANGED <<latest, old, length, alone, fault>>

\* Mutant: the start of the cut is computed at once.
ReadLength_Start(r) ==
  /\ \/ At(r, "cut") /\ Goto(r, "has length")
     \/ At(r, "has whole") /\ Goto(r, "slice")
  /\ length' = [length EXCEPT ![r] = Len(latest) - MaxOutputSize]
  /\ UNCHANGED <<latest, old, whole, alone, fault>>

ReadLength(r) ==
  /\ \/ At(r, "cut") /\ Goto(r, "has length")
     \/ At(r, "has whole") /\ Goto(r, "slice")
  /\ length' = [length EXCEPT ![r] = Len(latest)]
  /\ UNCHANGED <<latest, old, whole, alone, fault>>

\* whole[length - maxOutputSize:] panics if the length is that of another string; the
\* HTTP server recovers, and the request is answered with an error.
InRange(r) == length[r] >= MaxOutputSize /\ length[r] - MaxOutputSize <= Len(whole[r])

Panic(r) ==
  /\ At(r, "slice") /\ ~InRange(r)
  /\ Goto(r, "panicked")
  /\ UNCHANGED <<latest, old, whole, length, alone, fault>>

StoreCut(r) ==
  /\ At(r, "slice") /\ InRange(r)
  /\ Goto(r, "done")
  /\ latest' = SubSeq(whole[r], length[r] - MaxOutputSize + 1, Len(whole[r]))
  /\ UNCHANGED <<old, whole, length, alone, fault>>

\* A request is about to write while another one, or a page that is shown at any time,
\* accesses the map: the runtime may end the process.
MapFault ==
  /\ \E r \in Requests : At(r, "append") \/ (At(r, "slice") /\ InRange(r))
  /\ fault' = TRUE
  /\ UNCHANGED <<latest, pc, old, whole, length, alone>>

Ended == /\ fault \/ \A r \in Requests : pc[r] \in {"done", "panicked"}
         /\ UNCHANGED vars

Next ==
  \/ \E r \in Requests : \/ ReadOld(r) \/ AppendText(r) \/ CheckSize(r) \/ ReadWhole(r)
                          \/ ReadLength(r) \/ Panic(r) \/ StoreCut(r)
  \/ MapFault \/ Ended

Spec == Init /\ [][Next]_vars

------------------------------------------------------------------------------
TypeOK ==
  /\ latest \in Seq(Requests)
  /\ pc \in [Requests -> {"start", "append", "check", "cut", "has whole", "has length",
                          "slice", "done", "panicked"}]
  /\ old \in [Requests -> Seq(Requests)] /\ whole \in [Requests -> Seq(Requests)]
  /\ length \in [Requests -> Nat]
  /\ alone \in [Requests -> BOOLEAN] /\ fault \in BOOLEAN

(***************************************************************************)
(* A request that is alone in appendOutput leaves the end of what was      *)
(* shown before and of its own text after it, cut to the limit, whatever   *)
(* was lost by others before; and it does not fail.                        *)
(***************************************************************************)
AloneAppends ==
  [][\A r \in Requests :
       Appending(r) /\ ~Appending(r)' /\ alone[r]
         => pc'[r] = "done" /\ latest' = Kept(old[r] \o Text(r))]_vars

\* Whatever is lost in a race, texts are never mixed: what is shown is made of the whole
\* texts of different requests, of which only the first may be cut.
Unmixed(s) ==
  \A i \in 2 .. Len(s) :
    s[i] # s[i - 1] =>
      /\ \A j \in 1 .. i - 1 : s[j] # s[i]
      /\ \A j \in 1 .. Size[s[i]] - 1 : i + j <= Len(s) /\ s[i + j] = s[i]
TextsWhole == Unmixed(latest)
==============================================================================
