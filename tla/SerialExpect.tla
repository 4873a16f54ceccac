----------------------------- MODULE SerialExpect -----------------------------
(***************************************************************************)
(* serial_expect: a script of send, expect, monitor and try commands runs  *)
(* against a device on a serial port, under a timeout for the script and   *)
(* one for each expect.                                                    *)
(*                                                                         *)
(* Three goroutines: readSerial moves the bytes from the port to a         *)
(* channel, each made a string, executeScript runs the commands, and       *)
(* executeScriptWithTimeout waits for the script or for its timeout.       *)
(*                                                                         *)
(* The bytes in the port, in the channel and consumed by the script are    *)
(* one sequence, rx, with two marks in it; an expect matches the strings   *)
(* that were made of them.                                                 *)
(***************************************************************************)
EXTENDS FiniteSets, Patterns

CONSTANTS
  Programs,        \* the command lists a run may be started with
  ChannelSize,     \* 100 in the code
  ScriptTimeout,   \* <timeout script="...">
  ReceiveTimeout,  \* <timeout receive="...">
  Day,             \* 24 hours: a monitor without parameter, the extended timeout
  DeviceBytes,     \* the bytes the device may send
  MaxInput,        \* bound: how many it sends
  MaxTime          \* bound: the clock

ASSUME TimeAssumption ==
  /\ ChannelSize \in Nat \ {0} /\ MaxInput \in Nat /\ DeviceBytes \subseteq Chars
  /\ ScriptTimeout \in Nat /\ ReceiveTimeout \in Nat /\ Day \in Nat /\ MaxTime \in Nat

\* Commands.  A monitor counts lines, if lines is not 0, or waits for a duration.
Send == [type |-> "send"]
Expect(p) == [type |-> "expect", pattern |-> p]
MonitorLines(n) == [type |-> "monitor", valid |-> TRUE, lines |-> n, duration |-> 0]
MonitorFor(t) == [type |-> "monitor", valid |-> TRUE, lines |-> 0, duration |-> t]
BadMonitor == [type |-> "monitor", valid |-> FALSE, lines |-> 0, duration |-> 0]
\* A script that does not exist or does not parse is Broken.
Broken == <<[type |-> "broken"]>>
Try(script, except, retry) ==
  [type |-> "try", script |-> script, except |-> except, retry |-> retry]

\* What parseScript makes of the lines of a script; the scripts of a try have no try.
Simple == {Send} \cup {Broken[1]} \cup [type: {"expect"}, pattern: Parsed]
            \cup [type: {"monitor"}, valid: BOOLEAN, lines: Int, duration: Nat]
Compound == [type: {"try"}, script: Seq(Simple), except: Seq(Simple), retry: BOOLEAN]

ASSUME ProgramsAssumption == Programs \subseteq Seq(Simple \cup Compound)

VARIABLES
  commands,   \* se.commands
  rx,         \* what the device has sent
  arrived,    \* how much of it readSerial has put into readChan
  consumed,   \* how much of it the script has taken out
  place,      \* the command that is executed: of the program, or of a try
  pc,         \* "next", "expect", "monitor" or "done"
  from,       \* what was consumed when the command began
  deadline,   \* when its timer fires
  errors,     \* the places of the errors of an attempt; lastError is the last of them
  tx,         \* the places of the commands that have sent something
  outcome,    \* what executeScript returned: "ok", or an error with its place
  result,     \* what the program exits with
  now

device == <<rx, arrived>>
vars == <<commands, device, consumed, place, pc, from, deadline, errors, tx, outcome,
          result, now>>

\* level: "top", "script" or "except"; sub: the command of a try, 0 at the top.
At(ip) == [ip |-> ip, level |-> "top", attempt |-> 0, sub |-> 0]
None == At(0)
Running == [error |-> None, ok |-> FALSE]
Succeeded == [error |-> None, ok |-> TRUE]
Failed(p) == [error |-> p, ok |-> FALSE]

Outer(p) == commands[p.ip]
Subcommands(p) == IF p.level = "except" THEN Outer(p).except ELSE Outer(p).script
Current == IF place.level = "top" THEN Outer(place) ELSE Subcommands(place)[place.sub]
AtEnd ==
  IF place.level = "top" THEN place.ip > Len(commands)
                         ELSE place.sub > Len(Subcommands(place))
IsNext(type) == pc = "next" /\ ~AtEnd /\ Current.type = type

MaxAttempts(try) == IF try.retry THEN 2 ELSE 1

Init ==
  /\ commands \in Programs
  /\ rx = <<>> /\ arrived = 0 /\ consumed = 0
  /\ place = At(1) /\ pc = "next" /\ from = 0 /\ deadline = 0
  /\ errors = <<>> /\ tx = <<>>
  /\ outcome = Running /\ result = "none" /\ now = 0

------------------------------------------------------------------------------
(***************************************************************************)
(* The device, the clock and readSerial.                                   *)
(***************************************************************************)
Emit(ch) ==
  /\ Len(rx) < MaxInput
  /\ rx' = Append(rx, ch)
  /\ UNCHANGED <<commands, arrived, consumed, place, pc, from, deadline, errors, tx,
                 outcome, result, now>>

Tick ==
  /\ now < MaxTime
  /\ now' = now + 1
  /\ UNCHANGED <<commands, device, consumed, place, pc, from, deadline, errors, tx,
                 outcome, result>>

\* One byte goes into the channel, as a string, unless it is full.
ReadSerial ==
  /\ arrived < Len(rx) /\ arrived - consumed < ChannelSize
  /\ arrived' = arrived + 1
  /\ UNCHANGED <<commands, rx, consumed, place, pc, from, deadline, errors, tx,
                 outcome, result, now>>

------------------------------------------------------------------------------
(***************************************************************************)
(* executeScript and handleTry: after a command, the next one.  An error   *)
(* ends the script at the top; in a try it is remembered, and, since the   *)
(* break leaves the switch and not the loop, the next command follows.     *)
(***************************************************************************)
Following == IF place.level = "top" THEN At(place.ip + 1) ELSE [place EXCEPT !.sub = @ + 1]

Success ==
  /\ pc' = "next" /\ place' = Following
  /\ UNCHANGED <<errors, outcome>>

\* The script returns an error.
Return(p) ==
  /\ pc' = "done" /\ outcome' = Failed(p)
  /\ UNCHANGED <<place, errors>>

\* Mutant: a failed command of the program is skipped.
Failure_GoesOn == Success

Failure ==
  IF place.level = "top" THEN Return(place)
  ELSE /\ pc' = "next" /\ place' = Following
       /\ errors' = IF place.level = "script" THEN Append(errors, place) ELSE errors
       /\ UNCHANGED outcome

BeginTry ==
  /\ IsNext("try")
  /\ IF Current.script = Broken THEN Return(place)
     ELSE /\ place' = [place EXCEPT !.level = "script", !.attempt = 1, !.sub = 1]
          /\ errors' = <<>>
          /\ UNCHANGED <<pc, outcome>>
  /\ UNCHANGED <<commands, device, consumed, from, deadline, tx, result, now>>

\* Mutant: the attempts are not counted.
EndAttempt_Uncounted ==
  /\ pc = "next" /\ place.level = "script" /\ AtEnd
  /\ place' = IF errors = <<>> THEN At(place.ip + 1) ELSE [place EXCEPT !.sub = 1]
  /\ errors' = <<>>
  /\ UNCHANGED <<commands, device, consumed, pc, from, deadline, tx, outcome, result, now>>

\* The main script of a try is through: done, once more, the except script, or the error.
EndAttempt ==
  /\ pc = "next" /\ place.level = "script" /\ AtEnd
  /\ \/ /\ errors = <<>>
        /\ place' = At(place.ip + 1)
        /\ UNCHANGED <<pc, errors, outcome>>
     \/ /\ errors # <<>> /\ place.attempt < MaxAttempts(Outer(place))
        /\ place' = [place EXCEPT !.attempt = @ + 1, !.sub = 1]
        /\ errors' = <<>>
        /\ UNCHANGED <<pc, outcome>>
     \/ /\ errors # <<>> /\ place.attempt = MaxAttempts(Outer(place))
        /\ Outer(place).except \notin {<<>>, Broken}
        /\ place' = [place EXCEPT !.level = "except", !.sub = 1]
        /\ UNCHANGED <<pc, errors, outcome>>
     \/ /\ errors # <<>> /\ place.attempt = MaxAttempts(Outer(place))
        /\ \/ Outer(place).except = <<>> /\ Return(Last(errors))
           \/ Outer(place).except = Broken /\ Return([place EXCEPT !.level = "except"])
  /\ UNCHANGED <<commands, device, consumed, from, deadline, tx, result, now>>

\* Mutant: an except script that is through makes up for the error.
EndExcept_Rescues ==
  /\ pc = "next" /\ place.level = "except" /\ AtEnd
  /\ place' = At(place.ip + 1)
  /\ UNCHANGED <<commands, device, consumed, pc, from, deadline, errors, tx, outcome,
                 result, now>>

EndExcept ==
  /\ pc = "next" /\ place.level = "except" /\ AtEnd
  /\ Return(Last(errors))
  /\ UNCHANGED <<commands, device, consumed, from, deadline, tx, result, now>>

EndScript ==
  /\ pc = "next" /\ place.level = "top" /\ AtEnd
  /\ pc' = "done" /\ outcome' = Succeeded
  /\ UNCHANGED <<commands, device, consumed, place, from, deadline, errors, tx, result,
                 now>>

------------------------------------------------------------------------------
(***************************************************************************)
(* handleSend, handleExpect, handleMonitor.                                *)
(***************************************************************************)

\* The write to the port succeeds or fails.
HandleSend ==
  /\ IsNext("send")
  /\ \/ Success /\ tx' = Append(tx, place)
     \/ Failure /\ UNCHANGED tx
  /\ UNCHANGED <<commands, device, consumed, from, deadline, result, now>>

Wait(label, timeout) ==
  /\ pc' = label /\ from' = consumed /\ deadline' = now + timeout
  /\ UNCHANGED <<place, errors, outcome>>

BeginExpect ==
  /\ IsNext("expect")
  /\ IF Current.pattern = BadPattern
       THEN Failure /\ UNCHANGED <<from, deadline>>
       ELSE Wait("expect", ReceiveTimeout)
  /\ UNCHANGED <<commands, device, consumed, tx, result, now>>

BeginMonitor ==
  /\ IsNext("monitor")
  /\ IF Current.valid THEN Wait("monitor", Current.duration)
                      ELSE Failure /\ UNCHANGED <<from, deadline>>
  /\ UNCHANGED <<commands, device, consumed, tx, result, now>>

\* What the command has received, with what is taken from the channel now.
Received == SubSeq(rx, from + 1, consumed')
Lines(text) == Cardinality({i \in DOMAIN text : text[i] = Newline})

\* Mutant: only whole lines are checked.
Matched_Lines == rx[consumed'] = Newline /\ Matches(Current.pattern, Converted(Received))

\* checkMatch; the strings received are one text.
Matched == \E text \in {Converted(Received)} : Matches(Current.pattern, text)
\* Every line is counted, and a limit that is not positive is never reached.
Enough ==
  Current.lines > 0 /\ rx[consumed'] = Newline /\ Lines(Received) >= Current.lines

\* Mutant: a byte is taken before it is in the channel.
Receive_Early ==
  /\ pc \in {"expect", "monitor"} /\ consumed < Len(rx)
  /\ consumed' = consumed + 1
  /\ UNCHANGED <<commands, device, place, pc, from, deadline, errors, tx, outcome, result,
                 now>>

Receive ==
  /\ pc \in {"expect", "monitor"} /\ consumed < arrived
  /\ consumed' = consumed + 1
  /\ IF (pc = "expect" /\ Matched) \/ (pc = "monitor" /\ Enough)
       THEN Success
       ELSE UNCHANGED <<place, pc, errors, outcome>>
  /\ UNCHANGED <<commands, device, from, deadline, tx, result, now>>

\* The receive timeout is an error; the duration of a monitor is its end.
TimerFires ==
  /\ now >= deadline
  /\ \/ pc = "expect" /\ Failure
     \/ pc = "monitor" /\ Current.lines = 0 /\ Success
  /\ UNCHANGED <<commands, device, consumed, from, deadline, tx, result, now>>

------------------------------------------------------------------------------
(***************************************************************************)
(* executeScriptWithTimeout and main: the process exits with the result of *)
(* the script, or with a timeout.                                          *)
(***************************************************************************)
HasMonitor == \E i \in DOMAIN commands : commands[i].type = "monitor"
\* Mutant: a program with monitors has no timeout.
Limit_None == IF HasMonitor THEN MaxTime + 1 ELSE ScriptTimeout

\* Mutant: only the first command is looked at.
Limit_First == IF commands[1].type = "monitor" THEN Day ELSE ScriptTimeout

Limit == IF HasMonitor THEN Day ELSE ScriptTimeout

Exit(r) ==
  /\ result' = r
  /\ UNCHANGED <<commands, device, consumed, place, pc, from, deadline, errors, tx,
                 outcome, now>>

ScriptReturned == outcome # Running /\ Exit(IF outcome.ok THEN "success" ELSE "failure")
ContextDone == now >= Limit /\ Exit("timeout")

Script ==
  \/ BeginTry \/ EndAttempt \/ EndExcept \/ EndScript
  \/ HandleSend \/ BeginExpect \/ BeginMonitor \/ Receive \/ TimerFires
Main == ScriptReturned \/ ContextDone

\* The program has exited, or the clock is at its bound.
Halted == (result # "none" \/ now = MaxTime) /\ UNCHANGED vars

Next ==
  \/ /\ result = "none"
     /\ (\E ch \in DeviceBytes : Emit(ch)) \/ Tick \/ ReadSerial \/ Script \/ Main
  \/ Halted

Spec == Init /\ [][Next]_vars

\* The goroutines run, and time passes.
Fairness ==
  /\ WF_vars(result = "none" /\ Script) /\ WF_vars(result = "none" /\ Main)
  /\ WF_vars(result = "none" /\ ReadSerial) /\ WF_vars(result = "none" /\ Tick)
FairSpec == Spec /\ Fairness

------------------------------------------------------------------------------
(***************************************************************************)
(* Properties.                                                             *)
(***************************************************************************)
Levels == {"top", "script", "except"}

TypeOK ==
  /\ commands \in Programs
  /\ rx \in Text /\ consumed \in 0..arrived /\ arrived \in 0..Len(rx)
  /\ place.ip \in 1..Len(commands) + 1 /\ place.level \in Levels
  /\ place.level # "top" => /\ Outer(place).type = "try" /\ place.attempt \in 1..2
                            /\ place.sub \in 1..Len(Subcommands(place)) + 1
  /\ pc \in {"next", "expect", "monitor", "done"}
  /\ pc \in {"expect", "monitor"} => ~AtEnd /\ Current.type = pc
  /\ from \in 0..consumed /\ deadline \in Nat /\ now \in Nat
  /\ (pc = "done") = (outcome # Running)
  /\ result \in {"none", "success", "failure", "timeout"}

\* Of a text, what follows the first bytes, to the last, makes a command succeed: each byte
\* taken for the character of its number, it matches the pattern of an expect, and that of
\* every expect in a try, in order.
Served(c, text, first, last) ==
  c.type = "expect" => Matches(c.pattern, Converted(SubSeq(text, first + 1, last)))
InOrder(cs, n, text, first, last) ==
  \E cut \in [0..n -> first..last] :
    /\ cut[n] = last
    /\ \A k \in 1..n : cut[k - 1] <= cut[k] /\ Served(cs[k], text, cut[k - 1], cut[k])
Satisfied(c, text, first, last) ==
  IF c.type = "try" THEN InOrder(c.script, Len(c.script), text, first, last)
                    ELSE Served(c, text, first, last)

\* The script never gets ahead of the device: before each command of the program, and
\* before its end, what has been received can be cut into what the commands before it, and
\* those of a try, were waiting for, in order.  A password in the program is never sent to
\* a device that has not asked for it.  (In a try it may be: there the commands after one
\* that failed are executed.)
NeverAhead ==
  \E cut \in [1..place.ip -> 0..consumed] :
    \A i \in 1..place.ip - 1 :
      cut[i] <= cut[i + 1] /\ Satisfied(commands[i], rx, cut[i], cut[i + 1])

\* An expect that is still waiting, and may time out, has not overlooked a pattern in
\* ASCII: it has not been sent, whatever other bytes were, and although each of those is
\* made two.  (A pattern beyond ASCII may have been: its bytes are never seen as they are.)
NothingMissed ==
  pc = "expect" /\ Plain(Current.pattern.text) =>
    \A n \in from + 1..consumed : ~Matches(Current.pattern, SubSeq(rx, from + 1, n))

\* Nothing is sent twice: every send belongs to a later command, attempt or script than
\* the one before it, with at most two attempts and the except script after them.
Later(p, q) ==
  \/ p.ip < q.ip
  \/ p.ip = q.ip /\ p.attempt < q.attempt
  \/ p.ip = q.ip /\ p.attempt = q.attempt /\ p.level = "script" /\ q.level = "except"
  \/ p.ip = q.ip /\ p.attempt = q.attempt /\ p.level = q.level /\ p.sub < q.sub
SentOnce == \A i, j \in DOMAIN tx : i < j => Later(tx[i], tx[j])

\* The except script runs after every attempt has failed, and never rescues the run.
ExceptIsFinal ==
  (place.level = "except" \/ \E i \in DOMAIN tx : tx[i].level = "except")
    => errors # <<>> /\ ~outcome.ok
       /\ \A i \in DOMAIN errors : errors[i].attempt = MaxAttempts(Outer(errors[i]))

\* The program ends, at the latest with its timeout.
Ends == <>(result # "none")

\* "If we have monitor commands, use a much longer timeout": a monitor is not cut off by
\* the ordinary timeout of the script, unless it is one of a try.
MonitorIsExtended ==
  [][pc = "monitor" /\ place.level = "top" /\ result' = "timeout" => now >= Day]_vars

==============================================================================
