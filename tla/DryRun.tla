-------------------------------- MODULE DryRun --------------------------------
(***************************************************************************)
(* serial_expect -dry-run: the program is run against the lines of a       *)
(* captured file instead of a device.  It must not promise what the real   *)
(* run does not keep.                                                      *)
(***************************************************************************)
EXTENDS SerialExpect

CONSTANT ShownLines   \* 10: the lines a monitor shows

ASSUME ShownAssumption == ShownLines \in Nat \ {0}

------------------------------------------------------------------------------
(***************************************************************************)
(* strings.Split(input, "\n").  A line is named by what is before it: 0, or *)
(* the place of the newline that it follows.  lineIndex is the name of the *)
(* next line, or Len(text) + 1 when there is none.                         *)
(***************************************************************************)
Newlines(text) == {i \in DOMAIN text : text[i] = Newline}
LineNames(text) == {0} \cup Newlines(text)

\* The end of a line: a newline, or the end of the text.
EndOf(text, s) == Min({i \in Newlines(text) : i > s} \cup {Len(text) + 1})
Line(text, s) == SubSeq(text, s + 1, EndOf(text, s) - 1)

\* The line after the next n lines.
Skip(text, s, n) ==
  LET ends == {i \in Newlines(text) : i > s}
  IN  Min({i \in ends : Cardinality({j \in ends : j <= i}) = n} \cup {Len(text) + 1})

------------------------------------------------------------------------------
\* How far the dry run is: the next line, whether it goes on, whether all was found.
Started == [line |-> 0, ok |-> TRUE, found |-> TRUE]

Hits(p, text, line) == {s \in LineNames(text) : s >= line /\ DryMatches(p, Line(text, s))}

\* Mutant: the line that matched is matched again by the next command.
DryExpect_Rematches(p, text, at) ==
  IF Hits(p, text, at.line) # {} THEN [at EXCEPT !.line = Min(Hits(p, text, @))]
  ELSE [line |-> Len(text) + 1, ok |-> FALSE, found |-> FALSE]

\* Search the remaining lines; the search goes on after the line that matches.
DryExpect(p, text, at) ==
  IF Hits(p, text, at.line) # {} THEN [at EXCEPT !.line = EndOf(text, Min(Hits(p, text, @)))]
  ELSE [line |-> Len(text) + 1, ok |-> FALSE, found |-> FALSE]

DryCommand(c, text, at) ==
  CASE c.type = "monitor" -> [at EXCEPT !.line = Skip(text, @, ShownLines)]
    [] c.type = "expect"  ->
         IF c.pattern = BadPattern THEN [at EXCEPT !.ok = FALSE]
                                   ELSE DryExpect(c.pattern, text, at)
    [] OTHER -> at

\* In a try, a pattern that is not found is passed over, and an invalid one is not.
DrySubcommand(c, text, at) ==
  IF c.type = "expect" /\ c.pattern # BadPattern
    THEN [DryExpect(c.pattern, text, at) EXCEPT !.ok = TRUE] ELSE DryCommand(c, text, at)

\* Where the dry run is after each command of the main script of a try, ...
DryScript(script, text, at) ==
  LET after[k \in 0..Len(script)] ==
        IF k = 0 THEN at
        ELSE IF after[k - 1].ok THEN DrySubcommand(script[k], text, after[k - 1])
                                ELSE after[k - 1]
  IN  after
DryTry(c, text, at) ==
  IF c.script = Broken THEN [at EXCEPT !.ok = FALSE]
                       ELSE DryScript(c.script, text, at)[Len(c.script)]

\* ... and of the program.  It stops at the first one that fails.
ExecuteDryRun(program, text) ==
  LET after[k \in 0..Len(program)] ==
        IF k = 0 THEN Started
        ELSE IF ~after[k - 1].ok THEN after[k - 1]
        ELSE IF program[k].type = "try" THEN DryTry(program[k], text, after[k - 1])
                                        ELSE DryCommand(program[k], text, after[k - 1])
  IN  after

------------------------------------------------------------------------------
\* A dry run shows some lines for a monitor and tries nothing twice: it says nothing of
\* monitors that wait for time or for more lines, nor of a try that is repeated.  It reads
\* the bytes as they are, so it says nothing of patterns beyond ASCII.
Alike(c) ==
  /\ c.type = "monitor" /\ c.valid => c.lines # 0 /\ c.lines <= ShownLines
  /\ c.type = "expect" => Plain(c.pattern.text)
Comparable(program) ==
  \A i \in DOMAIN program :
    /\ Alike(program[i])
    /\ program[i].type = "try" =>
         /\ ~program[i].retry
         /\ \A k \in DOMAIN program[i].script : Alike(program[i].script[k])

\* A dry run in which every pattern is found is a promise: a device that sends the same
\* text gets the program to its end, unless a command fails for another reason.  The real
\* run, which matches before a line is complete and goes on in the middle of a line, is
\* not left waiting for a pattern with all of the text behind it.  The exception is a
\* pattern that an empty line matches: the real run needs a character to look at it.
DryRunIsKept ==
  LET dry == ExecuteDryRun(commands, rx)[Len(commands)]
  IN  /\ pc = "expect" /\ consumed = Len(rx) /\ errors = <<>>
      /\ Comparable(commands) /\ dry.ok /\ dry.found
      => DryMatches(Current.pattern, <<>>)

==============================================================================
