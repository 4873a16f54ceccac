----------------------------- MODULE DryRunProofs -----------------------------
(***************************************************************************)
(* Proofs about DryRun, for every set of programs and any number of lines  *)
(* and bytes.                                                              *)
(***************************************************************************)
EXTENDS DryRun, SerialExpectProofs

------------------------------------------------------------------------------
(***************************************************************************)
(* Lines.                                                                  *)
(***************************************************************************)
LEMMA TextIs ==
  ASSUME NEW text \in Text
  PROVE  /\ Len(text) \in Nat /\ DOMAIN text = 1 .. Len(text) /\ text \in Seq(Chars)
         /\ \A i \in 1 .. Len(text) : text[i] \in Chars
         /\ Newlines(text) \in SUBSET (1 .. Len(text))
BY LenProperties, ElementOfSeq DEF Text, Newlines

\* A line ends after it begins, with a newline or with the text, and has none in it.
LEMMA EndOfLine ==
  ASSUME NEW text \in Text, NEW s \in Nat
  PROVE  /\ EndOf(text, s) \in 1 .. Len(text) + 1
         /\ s <= Len(text) => s < EndOf(text, s)
         /\ EndOf(text, s) <= Len(text) => EndOf(text, s) \in Newlines(text)
         /\ \A i \in s + 1 .. EndOf(text, s) - 1 : i \notin Newlines(text)
<1> DEFINE ends == {i \in Newlines(text) : i > s} \cup {Len(text) + 1}
<1>1. ends \in SUBSET Nat /\ ends # {} /\ Len(text) \in Nat
      /\ \A i \in Newlines(text) : i \in 1 .. Len(text)
  BY TextIs
<1>2. EndOf(text, s) = Min(ends)
  BY DEF EndOf
<1>3. Min(ends) \in ends /\ \A n \in ends : Min(ends) <= n
  <2> HIDE DEF ends
  <2> QED BY <1>1, MinIs
<1>4. Min(ends) \in 1 .. Len(text) + 1 /\ (Min(ends) \in Newlines(text) \/ Min(ends) = Len(text) + 1)
      /\ (s <= Len(text) => s < Min(ends))
  BY <1>1, <1>3
<1>5. ASSUME NEW i \in s + 1 .. Min(ends) - 1 PROVE i \notin Newlines(text)
  <2>1. i > s /\ i < Min(ends)
    BY <1>1, <1>4
  <2>2. i \in Newlines(text) => i \in ends
    BY <2>1
  <2> HIDE DEF ends
  <2> QED BY <1>1, <1>3, <1>4, <2>1, <2>2
<1> QED BY <1>1, <1>2, <1>4, <1>5

\* What has been received at the end of a line, from before its beginning on, has it as
\* its current line.
LEMMA CurrentLineIs ==
  ASSUME NEW text \in Text, NEW s \in LineNames(text), NEW f \in 0 .. s
  PROVE  CurrentLine(SubSeq(text, f + 1, EndOf(text, s) - 1)) = Line(text, s)
<1> DEFINE e == EndOf(text, s)
    r == SubSeq(text, f + 1, e - 1)
    marks == {i \in 1 .. Len(r) : r[i] = Newline}
<1>1. /\ Len(text) \in Nat /\ text \in Seq(Chars) /\ s \in 0 .. Len(text)
      /\ s # 0 => text[s] = Newline
      /\ \A i \in Nat : i \in Newlines(text) <=> i \in 1 .. Len(text) /\ text[i] = Newline
  BY TextIs DEF LineNames, Newlines
<1>2. e \in s + 1 .. Len(text) + 1 /\ \A i \in s + 1 .. e - 1 : text[i] # Newline
  <2>1. /\ e \in 1 .. Len(text) + 1 /\ s < e
        /\ \A i \in s + 1 .. e - 1 : i \notin Newlines(text)
    BY <1>1, EndOfLine
  <2> HIDE DEF e
  <2>2. \A i \in s + 1 .. e - 1 : i \in Nat /\ i \in 1 .. Len(text)
    BY <1>1, <2>1
  <2> QED BY <1>1, <2>1, <2>2
<1>3. r \in Seq(Chars) /\ Len(r) = e - 1 - f /\ \A i \in 1 .. e - 1 - f : r[i] = text[f + i]
  <2> HIDE DEF e
  <2> QED BY <1>1, <1>2, SubSeqProperties
<1>4. CurrentLine(r) = SubSeq(r, (IF marks # {} THEN Max(marks) ELSE 0) + 1, Len(r))
  BY DEF CurrentLine, SelectLastInSeq
<1> HIDE DEF e, r
<1>5. (IF marks # {} THEN Max(marks) ELSE 0) = s - f
  <2>1. \A i \in marks : i <= s - f
    BY <1>1, <1>2, <1>3
  <2>2. CASE s = f
    <3>1. marks = {}
      BY <2>1, <2>2
    <3> QED BY <2>2, <3>1
  <2>3. CASE s # f
    <3>1. s - f \in marks
      BY <1>1, <1>2, <1>3, <2>3
    <3>2. marks \in SUBSET Nat
      BY <1>3
    <3> HIDE DEF marks
    <3> QED BY <2>1, <3>1, <3>2, MaxIs
  <2> QED BY <2>2, <2>3
<1>6. SubSeq(r, s - f + 1, Len(r)) = SubSeq(text, s + 1, e - 1)
  BY <1>1, <1>2, <1>3, SubSeqProperties
<1> QED BY <1>4, <1>5, <1>6 DEF Line, e, r

\* A line that matches in a dry run matches when all of it has been received, wherever
\* before it the expect began.
LEMMA MatchesAtTheEnd ==
  ASSUME NEW text \in Text, NEW s \in LineNames(text), NEW f \in 0 .. s,
         NEW p \in Parsed, p # BadPattern, DryMatches(p, Line(text, s))
  PROVE  Matches(p, SubSeq(text, f + 1, EndOf(text, s) - 1))
<1> DEFINE e == EndOf(text, s)
    r == SubSeq(text, f + 1, e - 1)
<1>1. p.kind \in {"anywhere", "lineStart", "regex"} /\ p.text \in Text
  BY DEF Parsed
<1>2. CurrentLine(r) = Line(text, s)
  BY CurrentLineIs
<1>3. CASE p.kind \in {"lineStart", "regex"}
  BY <1>2, <1>3 DEF Matches, DryMatches
<1>4. CASE p.kind = "anywhere"
  <2>1. PICK i \in Occurrences(Folded(p.text), Folded(Line(text, s))) : TRUE
    BY <1>4 DEF DryMatches
  <2>2. /\ Len(text) \in Nat /\ text \in Seq(Chars) /\ s \in 0 .. Len(text)
        /\ e \in 1 .. Len(text) + 1 /\ s < e
    <3>1. Len(text) \in Nat /\ text \in Seq(Chars) /\ s \in 0 .. Len(text)
      BY TextIs DEF LineNames
    <3> QED BY <3>1, EndOfLine
  <2> HIDE DEF e
  <2>3. /\ r \in Seq(Chars) /\ Len(r) = e - 1 - f
        /\ \A k \in 1 .. e - 1 - f : r[k] = text[f + k]
    BY <2>2, SubSeqProperties
  <2>4. /\ Line(text, s) \in Seq(Chars) /\ Len(Line(text, s)) = e - 1 - s
        /\ \A k \in 1 .. e - 1 - s : Line(text, s)[k] = text[s + k]
    BY <2>2, SubSeqProperties DEF Line, e
  <2> DEFINE fp == Folded(p.text)
      fl == Folded(Line(text, s))
      fr == Folded(r)
  <2>5. /\ fp \in Seq(Chars) /\ Len(fp) \in Nat
        /\ fl \in Seq(Chars) /\ Len(fl) = e - 1 - s
        /\ fr \in Seq(Chars) /\ Len(fr) = e - 1 - f
        /\ \A k \in 1 .. e - 1 - s : fl[k] = fr[s - f + k]
    <3>1. ASSUME NEW t \in Seq(Chars)
          PROVE  /\ Folded(t) \in Seq(Chars) /\ Len(Folded(t)) = Len(t) /\ Len(t) \in Nat
                 /\ \A k \in 1 .. Len(t) : Folded(t)[k] = Lower[t[k]]
      BY FoldedIs, LenProperties DEF Text
    <3> HIDE DEF r
    <3>2. /\ fp \in Seq(Chars) /\ Len(fp) \in Nat
          /\ fl \in Seq(Chars) /\ Len(fl) = e - 1 - s
          /\ fr \in Seq(Chars) /\ Len(fr) = e - 1 - f
      BY <1>1, <2>3, <2>4, <3>1 DEF Text
    <3>3. ASSUME NEW k \in 1 .. e - 1 - s PROVE fl[k] = fr[s - f + k]
      <4>1. s - f + k \in 1 .. e - 1 - f /\ f + (s - f + k) = s + k
        BY <2>2
      <4>2. fl[k] = Lower[Line(text, s)[k]] /\ fr[s - f + k] = Lower[r[s - f + k]]
        BY <2>3, <2>4, <3>1, <4>1
      <4> QED BY <2>3, <2>4, <4>1, <4>2
    <3> QED BY <3>2, <3>3
  <2>6. i \in 0 .. Len(fl) - Len(fp) /\ SubSeq(fl, i + 1, i + Len(fp)) = fp
    BY <2>1 DEF Occurrences
  <2> HIDE DEF fp, fl, fr
  <2>7. SubSeq(fr, s - f + i + 1, s - f + i + Len(fp)) = SubSeq(fl, i + 1, i + Len(fp))
    <3> DEFINE a == SubSeq(fr, s - f + i + 1, s - f + i + Len(fp))
        b == SubSeq(fl, i + 1, i + Len(fp))
    <3>1. /\ \A k \in s - f + i + 1 .. s - f + i + Len(fp) : fr[k] \in Chars
          /\ \A k \in i + 1 .. i + Len(fp) : fl[k] \in Chars
      <4>1. /\ \A k \in 1 .. e - 1 - f : fr[k] \in Chars
            /\ \A k \in 1 .. e - 1 - s : fl[k] \in Chars
        BY <2>5, ElementOfSeq
      <4>2. /\ \A k \in s - f + i + 1 .. s - f + i + Len(fp) : k \in 1 .. e - 1 - f
            /\ \A k \in i + 1 .. i + Len(fp) : k \in 1 .. e - 1 - s
        BY <2>2, <2>5, <2>6
      <4> QED BY <4>1, <4>2
    <3>2. /\ a \in Seq(Chars) /\ Len(a) = Len(fp)
          /\ \A k \in 1 .. Len(fp) : a[k] = fr[s - f + i + k]
      BY <2>2, <2>5, <2>6, <3>1, SubSeqProperties
    <3>3. /\ b \in Seq(Chars) /\ Len(b) = Len(fp)
          /\ \A k \in 1 .. Len(fp) : b[k] = fl[i + k]
      BY <2>2, <2>5, <2>6, <3>1, SubSeqProperties
    <3> HIDE DEF a, b
    <3>4. ASSUME NEW k \in 1 .. Len(fp) PROVE a[k] = b[k]
      <4>1. i + k \in 1 .. e - 1 - s /\ s - f + (i + k) = s - f + i + k
        BY <2>2, <2>5, <2>6
      <4> QED BY <2>5, <3>2, <3>3, <4>1
    <3>5. a = b
      BY <2>5, <3>2, <3>3, <3>4, SeqEqual
    <3> QED BY <3>5 DEF a, b
  <2>8. s - f + i \in Occurrences(fp, fr)
    <3> DEFINE j == s - f + i
    <3>1. SubSeq(fr, j + 1, j + Len(fp)) = fp
      BY <2>6, <2>7
    <3>2. j \in 0 .. Len(fr) - Len(fp)
      BY <2>2, <2>5, <2>6
    <3> QED BY <3>1, <3>2 DEF Occurrences
  <2>9. Occurrences(Folded(p.text), Folded(r)) # {}
    BY <2>8 DEF fp, fr
  <2> QED BY <1>4, <2>9 DEF Matches, e
<1> QED BY <1>1, <1>3, <1>4

------------------------------------------------------------------------------
(***************************************************************************)
(* What the dry run computes, step by step.                                *)
(***************************************************************************)
Progress == [line: Nat, ok: BOOLEAN, found: BOOLEAN]
Good(at) == at.ok /\ at.found

\* What a command does to the line, when it succeeds.
Advances(c, text, i, j) ==
  /\ c.type = "expect" =>
       /\ c.pattern # BadPattern /\ Hits(c.pattern, text, i) # {}
       /\ j = EndOf(text, Min(Hits(c.pattern, text, i)))
  /\ c.type = "monitor" => j = Skip(text, i, ShownLines)
  /\ c.type \notin {"expect", "monitor"} => j = i

LEMMA HitsAre ==
  ASSUME NEW text \in Text, NEW p, NEW i \in Nat, Hits(p, text, i) # {}
  PROVE  /\ Min(Hits(p, text, i)) \in LineNames(text) /\ Min(Hits(p, text, i)) >= i
         /\ Min(Hits(p, text, i)) \in 0 .. Len(text)
         /\ DryMatches(p, Line(text, Min(Hits(p, text, i))))
<1>1. Hits(p, text, i) \in SUBSET Nat
  BY TextIs DEF Hits, LineNames
<1>2. Min(Hits(p, text, i)) \in Hits(p, text, i)
  BY <1>1, MinIs
<1>3. Len(text) \in Nat /\ LineNames(text) \subseteq 0 .. Len(text)
  BY TextIs DEF LineNames
<1> QED BY <1>2, <1>3 DEF Hits

LEMMA SkipIs ==
  ASSUME NEW text \in Text, NEW i \in Nat, NEW n \in Nat
  PROVE  /\ Skip(text, i, n) \in 1 .. Len(text) + 1
         /\ Skip(text, i, n) <= Len(text) =>
              /\ Skip(text, i, n) \in Newlines(text) /\ Skip(text, i, n) > i
              /\ Cardinality({j \in Newlines(text) : j > i /\ j <= Skip(text, i, n)}) = n
<1> DEFINE ends == {j \in Newlines(text) : j > i}
    nth == {j \in ends : Cardinality({k \in ends : k <= j}) = n}
    m == Skip(text, i, n)
<1>1. /\ Len(text) \in Nat /\ Newlines(text) \subseteq 1 .. Len(text)
      /\ \A j \in ends : j \in Newlines(text) /\ j > i /\ j \in 1 .. Len(text)
  BY TextIs
<1>2. m = Min(nth \cup {Len(text) + 1})
  BY DEF Skip
<1>3. \A j \in nth : j \in ends /\ Cardinality({k \in ends : k <= j}) = n
  BY Zenon
<1>4. {k \in ends : k <= m} = {j \in Newlines(text) : j > i /\ j <= m}
  OBVIOUS
<1> HIDE DEF nth, m, ends
<1>5. m \in nth \/ m = Len(text) + 1
  <2>1. nth \cup {Len(text) + 1} \in SUBSET Nat /\ nth \cup {Len(text) + 1} # {}
    <3>1. ASSUME NEW j \in nth PROVE j \in Nat
      <4>1. j \in ends
        BY <1>3
      <4> QED BY <1>1, <4>1
    <3>2. Len(text) + 1 \in Nat
      BY <1>1
    <3> QED BY <3>1, <3>2
  <2>2. m \in nth \cup {Len(text) + 1}
    BY <1>2, <2>1, MinIs
  <2> QED BY <2>2
<1>6. m \in nth => m \in ends /\ Cardinality({j \in Newlines(text) : j > i /\ j <= m}) = n
  BY <1>3, <1>4
<1>7. m = Len(text) + 1 => m \in 1 .. Len(text) + 1 /\ ~(m <= Len(text))
  BY <1>1
<1> QED BY <1>1, <1>5, <1>6, <1>7 DEF m

\* A simple command, of the program and of the main script of a try.
LEMMA CommandStep ==
  ASSUME NEW text \in Text, NEW c, NEW at \in Progress, at.ok,
         NEW next \in {DryCommand(c, text, at), DrySubcommand(c, text, at)}
  PROVE  /\ next \in Progress
         /\ Good(next) => Good(at) /\ Advances(c, text, at.line, next.line)
<1>1. Len(text) \in Nat /\ ShownLines \in Nat
  BY TextIs, ShownAssumption
<1>2. CASE c.type = "monitor"
  <2>1. next = [at EXCEPT !.line = Skip(text, at.line, ShownLines)]
    BY <1>2 DEF DryCommand, DrySubcommand
  <2>2. Skip(text, at.line, ShownLines) \in Nat
    <3>1. at.line \in Nat
      BY DEF Progress
    <3>2. Skip(text, at.line, ShownLines) \in 1 .. Len(text) + 1
      BY <1>1, <3>1, SkipIs
    <3> QED BY <1>1, <3>2
  <2> QED BY <1>2, <2>1, <2>2 DEF Progress, Good, Advances
<1>3. CASE c.type = "expect" /\ c.pattern = BadPattern
  <2>1. next = [at EXCEPT !.ok = FALSE]
    BY <1>3 DEF DryCommand, DrySubcommand
  <2> QED BY <2>1 DEF Progress, Good
<1>4. CASE c.type = "expect" /\ c.pattern # BadPattern
  <2> DEFINE hits == Hits(c.pattern, text, at.line)
  <2>1. CASE hits = {}
    <3>1. next.found = FALSE /\ next \in Progress
      <4> DEFINE failed == [line |-> Len(text) + 1, ok |-> FALSE, found |-> FALSE]
      <4>1. DryExpect(c.pattern, text, at) = failed
        BY <2>1 DEF DryExpect
      <4>2. next \in {failed, [failed EXCEPT !.ok = TRUE]}
        BY <1>4, <4>1 DEF DryCommand, DrySubcommand
      <4>3. failed \in Progress /\ failed.found = FALSE
        BY <1>1 DEF Progress
      <4>4. [failed EXCEPT !.ok = TRUE] \in Progress /\ [failed EXCEPT !.ok = TRUE].found = FALSE
        BY <4>3 DEF Progress
      <4> HIDE DEF failed
      <4> QED BY <4>2, <4>3, <4>4
    <3> QED BY <3>1 DEF Good
  <2>2. CASE hits # {}
    <3>1. next = [at EXCEPT !.line = EndOf(text, Min(hits))]
      BY <1>4, <2>2 DEF DryCommand, DrySubcommand, DryExpect, Progress
    <3>2. Min(hits) \in Nat
      BY <1>1, <2>2, HitsAre DEF Progress
    <3>3. EndOf(text, Min(hits)) \in Nat
      BY <1>1, <3>2, EndOfLine
    <3> HIDE DEF hits
    <3>4. next \in Progress /\ next.line = EndOf(text, Min(hits)) /\ (Good(next) => Good(at))
      BY <3>1, <3>3 DEF Progress, Good
    <3> QED BY <1>4, <2>2, <3>4 DEF Advances, hits
  <2> QED BY <2>1, <2>2
<1>5. CASE c.type \notin {"monitor", "expect"}
  <2>1. next = at
    BY <1>5 DEF DryCommand, DrySubcommand
  <2> QED BY <1>5, <2>1 DEF Advances
<1> QED BY <1>2, <1>3, <1>4, <1>5

LEMMA ScriptSteps ==
  ASSUME NEW text \in Text, NEW script, Len(script) \in Nat, NEW at \in Progress
  PROVE  /\ DryScript(script, text, at) \in [0 .. Len(script) -> Progress]
         /\ DryScript(script, text, at)[0] = at
         /\ \A k \in 1 .. Len(script) :
              DryScript(script, text, at)[k] =
                LET before == DryScript(script, text, at)[k - 1]
                IN  IF before.ok THEN DrySubcommand(script[k], text, before) ELSE before
<1> DEFINE Step(k, s) == IF s.ok THEN DrySubcommand(script[k], text, s) ELSE s
    Run(f) == [k \in 0 .. Len(script) |-> IF k = 0 THEN at ELSE Step(k, f[k - 1])]
    step == [k \in 1 .. Len(script) |-> [s \in Progress |-> Step(k, s)]]
<1>1. ASSUME NEW k \in 1 .. Len(script), NEW s \in Progress
      PROVE  step[k][s] \in Progress /\ step[k][s] = Step(k, s)
  BY CommandStep
<1>2. PICK f : IsRun(f, Progress, at, Len(script), step)
  <2> HIDE DEF step
  <2>1. \A k \in 1 .. Len(script) : \A s \in Progress : step[k][s] \in Progress
    BY <1>1
  <2> QED BY <2>1, RunExists
<1> HIDE DEF step
<1>3. f = Run(f)
  <2>1. ASSUME NEW k \in 0 .. Len(script) PROVE f[k] = Run(f)[k]
    <3>1. CASE k = 0
      BY <1>2, <3>1 DEF IsRun
    <3>2. CASE k # 0
      <4>1. k \in 1 .. Len(script) /\ k - 1 \in 0 .. Len(script)
        BY <3>2
      <4>2. f[k] = Step(k, f[k - 1])
        BY <1>1, <1>2, <4>1 DEF IsRun
      <4> HIDE DEF Step
      <4> QED BY <3>2, <4>2
    <3> QED BY <3>1, <3>2
  <2> HIDE DEF Step
  <2> QED BY <1>2, <2>1 DEF IsRun
<1>4. DryScript(script, text, at) = CHOOSE g : g = Run(g)
  BY DEF DryScript
<1> DEFINE after == DryScript(script, text, at)
<1>5. after = Run(after)
  <2> HIDE DEF Run
  <2> QED BY <1>3, <1>4
<1> HIDE DEF after
<1>6. after[0] = at /\ \A k \in 1 .. Len(script) : after[k] = Step(k, after[k - 1])
  <2> HIDE DEF Step
  <2> QED BY <1>5
<1>7. after \in [0 .. Len(script) -> Progress]
  <2> DEFINE typed == {k \in 0 .. Len(script) : after[k] \in Progress}
  <2>1. 0 \in typed
    BY <1>6
  <2>2. ASSUME NEW k \in 1 .. Len(script), k - 1 \in typed PROVE k \in typed
    <3>1. Step(k, after[k - 1]) \in Progress
      BY <1>1, <2>2
    <3> QED BY <1>6, <3>1
  <2>3. 0 .. Len(script) \subseteq typed
    <3> HIDE DEF typed
    <3> QED BY <2>1, <2>2, Induction
  <2> HIDE DEF Step
  <2> QED BY <1>5, <2>3
<1> QED BY <1>6, <1>7 DEF after

LEMMA TryStep ==
  ASSUME NEW text \in Text, NEW c, Len(c.script) \in Nat, NEW at \in Progress
  PROVE  DryTry(c, text, at) \in Progress
<1>1. CASE c.script = Broken
  BY <1>1 DEF DryTry, Progress
<1>2. CASE c.script # Broken
  <2>1. Len(c.script) \in 0 .. Len(c.script)
    OBVIOUS
  <2> QED BY <1>2, <2>1, ScriptSteps DEF DryTry
<1> QED BY <1>1, <1>2

\* The scripts of the tries of a program are finite.
Finite(program) ==
  /\ Len(program) \in Nat
  /\ \A k \in 1 .. Len(program) : program[k].type = "try" => Len(program[k].script) \in Nat

LEMMA ExecuteSteps ==
  ASSUME NEW text \in Text, NEW program, Finite(program)
  PROVE  /\ ExecuteDryRun(program, text) \in [0 .. Len(program) -> Progress]
         /\ ExecuteDryRun(program, text)[0] = Started
         /\ \A k \in 1 .. Len(program) :
              ExecuteDryRun(program, text)[k] =
                LET before == ExecuteDryRun(program, text)[k - 1]
                IN  IF ~before.ok THEN before
                    ELSE IF program[k].type = "try" THEN DryTry(program[k], text, before)
                                                    ELSE DryCommand(program[k], text, before)
<1> DEFINE Step(k, s) == IF ~s.ok THEN s
                         ELSE IF program[k].type = "try" THEN DryTry(program[k], text, s)
                                                         ELSE DryCommand(program[k], text, s)
    Run(f) == [k \in 0 .. Len(program) |-> IF k = 0 THEN Started ELSE Step(k, f[k - 1])]
    step == [k \in 1 .. Len(program) |-> [s \in Progress |-> Step(k, s)]]
<1>0. Started \in Progress /\ Len(program) \in Nat
  BY DEF Started, Progress, Finite
<1>1. ASSUME NEW k \in 1 .. Len(program), NEW s \in Progress
      PROVE  step[k][s] \in Progress /\ step[k][s] = Step(k, s)
  BY CommandStep, TryStep DEF Finite
<1>2. PICK f : IsRun(f, Progress, Started, Len(program), step)
  <2> HIDE DEF step
  <2>1. \A k \in 1 .. Len(program) : \A s \in Progress : step[k][s] \in Progress
    BY <1>1
  <2> QED BY <1>0, <2>1, RunExists
<1> HIDE DEF step
<1>3. f = Run(f)
  <2>1. ASSUME NEW k \in 0 .. Len(program) PROVE f[k] = Run(f)[k]
    <3>1. CASE k = 0
      BY <1>2, <3>1 DEF IsRun
    <3>2. CASE k # 0
      <4>1. k \in 1 .. Len(program) /\ k - 1 \in 0 .. Len(program)
        BY <1>0, <3>2
      <4>2. f[k] = Step(k, f[k - 1])
        BY <1>1, <1>2, <4>1 DEF IsRun
      <4> HIDE DEF Step
      <4> QED BY <3>2, <4>2
    <3> QED BY <3>1, <3>2
  <2> HIDE DEF Step
  <2> QED BY <1>2, <2>1 DEF IsRun
<1>4. ExecuteDryRun(program, text) = CHOOSE g : g = Run(g)
  BY DEF ExecuteDryRun
<1> DEFINE after == ExecuteDryRun(program, text)
<1>5. after = Run(after)
  <2> HIDE DEF Run
  <2> QED BY <1>3, <1>4
<1> HIDE DEF after
<1>6. after[0] = Started /\ \A k \in 1 .. Len(program) : after[k] = Step(k, after[k - 1])
  <2> HIDE DEF Step
  <2> QED BY <1>0, <1>5
<1>7. after \in [0 .. Len(program) -> Progress]
  <2> DEFINE typed == {k \in 0 .. Len(program) : after[k] \in Progress}
  <2>1. 0 \in typed
    BY <1>0, <1>6
  <2>2. ASSUME NEW k \in 1 .. Len(program), k - 1 \in typed PROVE k \in typed
    <3>1. Step(k, after[k - 1]) \in Progress
      BY <1>1, <2>2
    <3> HIDE DEF Step
    <3> QED BY <1>6, <3>1
  <2>3. 0 .. Len(program) \subseteq typed
    <3> HIDE DEF typed
    <3> QED BY <1>0, <2>1, <2>2, Induction
  <2> HIDE DEF Step
  <2> QED BY <1>5, <2>3
<1> QED BY <1>6, <1>7 DEF after

\* In a dry run that finds everything every command does, and has its line.
LEMMA ScriptThrough ==
  ASSUME NEW text \in Text, NEW script, Len(script) \in Nat, NEW at \in Progress,
         Good(DryScript(script, text, at)[Len(script)])
  PROVE  /\ \A k \in 0 .. Len(script) : Good(DryScript(script, text, at)[k])
         /\ \A k \in 1 .. Len(script) :
              Advances(script[k], text, DryScript(script, text, at)[k - 1].line,
                       DryScript(script, text, at)[k].line)
<1> DEFINE after == DryScript(script, text, at)
    good == {k \in 0 .. Len(script) : Good(after[k])}
<1>1. ASSUME NEW k \in 1 .. Len(script), Good(after[k])
      PROVE  Good(after[k - 1]) /\ Advances(script[k], text, after[k - 1].line, after[k].line)
  <2>1. /\ after[k - 1] \in Progress
        /\ after[k] = IF after[k - 1].ok THEN DrySubcommand(script[k], text, after[k - 1])
                                         ELSE after[k - 1]
    BY ScriptSteps
  <2> HIDE DEF after
  <2>2. after[k - 1].ok
    BY <1>1, <2>1 DEF Good
  <2> QED BY <1>1, <2>1, <2>2, CommandStep
<1>2. 0 .. Len(script) \subseteq good
  <2>1. \A k \in 1 .. Len(script) : k \in good => k - 1 \in good
    BY <1>1
  <2>2. Len(script) \in good
    OBVIOUS
  <2> HIDE DEF good
  <2> QED BY <2>1, <2>2, Descent
<1> QED BY <1>1, <1>2

LEMMA ProgramThrough ==
  ASSUME NEW text \in Text, NEW program, Finite(program),
         Good(ExecuteDryRun(program, text)[Len(program)])
  PROVE  /\ \A k \in 0 .. Len(program) : Good(ExecuteDryRun(program, text)[k])
         /\ \A k \in 1 .. Len(program) :
              LET before == ExecuteDryRun(program, text)[k - 1]
                  after  == ExecuteDryRun(program, text)[k]
              IN  IF program[k].type = "try"
                    THEN /\ program[k].script # Broken
                         /\ after = DryScript(program[k].script, text, before)[Len(program[k].script)]
                    ELSE Advances(program[k], text, before.line, after.line)
<1> DEFINE after == ExecuteDryRun(program, text)
    good == {k \in 0 .. Len(program) : Good(after[k])}
<1>0. Len(program) \in Nat
  BY DEF Finite
<1>1. ASSUME NEW k \in 1 .. Len(program), Good(after[k])
      PROVE  /\ Good(after[k - 1])
             /\ IF program[k].type = "try"
                  THEN /\ program[k].script # Broken
                       /\ after[k] = DryScript(program[k].script, text, after[k - 1])[Len(program[k].script)]
                  ELSE Advances(program[k], text, after[k - 1].line, after[k].line)
  <2>1. /\ after[k - 1] \in Progress
        /\ after[k] = IF ~after[k - 1].ok THEN after[k - 1]
                      ELSE IF program[k].type = "try" THEN DryTry(program[k], text, after[k - 1])
                                                      ELSE DryCommand(program[k], text, after[k - 1])
    BY <1>0, ExecuteSteps
  <2> HIDE DEF after
  <2>2. after[k - 1].ok
    BY <1>1, <2>1 DEF Good
  <2>3. CASE program[k].type = "try"
    <3>1. after[k] = DryTry(program[k], text, after[k - 1])
      BY <2>1, <2>2, <2>3
    <3>2. program[k].script # Broken
      BY <1>1, <2>1, <3>1 DEF DryTry, Good, Progress
    <3>3. Len(program[k].script) \in Nat
      BY <2>3 DEF Finite
    <3>4. after[k] = DryScript(program[k].script, text, after[k - 1])[Len(program[k].script)]
      BY <3>1, <3>2 DEF DryTry
    <3>5. Good(DryScript(program[k].script, text, after[k - 1])[0])
      BY <1>1, <2>1, <3>3, <3>4, ScriptThrough
    <3>6. Good(after[k - 1])
      BY <2>1, <3>3, <3>5, ScriptSteps
    <3> QED BY <2>3, <3>2, <3>4, <3>6
  <2>4. CASE program[k].type # "try"
    <3>1. after[k] = DryCommand(program[k], text, after[k - 1])
      BY <2>1, <2>2, <2>4
    <3> QED BY <1>1, <2>1, <2>2, <2>4, <3>1, CommandStep
  <2> QED BY <2>3, <2>4
<1>2. 0 .. Len(program) \subseteq good
  <2>1. \A k \in 1 .. Len(program) : k \in good => k - 1 \in good
    BY <1>1
  <2>2. Len(program) \in good
    BY <1>0
  <2> HIDE DEF good
  <2> QED BY <1>0, <2>1, <2>2, Descent
<1> HIDE DEF after
<1>3. /\ \A k \in 0 .. Len(program) : Good(after[k])
      /\ \A k \in 1 .. Len(program) :
           IF program[k].type = "try"
             THEN /\ program[k].script # Broken
                  /\ after[k] = DryScript(program[k].script, text, after[k - 1])[Len(program[k].script)]
             ELSE Advances(program[k], text, after[k - 1].line, after[k].line)
  BY <1>1, <1>2
<1> QED BY <1>3 DEF after

------------------------------------------------------------------------------
(***************************************************************************)
(* What the real run does with the same text.                              *)
(***************************************************************************)
\* A pattern that an empty line matches, matches a newline.
LEMMA EmptyLineMatches ==
  ASSUME NEW text \in Text, NEW f \in 0 .. Len(text) - 1, text[f + 1] = Newline,
         NEW p \in Parsed, p # BadPattern, DryMatches(p, <<>>)
  PROVE  Matches(p, SubSeq(text, f + 1, f + 1))
<1> DEFINE r == SubSeq(text, f + 1, f + 1)
<1>1. p.kind \in {"anywhere", "lineStart", "regex"} /\ p.text \in Seq(Chars)
  BY DEF Parsed, Text
<1>2. r \in Seq(Chars) /\ Len(r) = 1 /\ r[1] = Newline
  BY TextIs, SubSeqProperties
<1> HIDE DEF r
<1>3. CASE p.kind \in {"lineStart", "regex"}
  <2> DEFINE marks == {i \in 1 .. Len(r) : r[i] = Newline}
  <2>1. CurrentLine(r) = SubSeq(r, (IF marks # {} THEN Max(marks) ELSE 0) + 1, Len(r))
    BY DEF CurrentLine, SelectLastInSeq
  <2>2. marks \in SUBSET Nat /\ 1 \in marks /\ \A i \in marks : i <= 1
    BY <1>2
  <2> HIDE DEF marks
  <2>3. Max(marks) = 1
    BY <2>2, MaxIs
  <2>4. CurrentLine(r) = SubSeq(r, 2, 1)
    BY <1>2, <2>1, <2>2, <2>3
  <2>5. SubSeq(r, 2, 1) = <<>>
    BY SubSeqEmpty
  <2> QED BY <1>3, <2>4, <2>5 DEF Matches, DryMatches, r
<1>4. CASE p.kind = "anywhere"
  <2> DEFINE fp == Folded(p.text)
  <2>1. PICK i \in Occurrences(fp, Folded(<<>>)) : TRUE
    BY <1>4 DEF DryMatches
  <2>2. ASSUME NEW t \in Seq(Chars)
        PROVE  Folded(t) \in Seq(Chars) /\ Len(Folded(t)) = Len(t) /\ Len(t) \in Nat
    BY AlphabetAssumption, LenProperties DEF Folded
  <2>3. fp \in Seq(Chars) /\ Len(fp) \in Nat /\ Len(Folded(<<>>)) = 0 /\ Len(Folded(r)) = 1
    BY <1>1, <1>2, <2>2, EmptySeq
  <2>4. i \in 0 .. Len(Folded(<<>>)) - Len(fp)
    BY <2>1 DEF Occurrences
  <2> HIDE DEF fp
  <2>5. Len(fp) = 0
    BY <2>3, <2>4
  <2>6. fp = <<>>
    BY <2>3, <2>5, EmptySeq
  <2>7. SubSeq(Folded(r), 0 + 1, 0 + Len(fp)) = fp
    BY <2>5, <2>6, SubSeqEmpty
  <2>8. 0 \in Occurrences(fp, Folded(r))
    BY <2>3, <2>5, <2>7 DEF Occurrences
  <2>9. Occurrences(Folded(p.text), Folded(r)) # {}
    BY <2>8 DEF fp
  <2> QED BY <1>4, <2>9 DEF Matches, r
<1> QED BY <1>1, <1>3, <1>4

\* An expect that began before the line that the dry run looks at has its match, at the
\* latest, with the newline that ends the line that the dry run takes.
LEMMA MatchInTime ==
  ASSUME NEW text \in Text, NEW i \in Nat, NEW f \in 0 .. i, NEW p \in Parsed, p # BadPattern,
         Hits(p, text, i) # {}, NEW n \in Nat, f < n, n <= Len(text),
         \A m \in f + 1 .. n - 1 : ~Matches(p, SubSeq(text, f + 1, m))
  PROVE  n <= EndOf(text, Min(Hits(p, text, i)))
<1> DEFINE s == Min(Hits(p, text, i))
    e == EndOf(text, s)
<1>1. /\ s \in LineNames(text) /\ s \in 0 .. Len(text) /\ i <= s
      /\ DryMatches(p, Line(text, s)) /\ Len(text) \in Nat
  BY HitsAre, TextIs
<1> HIDE DEF s
<1>2. e \in s + 1 .. Len(text) + 1 /\ (e <= Len(text) => e \in Newlines(text))
  <2>1. s \in Nat /\ s <= Len(text)
    BY <1>1
  <2> QED BY <1>1, <2>1, EndOfLine
<1>3. Matches(p, SubSeq(text, f + 1, e - 1))
  <2>1. f \in 0 .. s
    BY <1>1
  <2> QED BY <1>1, <2>1, MatchesAtTheEnd
<1>4. Line(text, s) = SubSeq(text, s + 1, e - 1)
  BY DEF Line
<1> HIDE DEF e
<1>5. SUFFICES ASSUME e < n PROVE FALSE
  <2>1. e \in Nat
    BY <1>1, <1>2
  <2> QED BY <1>5, <2>1 DEF e, s
<1>6. CASE f < e - 1
  <2>1. e - 1 \in f + 1 .. n - 1
    BY <1>1, <1>2, <1>5, <1>6
  <2> QED BY <1>3, <2>1
<1>7. CASE ~(f < e - 1)
  <2>1. s = f /\ e = f + 1 /\ f \in 0 .. Len(text) - 1
    BY <1>1, <1>2, <1>5, <1>7
  <2>2. Line(text, s) = <<>>
    BY <1>4, <2>1, SubSeqEmpty
  <2>3. text[f + 1] = Newline
    BY <1>2, <1>5, <2>1 DEF Newlines
  <2>4. Matches(p, SubSeq(text, f + 1, f + 1))
    BY <1>1, <2>1, <2>2, <2>3, EmptyLineMatches
  <2>5. f + 1 \in f + 1 .. n - 1
    BY <1>5, <2>1
  <2> QED BY <2>4, <2>5
<1> QED BY <1>6, <1>7

\* Of a text from f on there are as many newlines as of the part of it from i on, or more.
LEMMA LinesCounted ==
  ASSUME NEW text \in Text, NEW i \in Nat, NEW f \in 0 .. i, NEW k \in i + 1 .. Len(text)
  PROVE  /\ Lines(SubSeq(text, f + 1, k)) \in Nat
         /\ Cardinality({j \in Newlines(text) : j > i /\ j <= k}) <= Lines(SubSeq(text, f + 1, k))
<1> DEFINE r == SubSeq(text, f + 1, k)
    inLines == {j \in Newlines(text) : j > i /\ j <= k}
    marks == {j \in DOMAIN r : r[j] = Newline}
    shift == [j \in inLines |-> j - f]
<1>1. /\ Len(text) \in Nat
      /\ \A j \in Newlines(text) : j \in 1 .. Len(text) /\ text[j] = Newline
  BY TextIs DEF Newlines
<1>2. DOMAIN r = 1 .. k - f /\ \A j \in 1 .. k - f : r[j] = text[f + j]
  <2>1. \A j \in f + 1 .. k : text[j] \in Chars
    BY TextIs
  <2>2. r \in Seq(Chars) /\ Len(r) = k - f /\ \A j \in 1 .. k - f : r[j] = text[(f + 1) + j - 1]
    BY <1>1, <2>1, SubSeqProperties
  <2> HIDE DEF r
  <2> QED BY <2>2, LenProperties
<1> HIDE DEF r
<1>3. IsFiniteSet(marks)
  <2>1. marks \subseteq 1 .. k - f
    BY <1>2
  <2>2. IsFiniteSet(1 .. k - f)
    BY <1>1, FS_Interval
  <2> HIDE DEF marks
  <2> QED BY <2>1, <2>2, FS_Subset
<1>4. shift \in Injection(inLines, marks)
  <2>1. ASSUME NEW j \in inLines PROVE j - f \in marks /\ j \in Nat
    <3>1. j \in Nat /\ j > i /\ j <= k /\ text[j] = Newline
      BY <1>1
    <3>2. j - f \in 1 .. k - f /\ f + (j - f) = j
      BY <1>1, <3>1
    <3>3. r[j - f] = Newline
      BY <1>2, <3>1, <3>2
    <3> QED BY <1>2, <3>1, <3>2, <3>3
  <2> HIDE DEF inLines, marks
  <2>2. shift \in [inLines -> marks]
    BY <2>1
  <2>3. ASSUME NEW a \in inLines, NEW b \in inLines, shift[a] = shift[b] PROVE a = b
    BY <2>1, <2>3
  <2> HIDE DEF shift
  <2> QED BY <2>2, <2>3 DEF Injection, IsInjective
<1>5. Cardinality(inLines) <= Cardinality(marks) /\ Cardinality(marks) \in Nat
  <2> HIDE DEF inLines, marks, shift
  <2> QED BY <1>3, <1>4, FS_Injection, FS_CardinalityType
<1>6. Lines(r) = Cardinality(marks)
  BY DEF Lines
<1> QED BY <1>5, <1>6 DEF r

\* A monitor that began before the line that the dry run shows next has its lines, at the
\* latest, with the last newline that the dry run shows.
LEMMA EnoughInTime ==
  ASSUME NEW text \in Text, NEW i \in Nat, NEW f \in 0 .. i,
         NEW l \in Int, l <= ShownLines, NEW n \in Nat, f < n, n <= Len(text),
         \A m \in f + 1 .. n - 1 : ~(text[m] = Newline /\ Lines(SubSeq(text, f + 1, m)) >= l)
  PROVE  n <= Skip(text, i, ShownLines)
<1> DEFINE k == Skip(text, i, ShownLines)
<1>1. /\ k \in 1 .. Len(text) + 1 /\ Len(text) \in Nat /\ ShownLines \in Nat
      /\ k <= Len(text) =>
           /\ k \in Newlines(text) /\ k > i
           /\ Cardinality({j \in Newlines(text) : j > i /\ j <= k}) = ShownLines
  BY SkipIs, TextIs, ShownAssumption
<1> HIDE DEF k
<1>2. SUFFICES ASSUME k < n PROVE FALSE
  <2>1. k \in Nat
    BY <1>1
  <2> QED BY <1>2, <2>1 DEF k
<1>3. k \in i + 1 .. Len(text) /\ k \in f + 1 .. n - 1 /\ text[k] = Newline
  BY <1>1, <1>2 DEF Newlines
<1>4. /\ Lines(SubSeq(text, f + 1, k)) \in Nat
      /\ Cardinality({j \in Newlines(text) : j > i /\ j <= k}) <= Lines(SubSeq(text, f + 1, k))
  BY <1>3, LinesCounted
<1>5. Lines(SubSeq(text, f + 1, k)) >= l
  <2>1. ShownLines <= Lines(SubSeq(text, f + 1, k))
    BY <1>1, <1>3, <1>4
  <2> QED BY <1>1, <1>4, <2>1
<1> QED BY <1>3, <1>5

------------------------------------------------------------------------------
(***************************************************************************)
(* The real run keeps pace with the dry run of every text that begins with *)
(* what it has consumed: each command begins at or before the line at      *)
(* which the dry run has it begin.                                         *)
(***************************************************************************)
Extends(text) == consumed <= Len(text) /\ \A m \in 1 .. consumed : text[m] = rx[m]
Promised(text) == Good(ExecuteDryRun(commands, text)[Len(commands)])

\* Where the dry run is before the command at p.
DryAt(p, text) ==
  LET at == ExecuteDryRun(commands, text)[p.ip - 1]
  IN  IF p.level = "top" THEN at ELSE DryScript(Outer(p).script, text, at)[p.sub - 1]

PaceInv ==
  Comparable(commands) /\ errors = <<>> /\ pc # "done" =>
    \A text \in Text : Extends(text) /\ Promised(text) => Begun <= DryAt(place, text).line

\* A monitor that is still waiting has not had its lines.
CountInv ==
  pc = "monitor" =>
    /\ Current.valid
    /\ \A m \in from + 1 .. consumed :
         ~(rx[m] = Newline /\ Current.lines > 0 /\ Lines(SubSeq(rx, from + 1, m)) >= Current.lines)

LEMMA CommandsAreFinite ==
  ASSUME commands \in Programs PROVE Finite(commands)
BY CommandTypes DEF Finite

\* The current command: what the dry run does for it, and before and after it.
LEMMA DryBefore ==
  ASSUME ControlInv, place.level # "except", NEW text \in Text
  PROVE  DryAt(place, text) \in Progress
<1>1. /\ commands \in Programs /\ Finite(commands) /\ Len(commands) \in Nat
      /\ place.ip \in 1 .. Len(commands) + 1 /\ place.level \in {"top", "script"}
  BY CommandTypes, CommandsAreFinite DEF ControlInv, PlaceOK, Places, Levels
<1>2. ExecuteDryRun(commands, text)[place.ip - 1] \in Progress
  <2>1. place.ip - 1 \in 0 .. Len(commands)
    BY <1>1
  <2> QED BY <1>1, <2>1, ExecuteSteps
<1>3. CASE place.level = "top"
  BY <1>2, <1>3 DEF DryAt
<1>4. CASE place.level = "script"
  <2>1. /\ place.ip \in 1 .. Len(commands) /\ Outer(place).type = "try"
        /\ place.sub \in 1 .. Len(Outer(place).script) + 1
    BY <1>1, <1>4 DEF ControlInv, PlaceOK, Subcommands
  <2>2. Len(Outer(place).script) \in Nat
    BY <1>1, <2>1 DEF Finite, Outer
  <2>3. place.sub - 1 \in 0 .. Len(Outer(place).script)
    BY <2>1, <2>2
  <2> QED BY <1>2, <1>4, <2>2, <2>3, ScriptSteps DEF DryAt
<1> QED BY <1>1, <1>3, <1>4

LEMMA DryFollowing ==
  ASSUME ControlInv, place.level # "except", ~AtEnd, Current.type # "try",
         NEW text \in Text, Promised(text)
  PROVE  /\ DryAt(Following, text) \in Progress
         /\ Advances(Current, text, DryAt(place, text).line, DryAt(Following, text).line)
<1>1. /\ commands \in Programs /\ Finite(commands) /\ Len(commands) \in Nat
      /\ place.ip \in 1 .. Len(commands) + 1 /\ place.level \in {"top", "script"}
      /\ place \in Places
  BY CommandTypes, CommandsAreFinite DEF ControlInv, PlaceOK, Places, Levels
<1>2. ExecuteDryRun(commands, text) \in [0 .. Len(commands) -> Progress]
  BY <1>1, ExecuteSteps
<1>3. CASE place.level = "top"
  <2>1. place.ip \in 1 .. Len(commands) /\ Current = commands[place.ip]
    BY <1>1, <1>3 DEF AtEnd, Current, Outer
  <2>2. /\ Following.ip = place.ip + 1 /\ Following.level = "top"
        /\ (place.ip + 1) - 1 = place.ip /\ place.ip \in 0 .. Len(commands)
    BY <1>1, <1>3, <2>1 DEF Following, At
  <2>3. DryAt(Following, text) = ExecuteDryRun(commands, text)[place.ip]
    BY <2>2 DEF DryAt
  <2>4. DryAt(place, text) = ExecuteDryRun(commands, text)[place.ip - 1]
    BY <1>3 DEF DryAt
  <2>5. Advances(commands[place.ip], text, ExecuteDryRun(commands, text)[place.ip - 1].line,
                 ExecuteDryRun(commands, text)[place.ip].line)
    BY <1>1, <2>1, ProgramThrough DEF Promised
  <2> QED BY <1>2, <2>1, <2>2, <2>3, <2>4, <2>5
<1>4. CASE place.level = "script"
  <2> DEFINE at == ExecuteDryRun(commands, text)[place.ip - 1]
      script == Outer(place).script
  <2>1. /\ place.ip \in 1 .. Len(commands) /\ Outer(place).type = "try"
        /\ place.sub \in 1 .. Len(script) + 1
    BY <1>1, <1>4 DEF ControlInv, PlaceOK, Subcommands
  <2>2. Len(script) \in Nat /\ at \in Progress
    BY <1>1, <1>2, <2>1 DEF Finite, Outer
  <2>3. place.sub \in 1 .. Len(script) /\ Current = script[place.sub]
    BY <1>4, <2>1, <2>2 DEF AtEnd, Current, Subcommands
  <2>4. Following = [place EXCEPT !.sub = @ + 1]
    BY <1>4 DEF Following
  <2>5. /\ Following.ip = place.ip /\ Following.level = "script" /\ Following.sub = place.sub + 1
        /\ (place.sub + 1) - 1 = place.sub /\ place.sub \in 0 .. Len(script)
    BY <1>1, <1>4, <2>3, <2>4 DEF Places
  <2>6. DryAt(Following, text) = DryScript(script, text, at)[place.sub]
    BY <2>5 DEF DryAt, Outer
  <2>7. DryAt(place, text) = DryScript(script, text, at)[place.sub - 1]
    BY <1>4 DEF DryAt
  <2>8. Good(DryScript(script, text, at)[Len(script)])
    <3>1. /\ Good(ExecuteDryRun(commands, text)[place.ip])
          /\ ExecuteDryRun(commands, text)[place.ip] = DryScript(script, text, at)[Len(script)]
      BY <1>1, <2>1, ProgramThrough DEF Promised, Outer
    <3> QED BY <3>1
  <2>9. Advances(script[place.sub], text, DryScript(script, text, at)[place.sub - 1].line,
                 DryScript(script, text, at)[place.sub].line)
    BY <2>2, <2>3, <2>8, ScriptThrough
  <2>10. DryScript(script, text, at)[place.sub] \in Progress
    BY <2>2, <2>5, ScriptSteps
  <2> QED BY <2>3, <2>6, <2>7, <2>9, <2>10
<1> QED BY <1>1, <1>3, <1>4

\* The main script of a try begins, and is through.
LEMMA DryTryBegins ==
  ASSUME ControlInv, place.level = "top", ~AtEnd, Current.type = "try",
         NEW q, q.ip = place.ip, q.level = "script", q.sub = 1, NEW text \in Text
  PROVE  DryAt(q, text) = DryAt(place, text)
<1>1. /\ Finite(commands) /\ Len(commands) \in Nat /\ place.ip \in 1 .. Len(commands)
      /\ Outer(q) = commands[place.ip] /\ commands[place.ip].type = "try"
  BY CommandTypes, CommandsAreFinite DEF ControlInv, PlaceOK, AtEnd, Current, Outer
<1>2. ExecuteDryRun(commands, text)[place.ip - 1] \in Progress
  BY <1>1, ExecuteSteps
<1>3. Len(Outer(q).script) \in Nat
  BY <1>1 DEF Finite
<1>4. DryScript(Outer(q).script, text, ExecuteDryRun(commands, text)[place.ip - 1])[0]
        = ExecuteDryRun(commands, text)[place.ip - 1]
  BY <1>2, <1>3, ScriptSteps
<1> QED BY <1>4 DEF DryAt

LEMMA DryTryEnds ==
  ASSUME ControlInv, place.level = "script", AtEnd, NEW text \in Text, Promised(text)
  PROVE  DryAt(At(place.ip + 1), text) = DryAt(place, text)
<1> DEFINE at == ExecuteDryRun(commands, text)[place.ip - 1]
    script == Outer(place).script
<1>1. /\ Finite(commands) /\ Len(commands) \in Nat /\ place.ip \in 1 .. Len(commands)
      /\ Outer(place) = commands[place.ip] /\ commands[place.ip].type = "try"
      /\ place.sub \in 1 .. Len(script) + 1 /\ place.sub > Len(script)
  BY CommandTypes, CommandsAreFinite DEF ControlInv, PlaceOK, AtEnd, Outer, Subcommands
<1>2. Len(script) \in Nat
  BY <1>1 DEF Finite
<1>3. ExecuteDryRun(commands, text)[place.ip] = DryScript(script, text, at)[Len(script)]
  BY <1>1, ProgramThrough DEF Promised
<1>4. place.sub - 1 = Len(script) /\ (place.ip + 1) - 1 = place.ip
  BY <1>1, <1>2
<1>5. DryAt(At(place.ip + 1), text) = ExecuteDryRun(commands, text)[place.ip]
  BY <1>4 DEF DryAt, At
<1>6. DryAt(place, text) = DryScript(script, text, at)[Len(script)]
  BY <1>4 DEF DryAt
<1> QED BY <1>3, <1>5, <1>6

------------------------------------------------------------------------------
(***************************************************************************)
(* The steps keep the pace.                                                *)
(***************************************************************************)
LEMMA PaceAfter ==
  ASSUME IInv, UNCHANGED commands, consumed' \in Nat, consumed <= consumed',
         \A m \in 1 .. consumed : rx'[m] = rx[m],
         Comparable(commands) /\ errors' = <<>> /\ pc' # "done" =>
           \A text \in Text : Extends(text) /\ Extends(text)' /\ Promised(text)
             => Begun' <= DryAt(place', text).line
  PROVE  PaceInv'
<1>1. consumed \in Nat
  BY DEF IInv, DataInv
<1>2. ASSUME NEW text \in Text, Extends(text)' PROVE Extends(text)
  <2>1. Len(text) \in Nat
    BY TextIs
  <2> QED BY <1>1, <1>2, <2>1 DEF Extends
<1>3. \A text : Promised(text)' = Promised(text) /\ DryAt(place, text)' = DryAt(place', text)
  BY DEF Promised, DryAt, Outer
<1> HIDE DEF Begun
<1> QED BY <1>2, <1>3 DEF PaceInv, Text

\* The current command goes on, begins to wait, or the script ends.
LEMMA PaceSame ==
  ASSUME IInv, PaceInv, UNCHANGED <<commands, place, errors>>,
         consumed' \in Nat, consumed <= consumed', \A m \in 1 .. consumed : rx'[m] = rx[m],
         pc' = "done" \/ (pc # "done" /\ Begun' = Begun)
  PROVE  PaceInv'
<1> HIDE DEF Begun
<1>1. ASSUME Comparable(commands), errors' = <<>>, pc' # "done",
             NEW text \in Text, Extends(text), Promised(text)
      PROVE  Begun' <= DryAt(place', text).line
  BY <1>1 DEF PaceInv
<1> QED BY <1>1, PaceAfter

\* The current command fails.
LEMMA PaceFailure ==
  ASSUME IInv, UNCHANGED <<commands, rx, consumed>>, Failure
  PROVE  PaceInv'
<1>1. errors' # <<>> \/ pc' = "done"
  <2>1. CASE place.level = "top"
    BY <2>1 DEF Failure, Return
  <2>2. CASE place.level = "script"
    <3>1. errors' = Append(errors, place) /\ errors \in Seq(Places) /\ place \in Places
      BY <2>2 DEF Failure, IInv, ErrorsInv, ControlInv, PlaceOK
    <3> QED BY <3>1, AppendProperties
  <2>3. CASE place.level \notin {"top", "script"}
    <3>1. place.level = "except" /\ errors' = errors
      BY <2>3 DEF Failure, IInv, ControlInv, PlaceOK, Places, Levels
    <3> QED BY <3>1 DEF IInv, ErrorsInv
  <2> QED BY <2>1, <2>2, <2>3
<1> QED BY <1>1 DEF PaceInv

\* The current command succeeds.
LEMMA PaceSuccess ==
  ASSUME IInv, UNCHANGED <<commands, rx>>, consumed' \in Nat, consumed <= consumed',
         pc # "done", ~AtEnd, Success, Current.type # "try",
         Comparable(commands) /\ errors = <<>> =>
           \A text \in Text : \A j \in Nat :
             /\ Extends(text) /\ Extends(text)' /\ Promised(text)
             /\ Advances(Current, text, DryAt(place, text).line, j)
             => consumed' <= j
  PROVE  PaceInv'
<1>1. pc' = "next" /\ place' = Following /\ errors' = errors /\ Begun' = consumed'
  BY DEF Success, Begun
<1> HIDE DEF Begun
<1>2. ASSUME Comparable(commands), errors' = <<>>,
             NEW text \in Text, Extends(text), Extends(text)', Promised(text)
      PROVE  Begun' <= DryAt(place', text).line
  <2>1. ControlInv /\ place.level # "except"
    BY <1>1, <1>2 DEF IInv, ErrorsInv
  <2>2. /\ DryAt(Following, text) \in Progress
        /\ Advances(Current, text, DryAt(place, text).line, DryAt(Following, text).line)
    BY <1>2, <2>1, DryFollowing
  <2>3. DryAt(Following, text).line \in Nat
    BY <2>2 DEF Progress
  <2> QED BY <1>1, <1>2, <2>2, <2>3
<1> QED BY <1>1, <1>2, PaceAfter

\* A command that a dry run can say something of.
LEMMA CurrentCounts ==
  ASSUME ControlInv, Comparable(commands), place.level # "except", ~AtEnd
  PROVE  /\ Alike(Current)
         /\ Current.type = "expect" => Current.pattern \in Parsed
         /\ Current.type = "monitor" => Current.lines \in Int
<1>1. commands \in Programs /\ Len(commands) \in Nat /\ DOMAIN commands = 1 .. Len(commands)
  <2>1. commands \in Programs
    BY DEF ControlInv
  <2>2. commands \in Seq(Simple \cup Compound)
    BY <2>1, ProgramsAssumption
  <2> QED BY <2>1, <2>2, LenProperties
<1>2. Current \in Simple \cup Compound
  BY CurrentType DEF ControlInv
<1>3. Current.type = "expect" => Current.pattern \in Parsed
  BY <1>2 DEF Simple, Compound, Send, Broken
<1>4. Current.type = "monitor" => Current.lines \in Int
  BY <1>2 DEF Simple, Compound, Send, Broken
<1>5. CASE place.level = "top"
  <2>1. place.ip \in DOMAIN commands /\ Current = commands[place.ip]
    BY <1>1, <1>5 DEF ControlInv, PlaceOK, AtEnd, Current, Outer
  <2> QED BY <1>3, <1>4, <2>1 DEF Comparable
<1>6. CASE place.level = "script"
  <2>1. /\ place.ip \in DOMAIN commands /\ Outer(place) = commands[place.ip]
        /\ Outer(place).type = "try" /\ place.sub \in 1 .. Len(Outer(place).script) + 1
        /\ ~(place.sub > Len(Outer(place).script)) /\ Current = Outer(place).script[place.sub]
    BY <1>1, <1>6 DEF ControlInv, PlaceOK, AtEnd, Current, Subcommands, Outer
  <2>2. Outer(place).script \in Seq(Simple)
    BY <1>1, <2>1, CommandTypes
  <2>3. place.sub \in DOMAIN Outer(place).script
    <3>1. DOMAIN Outer(place).script = 1 .. Len(Outer(place).script) /\ Len(Outer(place).script) \in Nat
      BY <2>2, LenProperties
    <3> QED BY <2>1, <3>1
  <2> QED BY <1>3, <1>4, <2>1, <2>3 DEF Comparable
<1>7. place.level \in {"top", "script"}
  BY DEF ControlInv, PlaceOK, Places, Levels
<1> QED BY <1>5, <1>6, <1>7

LEMMA SameReceived ==
  ASSUME DataInv, NEW text \in Text, Extends(text), NEW f \in Nat, NEW m \in f + 1 .. consumed
  PROVE  SubSeq(text, f + 1, m) = SubSeq(rx, f + 1, m)
<1>1. /\ rx \in Seq(Chars) /\ text \in Seq(Chars) /\ consumed \in Nat
      /\ \A k \in 1 .. consumed : text[k] \in Chars /\ rx[k] \in Chars /\ text[k] = rx[k]
  <2>1. rx \in Text /\ consumed \in 0 .. Len(rx) /\ consumed <= Len(text)
    <3>1. rx \in Text /\ arrived \in 0 .. Len(rx) /\ consumed \in 0 .. arrived
      BY DEF DataInv
    <3>2. Len(rx) \in Nat
      BY <3>1, TextIs
    <3> QED BY <3>1, <3>2 DEF Extends
  <2>2. Len(rx) \in Nat /\ Len(text) \in Nat
    BY <2>1, TextIs
  <2> QED BY <2>1, <2>2, TextIs DEF Extends
<1>2. \A k \in f + 1 .. m : k \in 1 .. consumed
  BY <1>1
<1> DEFINE a == SubSeq(text, f + 1, m)
    b == SubSeq(rx, f + 1, m)
<1>3. /\ a \in Seq(Chars) /\ Len(a) = m - f
      /\ \A k \in 1 .. m - f : a[k] = text[f + k]
  BY <1>1, <1>2, SubSeqProperties
<1>4. /\ b \in Seq(Chars) /\ Len(b) = m - f
      /\ \A k \in 1 .. m - f : b[k] = rx[f + k]
  BY <1>1, <1>2, SubSeqProperties
<1> HIDE DEF a, b
<1>5. ASSUME NEW k \in 1 .. Len(a) PROVE a[k] = b[k]
  <2>1. k \in 1 .. m - f /\ f + k \in 1 .. consumed
    BY <1>1, <1>3
  <2> QED BY <1>1, <1>3, <1>4, <2>1
<1>6. a = b
  BY <1>3, <1>4, <1>5, SeqEqual
<1> QED BY <1>6 DEF a, b

\* A string is taken from the channel.
LEMMA PaceReceive ==
  ASSUME IInv, PaceInv, CountInv, Receive PROVE PaceInv'
<1>1. /\ UNCHANGED <<commands, rx, from>> /\ pc \in {"expect", "monitor"} /\ ~AtEnd
      /\ consumed' = consumed + 1 /\ consumed \in Nat /\ from \in 0 .. consumed
      /\ Begun = from /\ Current.type = pc /\ ControlInv /\ DataInv
  BY DEF Receive, device, IInv, ControlInv, DataInv, Begun
<1>2. CASE UNCHANGED <<place, pc, errors>>
  <2>1. Begun' = Begun /\ pc # "done"
    BY <1>1, <1>2 DEF Begun
  <2> HIDE DEF Begun
  <2> QED BY <1>1, <1>2, <2>1, PaceSame
<1>3. CASE Success
  <2>1. ASSUME Comparable(commands), errors = <<>>, NEW text \in Text, NEW j \in Nat,
               Extends(text), Extends(text)', Promised(text),
               Advances(Current, text, DryAt(place, text).line, j)
        PROVE  consumed' <= j
    <3> DEFINE i == DryAt(place, text).line
    <3>1. place.level # "except"
      BY <2>1 DEF IInv, ErrorsInv
    <3>2. i \in Nat
      <4>1. DryAt(place, text) \in Progress
        BY <1>1, <3>1, DryBefore
      <4> QED BY <4>1 DEF Progress
    <3>3. from \in 0 .. i
      <4>1. from <= i
        BY <1>1, <2>1 DEF PaceInv
      <4> HIDE DEF i
      <4> QED BY <1>1, <3>2, <4>1
    <3>4. /\ consumed' \in Nat /\ from < consumed' /\ consumed' <= Len(text)
          /\ consumed' - 1 = consumed
      BY <1>1, <2>1 DEF Extends
    <3>5. \A m \in from + 1 .. consumed :
            /\ SubSeq(text, from + 1, m) = SubSeq(rx, from + 1, m)
            /\ text[m] = rx[m]
      <4>1. from \in Nat
        BY <1>1
      <4>2. \A m \in from + 1 .. consumed : m \in 1 .. consumed
        BY <1>1
      <4> QED BY <1>1, <2>1, <4>1, <4>2, SameReceived DEF Extends
    <3>6. /\ Alike(Current)
          /\ Current.type = "expect" => Current.pattern \in Parsed
          /\ Current.type = "monitor" => Current.lines \in Int
      BY <1>1, <2>1, <3>1, CurrentCounts
    <3>7. CASE pc = "expect"
      <4> DEFINE p == Current.pattern
      <4>1. p \in Parsed /\ p # BadPattern /\ Hits(p, text, i) # {} /\ j = EndOf(text, Min(Hits(p, text, i)))
        BY <1>1, <2>1, <3>6, <3>7 DEF Advances
      <4>2. \A m \in from + 1 .. consumed' - 1 : ~Matches(p, SubSeq(text, from + 1, m))
        <5>1. \A m \in from + 1 .. consumed : ~Matches(p, SubSeq(rx, from + 1, m))
          BY <1>1, <3>6, <3>7 DEF IInv, NothingMissed, Alike
        <5> QED BY <3>4, <3>5, <5>1
      <4> HIDE DEF p, i
      <4> QED BY <3>2, <3>3, <3>4, <4>1, <4>2, MatchInTime
    <3>8. CASE pc = "monitor"
      <4> DEFINE l == Current.lines
      <4>1. /\ l \in Int /\ l <= ShownLines /\ j = Skip(text, i, ShownLines)
            /\ Current.valid
        BY <1>1, <2>1, <3>6, <3>8 DEF Advances, Alike, CountInv
      <4>2. l > 0
        <5>1. Enough
          BY <1>3, <3>8, <1>1 DEF Receive, Success
        <5> QED BY <5>1 DEF Enough
      <4>3. \A m \in from + 1 .. consumed' - 1 :
              ~(text[m] = Newline /\ Lines(SubSeq(text, from + 1, m)) >= l)
        <5>1. \A m \in from + 1 .. consumed :
                ~(rx[m] = Newline /\ Lines(SubSeq(rx, from + 1, m)) >= l)
          BY <3>8, <4>2 DEF CountInv
        <5> QED BY <3>4, <3>5, <5>1
      <4> HIDE DEF l, i
      <4> QED BY <3>2, <3>3, <3>4, <4>1, <4>3, EnoughInTime
    <3> QED BY <1>1, <3>7, <3>8
  <2>2. consumed' \in Nat /\ consumed <= consumed' /\ pc # "done" /\ Current.type # "try"
    BY <1>1
  <2> QED BY <1>1, <1>3, <2>1, <2>2, PaceSuccess
<1> QED BY <1>2, <1>3 DEF Receive

LEMMA PaceTry ==
  ASSUME IInv, PaceInv, BeginTry \/ EndAttempt \/ EndExcept PROVE PaceInv'
<1>1. /\ UNCHANGED <<commands, rx, consumed>> /\ pc = "next" /\ consumed \in Nat
      /\ ControlInv /\ ErrorsInv /\ Begun = consumed /\ (pc' = "next" => Begun' = consumed)
  BY DEF BeginTry, EndAttempt, EndExcept, IsNext, device, IInv, DataInv, Begun
<1>2. ASSUME pc' = "done" PROVE PaceInv'
  BY <1>2 DEF PaceInv
<1>3. ASSUME pc' = "next", errors = <<>>,
             \A text \in Text : Promised(text) => DryAt(place', text) = DryAt(place, text)
      PROVE  PaceInv'
  <2> HIDE DEF Begun
  <2>1. ASSUME Comparable(commands), NEW text \in Text, Extends(text), Promised(text)
        PROVE  Begun' <= DryAt(place', text).line
    BY <1>1, <1>3, <2>1 DEF PaceInv
  <2> QED BY <1>1, <1>3, <2>1, PaceAfter
<1>4. CASE BeginTry
  <2>1. pc = "next" /\ ~AtEnd /\ Current.type = "try"
    BY <1>4 DEF BeginTry, IsNext
  <2>2. place.level = "top"
    BY <1>1, <2>1, CurrentType DEF ControlInv
  <2>3. errors = <<>> /\ place \in Places
    BY <1>1, <2>2 DEF ErrorsInv, ControlInv, PlaceOK
  <2>4. CASE place' = [place EXCEPT !.level = "script", !.attempt = 1, !.sub = 1] /\ pc' = pc
    <3>1. place'.ip = place.ip /\ place'.level = "script" /\ place'.sub = 1
      BY <2>3, <2>4 DEF Places
    <3>2. \A text \in Text : DryAt(place', text) = DryAt(place, text)
      BY <1>1, <2>1, <2>2, <3>1, DryTryBegins
    <3> QED BY <1>3, <2>1, <2>3, <2>4, <3>2
  <2>5. CASE Return(place)
    BY <1>2, <2>5 DEF Return
  <2> QED BY <1>4, <2>4, <2>5 DEF BeginTry
<1>5. CASE EndAttempt
  <2>1. place.level = "script" /\ AtEnd
    BY <1>5 DEF EndAttempt
  <2>2. CASE errors = <<>> /\ place' = At(place.ip + 1) /\ pc' = pc
    <3>1. \A text \in Text : Promised(text) => DryAt(place', text) = DryAt(place, text)
      BY <1>1, <2>1, <2>2, DryTryEnds
    <3> QED BY <1>1, <1>3, <2>2, <3>1
  <2>3. CASE errors # <<>> /\ place.attempt < MaxAttempts(Outer(place))
    <3>1. ~Comparable(commands)
      <4>1. /\ place.ip \in 1 .. Len(commands) /\ commands[place.ip].type = "try"
            /\ place.attempt \in 1 .. MaxAttempts(Outer(place))
        BY <1>1, <2>1 DEF ControlInv, PlaceOK, Outer
      <4>2. commands[place.ip].retry
        BY <2>3, <4>1 DEF MaxAttempts, Outer
      <4>3. DOMAIN commands = 1 .. Len(commands)
        BY <1>1, ProgramsAssumption, LenProperties DEF ControlInv
      <4> QED BY <4>1, <4>2, <4>3 DEF Comparable
    <3> QED BY <1>1, <3>1 DEF PaceInv, Comparable, Alike
  <2>4. CASE errors # <<>> /\ errors' = errors
    BY <2>4 DEF PaceInv
  <2>5. CASE \E p : Return(p)
    BY <1>2, <2>5 DEF Return
  <2> QED BY <1>5, <2>2, <2>3, <2>4, <2>5 DEF EndAttempt
<1>6. CASE EndExcept
  BY <1>2, <1>6 DEF EndExcept, Return
<1> QED BY <1>4, <1>5, <1>6

LEMMA PaceScript ==
  ASSUME IInv, PaceInv, CountInv, Script PROVE PaceInv'
<1>0. /\ consumed \in Nat /\ ControlInv
      /\ (pc \in {"expect", "monitor"} => ~AtEnd /\ Current.type = pc)
  BY DEF IInv, DataInv, ControlInv
<1>1. CASE EndScript
  BY <1>1 DEF EndScript, PaceInv
<1>2. CASE HandleSend
  <2>1. /\ UNCHANGED <<commands, rx, consumed>> /\ pc = "next" /\ ~AtEnd
        /\ Current.type = "send" /\ Begun = consumed /\ (Success \/ Failure)
    BY <1>2 DEF HandleSend, IsNext, device, Begun
  <2>2. CASE Success
    <3>1. ASSUME Comparable(commands), errors = <<>>, NEW text \in Text, NEW j \in Nat,
                 Extends(text), Promised(text), Advances(Current, text, DryAt(place, text).line, j)
          PROVE  consumed' <= j
      <4> HIDE DEF Begun
      <4>1. j = DryAt(place, text).line
        BY <2>1, <3>1 DEF Advances
      <4> QED BY <2>1, <3>1, <4>1 DEF PaceInv
    <3>2. consumed' \in Nat /\ consumed <= consumed' /\ pc # "done" /\ Current.type # "try"
      BY <1>0, <2>1
    <3> QED BY <2>1, <2>2, <3>1, <3>2, PaceSuccess
  <2> QED BY <2>1, <2>2, PaceFailure
<1>3. CASE BeginExpect \/ BeginMonitor
  <2>1. /\ UNCHANGED <<commands, rx, consumed>> /\ pc = "next" /\ ~AtEnd
        /\ (Failure \/ \E label \in {"expect", "monitor"} : \E timeout : Wait(label, timeout))
    BY <1>3 DEF BeginExpect, BeginMonitor, IsNext, device
  <2>2. ASSUME NEW label \in {"expect", "monitor"}, NEW timeout, Wait(label, timeout)
        PROVE  PaceInv'
    <3>1. pc # "done" /\ Begun' = Begun /\ UNCHANGED <<place, errors>>
      BY <2>1, <2>2 DEF Wait, Begun
    <3> HIDE DEF Begun
    <3> QED BY <1>0, <2>1, <3>1, PaceSame
  <2> QED BY <2>1, <2>2, PaceFailure
<1>4. CASE TimerFires
  <2>1. /\ UNCHANGED <<commands, rx, consumed>> /\ pc \in {"expect", "monitor"} /\ ~AtEnd
        /\ Current.type = pc
        /\ (Failure \/ (pc = "monitor" /\ Current.lines = 0 /\ Success))
    BY <1>0, <1>4 DEF TimerFires, device
  <2>2. CASE pc = "monitor" /\ Current.lines = 0 /\ Success
    <3>1. ASSUME Comparable(commands), errors = <<>> PROVE FALSE
      <4>1. place.level # "except"
        BY <3>1 DEF IInv, ErrorsInv
      <4>2. Alike(Current)
        BY <1>0, <2>1, <3>1, <4>1, CurrentCounts
      <4> QED BY <2>1, <2>2, <4>2 DEF Alike, CountInv
    <3>2. consumed' \in Nat /\ consumed <= consumed' /\ pc # "done" /\ Current.type # "try"
      BY <1>0, <2>1
    <3> QED BY <2>1, <2>2, <3>1, <3>2, PaceSuccess
  <2> QED BY <2>1, <2>2, PaceFailure
<1> QED BY <1>1, <1>2, <1>3, <1>4, PaceTry, PaceReceive DEF Script

LEMMA PaceStep ==
  ASSUME IInv, PaceInv, CountInv, [Next]_vars PROVE PaceInv'
<1>0. consumed \in Nat /\ rx \in Seq(Chars) /\ Len(rx) \in Nat /\ consumed <= Len(rx)
  <2>1. rx \in Text /\ arrived \in 0 .. Len(rx) /\ consumed \in 0 .. arrived
    BY DEF IInv, DataInv
  <2>2. Len(rx) \in Nat /\ rx \in Seq(Chars)
    BY <2>1, TextIs
  <2> QED BY <2>1, <2>2
<1>1. ASSUME UNCHANGED <<commands, consumed, from, place, pc, errors>>,
             \A m \in 1 .. consumed : rx'[m] = rx[m]
      PROVE  PaceInv'
  <2>1. CASE pc = "done"
    BY <1>1, <2>1 DEF PaceInv
  <2>2. CASE pc # "done"
    <3>1. Begun' = Begun
      BY <1>1 DEF Begun
    <3> HIDE DEF Begun
    <3> QED BY <1>0, <1>1, <2>2, <3>1, PaceSame
  <2> QED BY <2>1, <2>2
<1>2. ASSUME NEW ch \in DeviceBytes, Emit(ch) PROVE PaceInv'
  <2>1. rx' = Append(rx, ch) /\ UNCHANGED <<commands, consumed, from, place, pc, errors>>
    BY <1>2 DEF Emit
  <2>2. \A m \in 1 .. consumed : rx'[m] = rx[m]
    BY <1>0, <2>1, AppendProperties, TimeAssumption
  <2> QED BY <1>1, <2>1, <2>2
<1> QED BY <1>1, <1>2, PaceScript
        DEF Next, Tick, ReadSerial, Main, ScriptReturned, ContextDone, Exit, Halted, vars, device

LEMMA CountStep ==
  ASSUME IInv, CountInv, [Next]_vars PROVE CountInv'
<1>0. DataInv /\ consumed \in Nat /\ from \in 0 .. consumed /\ rx \in Seq(Chars)
      /\ Len(rx) \in Nat /\ consumed <= Len(rx)
  <2>1. /\ DataInv /\ rx \in Text /\ arrived \in 0 .. Len(rx) /\ consumed \in 0 .. arrived
        /\ from \in 0 .. consumed
    BY DEF IInv, DataInv
  <2>2. Len(rx) \in Nat /\ rx \in Seq(Chars)
    BY <2>1, TextIs
  <2> QED BY <2>1, <2>2
<1>1. ASSUME UNCHANGED <<commands, rx, consumed, from, place, pc>> PROVE CountInv'
  BY <1>1, SamePlace DEF CountInv
<1>2. ASSUME pc' # "monitor" PROVE CountInv'
  BY <1>2 DEF CountInv
<1>3. ASSUME NEW ch \in DeviceBytes, Emit(ch) PROVE CountInv'
  <2>1. rx' = Append(rx, ch) /\ UNCHANGED <<commands, consumed, from, place, pc>>
    BY <1>3 DEF Emit
  <2>2. rx' \in Seq(Chars) /\ Len(rx') = Len(rx) + 1 /\ \A m \in 1 .. Len(rx) : rx'[m] = rx[m]
    BY <1>0, <2>1, AppendProperties, TimeAssumption
  <2>3. rx' \in Text /\ Extends(rx')
    <3>1. \A m \in 1 .. consumed : m \in 1 .. Len(rx)
      BY <1>0
    <3> QED BY <1>0, <2>2, <3>1 DEF Text, Extends
  <2>4. ASSUME NEW m \in from + 1 .. consumed
        PROVE  rx'[m] = rx[m] /\ SubSeq(rx', from + 1, m) = SubSeq(rx, from + 1, m)
    <3>1. from \in Nat /\ m \in 1 .. Len(rx)
      BY <1>0
    <3> QED BY <1>0, <2>2, <2>3, <3>1, SameReceived
  <2>5. Current' = Current
    BY <2>1, SamePlace
  <2> QED BY <2>1, <2>4, <2>5 DEF CountInv
<1>4. CASE Receive
  <2>1. /\ UNCHANGED <<commands, rx, from>> /\ consumed' = consumed + 1
        /\ (pc' = "next" \/ (UNCHANGED <<place, pc>> /\ ~(pc = "monitor" /\ Enough)))
    BY <1>4 DEF Receive, device, Success
  <2>2. CASE UNCHANGED <<place, pc>> /\ ~(pc = "monitor" /\ Enough)
    <3>1. Current' = Current
      BY <2>1, <2>2, SamePlace
    <3>2. ASSUME pc = "monitor", NEW m \in from + 1 .. consumed + 1
          PROVE  ~(rx[m] = Newline /\ Current.lines > 0 /\ Lines(SubSeq(rx, from + 1, m)) >= Current.lines)
      <4>1. CASE m = consumed + 1
        BY <2>1, <2>2, <3>2, <4>1 DEF Enough, Received
      <4>2. CASE m # consumed + 1
        <5>1. m \in from + 1 .. consumed
          BY <1>0, <4>2
        <5> QED BY <3>2, <5>1 DEF CountInv
      <4> QED BY <4>1, <4>2
    <3> QED BY <2>1, <2>2, <3>1, <3>2 DEF CountInv
  <2> QED BY <1>2, <2>1, <2>2
<1>5. CASE BeginMonitor
  <2>1. UNCHANGED <<commands, rx, consumed>> /\ Current.type = "monitor"
        /\ (Failure \/ (Current.valid /\ Wait("monitor", Current.duration)))
    BY <1>5 DEF BeginMonitor, IsNext, device
  <2>2. CASE Failure
    BY <1>2, <2>2 DEF Failure, Return
  <2>3. CASE Current.valid /\ Wait("monitor", Current.duration)
    <3>1. from' = consumed /\ UNCHANGED place
      BY <2>3 DEF Wait
    <3>2. Current' = Current
      BY <2>1, <3>1, SamePlace
    <3>3. \A m \in from' + 1 .. consumed' : FALSE
      BY <1>0, <2>1, <3>1
    <3> QED BY <2>3, <3>2, <3>3 DEF CountInv
  <2> QED BY <2>1, <2>2, <2>3
<1>6. CASE BeginTry \/ EndAttempt \/ EndExcept \/ EndScript \/ HandleSend \/ BeginExpect \/ TimerFires
  <2>1. pc' # "monitor"
    BY <1>6 DEF BeginTry, EndAttempt, EndExcept, EndScript, HandleSend, BeginExpect, TimerFires,
                IsNext, Success, Failure, Return, Wait
  <2> QED BY <1>2, <2>1
<1> QED BY <1>1, <1>3, <1>4, <1>5, <1>6
        DEF Script, Next, Tick, ReadSerial, Main, ScriptReturned, ContextDone, Exit, Halted, vars, device

------------------------------------------------------------------------------
(***************************************************************************)
(* Theorems.                                                               *)
(***************************************************************************)

\* Whatever the device sends after what has been consumed: if the dry run of it finds
\* everything, then the real run, without an error, is at each command before the line at
\* which the dry run is there.
THEOREM PaceInvariance == Spec => [](IInv /\ CountInv /\ PaceInv)
<1>1. Init => CountInv /\ PaceInv
  <2> SUFFICES ASSUME Init PROVE CountInv /\ PaceInv
    OBVIOUS
  <2>1. CountInv
    BY DEF Init, CountInv
  <2>2. Begun = 0 /\ commands \in Programs
    BY DEF Init, Begun
  <2>3. ASSUME NEW text \in Text PROVE DryAt(place, text).line = 0
    <3>1. ExecuteDryRun(commands, text)[0] = Started
      BY <2>2, CommandsAreFinite, ExecuteSteps
    <3>2. DryAt(place, text) = ExecuteDryRun(commands, text)[0]
      BY DEF Init, At, DryAt
    <3> QED BY <3>1, <3>2 DEF Started
  <2> HIDE DEF Begun
  <2> QED BY <2>1, <2>2, <2>3 DEF PaceInv
<1>2. IInv /\ CountInv /\ PaceInv /\ [Next]_vars => CountInv' /\ PaceInv'
  BY CountStep, PaceStep
<1> QED BY <1>1, <1>2, ScriptInvariance, PTL DEF Spec

\* DryRunIsKept: when executeDryRun finds every pattern of the program in the lines of a
\* file, as they are, and all of them are in ASCII, a device that has sent those bytes does
\* not leave executeScript, which sees a string of each byte, waiting for one of them.
THEOREM DryRunKeepsItsPromise == Spec => []DryRunIsKept
<1>1. IInv /\ CountInv /\ PaceInv => DryRunIsKept
  <2> DEFINE dry == ExecuteDryRun(commands, rx)[Len(commands)]
      p == Current.pattern
      i == DryAt(place, rx).line
      s == Min(Hits(p, rx, i))
      e == EndOf(rx, s)
  <2> SUFFICES ASSUME IInv, PaceInv, pc = "expect", consumed = Len(rx), errors = <<>>,
                      Comparable(commands), dry.ok, dry.found
               PROVE  DryMatches(p, <<>>)
    BY DEF DryRunIsKept
  <2>1. /\ ControlInv /\ ~AtEnd /\ Current.type = "expect" /\ place.level # "except"
        /\ rx \in Text /\ Len(rx) \in Nat /\ from \in 0 .. Len(rx) /\ Begun = from
    <3>1. ControlInv /\ ~AtEnd /\ Current.type = "expect" /\ place.level # "except" /\ rx \in Text
          /\ from \in 0 .. Len(rx) /\ Begun = from
      BY DEF IInv, ControlInv, ErrorsInv, DataInv, Begun
    <3> QED BY <3>1, TextIs
  <2>2. Extends(rx) /\ Promised(rx)
    BY <2>1 DEF Extends, Promised, Good
  <2>3. DryAt(place, rx) \in Progress
    BY <2>1, DryBefore
  <2>4. i \in Nat /\ from <= i
    BY <2>1, <2>2, <2>3 DEF PaceInv, Progress
  <2>5. Advances(Current, rx, i, DryAt(Following, rx).line)
    BY <2>1, <2>2, DryFollowing
  <2>6. p \in Parsed /\ p # BadPattern /\ Hits(p, rx, i) # {}
    BY <2>1, <2>5, CurrentCounts DEF Advances
  <2> HIDE DEF dry, p, i
  <2>7. /\ s \in LineNames(rx) /\ s \in 0 .. Len(rx) /\ i <= s /\ DryMatches(p, Line(rx, s))
    BY <2>1, <2>4, <2>6, HitsAre
  <2> HIDE DEF s
  <2>8. e \in s + 1 .. Len(rx) + 1
    <3>1. s \in Nat /\ s <= Len(rx)
      BY <2>1, <2>7
    <3> QED BY <2>1, <3>1, EndOfLine
  <2>9. Matches(p, SubSeq(rx, from + 1, e - 1))
    <3>1. from \in 0 .. s
      BY <2>1, <2>4, <2>7
    <3> QED BY <2>1, <2>6, <2>7, <3>1, MatchesAtTheEnd
  <2>10. \A n \in from + 1 .. Len(rx) : ~Matches(p, SubSeq(rx, from + 1, n))
    <3>1. Plain(Current.pattern.text)
      BY <2>1, CurrentCounts DEF Alike
    <3> QED BY <3>1 DEF IInv, NothingMissed, p
  <2>11. Line(rx, s) = SubSeq(rx, s + 1, e - 1)
    BY DEF Line
  <2> HIDE DEF e
  <2>12. e - 1 = s
    BY <2>1, <2>4, <2>7, <2>8, <2>9, <2>10
  <2>13. Line(rx, s) = <<>>
    BY <2>7, <2>11, <2>12, SubSeqEmpty
  <2> QED BY <2>7, <2>13 DEF p
<1> QED BY <1>1, PaceInvariance, PTL

==============================================================================
