------------------------------- MODULE Patterns -------------------------------
(***************************************************************************)
(* The patterns of serial_expect's expect command: what parseExpectPattern *)
(* makes of them, and when checkMatch and checkDryRunMatch accept a text.  *)
(* A text is a sequence of bytes, as a string is in Go.                    *)
(***************************************************************************)
EXTENDS Integers, Sequences, SequencesExt

CONSTANTS
  Chars,     \* the alphabet: the bytes of texts and patterns
  Newline,   \* "\n"
  Blank,     \* what strings.TrimSpace removes, but for Newline
  Lower,     \* strings.ToLower, character by character
  Wide,      \* the bytes from 0x80 on: those of the characters beyond ASCII
  Encoding   \* the two bytes of the character that has a wide byte's number

\* Left out: the characters beyond ASCII that TrimSpace removes (U+0085, U+00A0, ...) and
\* those that ToLower makes ASCII letters (U+0130, U+212A).
ASSUME AlphabetAssumption ==
  /\ Newline \in Chars /\ Newline # Blank /\ Lower \in [Chars -> Chars]
  /\ Wide \subseteq Chars \ {Newline, Blank} /\ Encoding \in [Wide -> Wide \X Wide]
  /\ \A ch \in Chars : Lower[ch] \in Wide <=> ch \in Wide

Text == Seq(Chars)

\* 'text', "text", /text/ with the anchors ^ and $, and what fails to parse.
Anywhere(text) == [kind |-> "anywhere", text |-> text, first |-> FALSE, last |-> FALSE]
LineStart(text) == [kind |-> "lineStart", text |-> text, first |-> FALSE, last |-> FALSE]
Regex(text, first, last) == [kind |-> "regex", text |-> text, first |-> first, last |-> last]
BadPattern == [kind |-> "invalid", text |-> <<>>, first |-> FALSE, last |-> FALSE]
Parsed == [kind: {"anywhere", "lineStart", "regex"}, text: Text,
           first: BOOLEAN, last: BOOLEAN] \cup {BadPattern}

\* A text in ASCII.
Plain(text) == \A i \in DOMAIN text : text[i] \notin Wide

\* string(char): the string of the character that has the number of the byte.
AsString(byte) == IF byte \in Wide THEN Encoding[byte] ELSE <<byte>>

\* The strings that readSerial makes of the bytes of a text, one after the other.
Converted(text) == FlattenSeq([i \in DOMAIN text |-> AsString(text[i])])

\* The places at which p occurs in s, each named by the bytes before it.
Occurrences(p, s) == {i \in 0..Len(s) - Len(p) : SubSeq(s, i + 1, i + Len(p)) = p}

Folded(s) == [i \in DOMAIN s |-> Lower[s[i]]]

\* strings.TrimSpace.
Trim(s) ==
  LET solid == {i \in DOMAIN s : s[i] \notin {Blank, Newline}}
  IN  IF solid = {} THEN <<>> ELSE SubSeq(s, Min(solid), Max(solid))

\* What follows the last newline of s.
CurrentLine(s) == SubSeq(s, SelectLastInSeq(s, LAMBDA ch : ch = Newline) + 1, Len(s))

RegexMatches(p, line) ==
  \E i \in Occurrences(p.text, line) :
    (p.first => i = 0) /\ (p.last => i + Len(p.text) = Len(line))

\* checkMatch, of the strings received since the expect began.
Matches(p, text) ==
  CASE p.kind = "anywhere"  -> Occurrences(Folded(p.text), Folded(text)) # {}
    [] p.kind = "lineStart" -> IsPrefix(p.text, Trim(CurrentLine(text)))
    [] p.kind = "regex"     -> RegexMatches(p, CurrentLine(text))

\* checkDryRunMatch, of a whole line.
DryMatches(p, line) ==
  CASE p.kind = "anywhere"  -> Occurrences(Folded(p.text), Folded(line)) # {}
    [] p.kind = "lineStart" -> IsPrefix(p.text, Trim(line))
    [] p.kind = "regex"     -> RegexMatches(p, line)

==============================================================================
