---------------------------- MODULE MCSerialExpect ----------------------------
(* Small programs for serial_expect, and a small alphabet. *)
EXTENDS SerialExpect

MCNewline == "nl"
MCBlank == "sp"
MCLower == [ch \in Chars |-> IF ch = "A" THEN "a" ELSE ch]
\* The UTF-8 of the characters U+0082, U+0083, U+00C2 and U+00C3.
MCWide == {"82", "83", "C2", "C3"}
MCEncoding ==
  ("82" :> <<"C2", "82">>) @@ ("83" :> <<"C2", "83">>)
    @@ ("C2" :> <<"C3", "82">>) @@ ("C3" :> <<"C3", "83">>)

A == Expect(Anywhere(<<"a">>))
B == Expect(LineStart(<<"b">>))
AB == Expect(Regex(<<"a", "b">>, TRUE, FALSE))
Circumflex == Expect(Anywhere(<<"C3", "82">>))

\* Log in as the examples in configs/ do.
LoginPrograms == {<<Send, A, Send, B, Send>>, <<A, AB, Send>>, <<Circumflex, A, Send>>}

\* Try blocks, with and without a second attempt and an except script.
TryPrograms ==
  {<<Try(<<Send, A, Send>>, <<Send, B>>, TRUE), Send>>,
   <<Try(<<Send, A, B>>, <<>>, FALSE), Send>>,
   <<A, Try(<<Send, Expect(BadPattern)>>, Broken, TRUE)>>,
   <<Try(Broken, <<>>, FALSE)>>}

MonitorPrograms ==
  {<<Send, MonitorLines(2), A>>, <<MonitorFor(1), MonitorLines(-1)>>, <<BadMonitor>>,
   <<Try(<<MonitorLines(1)>>, <<MonitorFor(2)>>, FALSE), MonitorFor(Day)>>}

AnyPrograms == LoginPrograms \cup TryPrograms \cup MonitorPrograms

==============================================================================
