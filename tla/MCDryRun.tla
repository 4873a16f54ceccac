------------------------------- MODULE MCDryRun -------------------------------
(* Programs of expects, in a row and in tries, for real and dry runs. *)
EXTENDS DryRun

MCNewline == "nl"
MCBlank == "sp"
MCLower == [ch \in Chars |-> IF ch = "A" THEN "a" ELSE ch]
\* The UTF-8 of the characters U+0082, U+0083, U+00C2 and U+00C3.
MCWide == {"82", "83", "C2", "C3"}
MCEncoding ==
  ("82" :> <<"C2", "82">>) @@ ("83" :> <<"C2", "83">>)
    @@ ("C2" :> <<"C3", "82">>) @@ ("C3" :> <<"C3", "83">>)

MCPatterns ==
  {Anywhere(<<"a">>), Anywhere(<<"a", "b">>), LineStart(<<"a">>), LineStart(<<"b", "sp">>),
   Regex(<<"a">>, TRUE, TRUE), Regex(<<"b">>, FALSE, TRUE),
   Regex(<<>>, TRUE, TRUE)}

MCPrograms ==
  {<<Expect(p), Send, Expect(q)>> : p, q \in MCPatterns}
    \cup {<<Try(<<Expect(p)>>, <<>>, FALSE), Expect(q)>> : p, q \in MCPatterns}
    \cup {<<MonitorLines(1), Expect(p)>> : p \in MCPatterns}
    \cup {<<Expect(Anywhere(<<"C3", "82">>)), Expect(Anywhere(<<"a">>))>>}

==============================================================================
