---------------------------- MODULE MCScriptConfig ----------------------------
(* All small configurations: up to two scripts and two try blocks. *)
EXTENDS ScriptConfig

MCDefaultNames == <<"script1", "script2">>
UpTo(S, n) == UNION {[1..k -> S] : k \in 0..n}
Tries ==
  [name: {"a", "b", NoName}, script: {"a", "b", "script1"}, except: {"b", "c", NoName}]
MCConfigs ==
  [scripts: UpTo({"a", "b", NoName}, 2), tries: UpTo(Tries, 2)]
MCArguments == {<<>>, <<"a">>, <<"b", "a">>}

==============================================================================
