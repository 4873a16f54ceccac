--------------------------- MODULE MCMqttListener ---------------------------
(***************************************************************************)
(* A command, a configuration that has a command named status as well, and *)
(* requests for the status, for the command, and for one that is missing.  *)
(***************************************************************************)
EXTENDS MqttListener

MCCommandSets == {{<<"ping">>}, {<<"ping">>, <<"status">>}}
MCRequests == {Base, <<"ping">>, <<"typo">>}

=============================================================================
