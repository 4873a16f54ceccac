--------------------------- MODULE MCCommandOutput ---------------------------
(***************************************************************************)
(* Three commands with outputs of different sizes, of which two fit.       *)
(***************************************************************************)
EXTENDS CommandOutput, TLC

MCSize == "a" :> 1 @@ "b" :> 2 @@ "c" :> 4

==============================================================================
