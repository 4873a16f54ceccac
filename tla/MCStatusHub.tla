----------------------------- MODULE MCStatusHub -----------------------------
(* Small instances of StatusHub for TLC. *)
EXTENDS StatusHub, TLC

\* Connections are interchangeable: no property and no action tells them apart.
ConnSymmetry == Permutations(Conns)

==============================================================================
