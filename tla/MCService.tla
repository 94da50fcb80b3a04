----------------------------- MODULE MCService -----------------------------
(***************************************************************************)
(* Small instances of Service.                                             *)
(***************************************************************************)
EXTENDS Service, TLC

CONSTANTS s1, s2, h1

Starts == {s1, s2}
Stops == {h1}
Interchangeable == Permutations(Starts)
=============================================================================
