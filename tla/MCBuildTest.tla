----------------------------- MODULE MCBuildTest -----------------------------
(***************************************************************************)
(* Small instances of BuildTest: the ways in which the command line and    *)
(* the Go client ask for a build-test.                                     *)
(***************************************************************************)
EXTENDS BuildTest, TLC

Ask(interactive, writers, timeout) ==
  [interactive |-> interactive, terminal |-> interactive, stdout |-> writers,
   stderr |-> writers, timeout |-> timeout]

\* build-test with and without streaming, with and without a timeout
Batch == {Ask(FALSE, writers, timeout) : writers, timeout \in BOOLEAN}

\* build-test --debug
Debug == {Ask(TRUE, TRUE, FALSE)}

AllOptions == Batch \cup Debug
=============================================================================
