---------------------------- MODULE MCLogForward ----------------------------
(***************************************************************************)
(* Small instances of LogForward: lines of a stamp, a text and an end, in  *)
(* a ring that holds little more than one of them.                         *)
(***************************************************************************)
EXTENDS LogForward

Writable == {<<"text">>, <<"text", "end">>}
Readers == {"puller", "request"}
Cells == {Stamp(k) : k \in 1 .. MaxBytes} \cup {Text(k) : k \in 1 .. MaxBytes}
           \cup {End(k) : k \in 0 .. MaxBytes}
GapText == <<"gap", 0>>
Counts == {1, 0, -1}
Ends == {End(k) : k \in 0 .. MaxBytes}
=============================================================================
