------------------------------- MODULE MCExec -------------------------------
(* One exec on small instances: at most two chunks of output for a stream,  *)
(* two pids, and scenes that each give the environment some freedom.        *)
EXTENDS Exec

Plain ==
  [terminal |-> FALSE, split |-> FALSE, timeout |-> FALSE, back |-> FALSE, aborts |-> FALSE,
   crashes |-> FALSE, signals |-> FALSE, leaves |-> FALSE, others |-> {}, out |-> 1]

\* The streams, with a timeout or a signal.
Outputs ==
  { [Plain EXCEPT !.terminal = t, !.split = ~t, !.timeout = d, !.signals = ~d, !.out = 1] :
      t \in BOOLEAN, d \in BOOLEAN }
  \cup { [Plain EXCEPT !.terminal = TRUE, !.split = TRUE] }

\* What may end the exec early: an abort, a crash, a client that leaves.
Ends ==
  { [Plain EXCEPT !.terminal = t, !.aborts = a, !.leaves = ~a, !.crashes = a] :
      t \in BOOLEAN, a \in BOOLEAN }

\* A process in the background that holds the output open.
Backgrounds == { [Plain EXCEPT !.terminal = t, !.back = TRUE] : t \in BOOLEAN }

\* The reaper has another command to wait for, whose pid may be the same.
Shared == { [Plain EXCEPT !.others = {"other"}, !.out = 0] }

\* A terminal whose client leaves while there is output.
PanicScenes == { [Plain EXCEPT !.terminal = TRUE, !.leaves = TRUE, !.out = 2] }

MCCmds == {"the", "other"}
MCPids == {1, 2}
MCScenes == Outputs \cup Ends \cup Backgrounds \cup Shared
=============================================================================
