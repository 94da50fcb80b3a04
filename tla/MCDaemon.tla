------------------------------ MODULE MCDaemon ------------------------------
(* The daemon on small instances: one connection, three changes, a clock of *)
(* a few ticks, and scenes that each give the environment some freedom.     *)
EXTENDS Daemon

Old(level, old, new) == Whole([Blank EXCEPT !.level = level, !.legacy = old, !.idents = new])

Quiet ==
  [file |-> Missing, persist |-> TRUE, crashes |-> 0, cuts |-> 0, trouble |-> 0,
   asks |-> {}, waits |-> 0, signals |-> 0, requests |-> 0, standby |-> FALSE,
   services |-> FALSE, hold |-> TRUE, defaults |-> TRUE,
   enter |-> "no", fails |-> FALSE, starts |-> 1]

\* A file of an older, the same or a later program, and faults at any moment.
Upgrades ==
  { [Quiet EXCEPT !.file = f, !.crashes = 1, !.cuts = 1 - n, !.trouble = n,
                  !.requests = n, !.starts = 3 - n] :
      n \in {0, 1},
      f \in {Missing, Old(0, TRUE, FALSE), Old(1, TRUE, TRUE), Old(2, FALSE, TRUE),
             Old(3, FALSE, FALSE), Whole([Blank EXCEPT !.level = 2, !.sub = 1])} }

\* A reboot that is asked for and may or may not come.
Reboots ==
  { [Quiet EXCEPT !.file = Old(2, FALSE, FALSE), !.asks = {"system"}, !.crashes = 1,
                  !.signals = n, !.starts = 5] : n \in {0, 1} }

\* Against the shutdown, on a state in memory: two restarts and a signal with
\* services to stop; a request and the standby; a request and a restart; passes
\* that are asked for with a delay; a start or a server that fails;
\* and the command "enter".
InMemory == [Quiet EXCEPT !.persist = FALSE]
Shutdowns ==
  { [InMemory EXCEPT !.asks = {"service-failure", "check-failure"}, !.signals = 1,
                     !.services = TRUE],
    [InMemory EXCEPT !.requests = 1, !.standby = TRUE, !.hold = FALSE],
    [InMemory EXCEPT !.requests = 1, !.asks = {"service-failure"}],
    [InMemory EXCEPT !.requests = 1, !.waits = 2, !.asks = {"daemon"}],
    [InMemory EXCEPT !.fails = TRUE, !.asks = {"unknown"}, !.services = TRUE, !.hold = FALSE],
    [InMemory EXCEPT !.hold = FALSE, !.defaults = FALSE, !.enter = "exec", !.signals = 1],
    [InMemory EXCEPT !.hold = FALSE, !.enter = "exec", !.asks = {"check-failure"}],
    [InMemory EXCEPT !.enter = "start", !.signals = 1] }

MCScenes == Upgrades \cup Reboots \cup Shutdowns
=============================================================================
