---------------------------- MODULE MCTaskRunner ----------------------------
(***************************************************************************)
(* Small instances of TaskRunner: one change c1.                           *)
(***************************************************************************)
EXTENDS TaskRunner, TLC

CONSTANTS a1, a2, b1, b2, c1

FourTasks == {a1, a2, b1, b2}
TwoTasks == {a1, a2}
FourInOne == [t \in FourTasks |-> c1]
TwoInOne == [t \in TwoTasks |-> c1]
FourRank == a1 :> 1 @@ a2 :> 2 @@ b1 :> 3 @@ b2 :> 4
TwoRank == a1 :> 1 @@ a2 :> 2

\* Two pairs of a task and one that waits for it: the first pair in one lane, the
\* second, like the stop and the start of a restart, with a waiter that is also in
\* a lane of its own
SharedWait == a1 :> {} @@ a2 :> {a1} @@ b1 :> {} @@ b2 :> {b1}
SharedLanes == a1 :> <<1>> @@ a2 :> <<1>> @@ b1 :> <<2>> @@ b2 :> <<2, 3>>

\* A build task and the run task that waits for it, in lane 0 (buildteststate)
BuildWait == a1 :> {} @@ a2 :> {a1}
BuildLanes == [t \in TwoTasks |-> <<0>>]
=============================================================================
