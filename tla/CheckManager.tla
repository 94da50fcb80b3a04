---------------------------- MODULE CheckManager ----------------------------
(***************************************************************************)
(* One health check in the check manager (checkstate): the perform-check   *)
(* change that runs it while it is up, the recover-check change that runs  *)
(* it while it is down, each creating the other, and the data that the     *)
(* manager shows of it.  Checks do not interact, so one is enough.         *)
(*                                                                         *)
(* A section of the code that holds the state lock is one action; a        *)
(* handler takes it, and the lock of the check data, several times and is  *)
(* one action per section.  A change of this manager has one task, without *)
(* lanes, dependencies or undo handler: what the task engine does with it  *)
(* is TaskRunner restricted to such a task.  The number of successes, the  *)
(* previous change ID and the metrics are only shown and are left out.     *)
(***************************************************************************)
EXTENDS Integers, Sequences

CONSTANTS
  Config,       \* the configurations that the plan may have for the check
  Enabled,      \* those with startup enabled, or none given
  NoCheck,      \* the check is not in the plan
  OnDisk,       \* what the layers directory holds for it
  NoData,       \* the manager has no data of the check
  Threshold,    \* the failures that take the check down
  MaxFailures,  \* bound: how many times the check fails
  MaxEvents     \* bound: how many times the plan is updated, checks are started,
                \* replanned or stopped, and the daemon is restarted, in total

ASSUME CheckAssumption ==
  /\ Enabled \subseteq Config
  /\ NoCheck \notin Config
  /\ OnDisk \in Config \cup {NoCheck}
  /\ Threshold \in Nat \ {0}
  /\ MaxFailures \in Nat
  /\ MaxEvents \in Nat

VARIABLES
  change,     \* the changes of the check, oldest first
  checks,     \* the checkData of the check, or NoData
  plan,       \* what the plan manager has for the check
  announced,  \* whether PlanChanged was called for that plan
  request,    \* the configuration a start-checks request has read, or NoCheck
  stopping,   \* whether the task runner is being stopped
  panicked,   \* whether an internal error made the daemon panic
  wish,       \* the last start or stop of the user since the daemon started
  failed, events   \* counters for the bounds

boundVars == <<failed, events>>
vars == <<change, checks, plan, announced, request, stopping, panicked,
          wish, boundVars>>

Status == {"Do", "Doing", "Abort", "Undo", "Hold", "Done", "Error"}
IsReady(s) == s \in {"Hold", "Done", "Error"}

\* Where the goroutine of a handler is; "none" if it has not started or is over.
Point == {"none", "begin", "waiting", "failed", "succeeded", "below", "store",
          "threshold", "return", "return error"}

(***************************************************************************)
(* A change with its task.  details is checkDetails as saved with the task *)
(* and mine the handler's own copy of it; cached says whether the state    *)
(* cache has the configuration; handled counts the calls of the failure    *)
(* handlers.                                                               *)
(***************************************************************************)
Details == [failures: Nat, proceed: BOOLEAN]
CheckChange ==
  [kind: {"perform", "recover"}, config: Config, status: Status, cached: BOOLEAN,
   details: Details, mine: Details, pc: Point, dying: BOOLEAN, handled: Nat]

CheckData ==
  [changeID: Nat, status: {"", "up", "down", "inactive"}, failures: Nat]

TypeOK ==
  /\ change \in Seq(CheckChange)
  /\ checks \in CheckData \cup {NoData}
  /\ plan \in Config \cup {NoCheck}
  /\ announced \in BOOLEAN
  /\ request \in Config \cup {NoCheck}
  /\ stopping \in BOOLEAN
  /\ panicked \in BOOLEAN
  /\ wish \in {"none", "start", "stop"}
  /\ failed \in 0..MaxFailures
  /\ events \in 0..MaxEvents

\* One of the events that MaxEvents bounds.
Event == events < MaxEvents /\ events' = events + 1

ID == DOMAIN change

-----------------------------------------------------------------------------
(***************************************************************************)
(* performCheckChange and recoverCheckChange add a change whose            *)
(* configuration is cached.                                                *)
(***************************************************************************)
NewDetails(failures) == [failures |-> failures, proceed |-> FALSE]

NewChange(kind, config, failures) ==
  [kind |-> kind, config |-> config, status |-> "Do", cached |-> TRUE,
   details |-> NewDetails(failures), mine |-> NewDetails(0),
   pc |-> "none", dying |-> FALSE, handled |-> 0]

(***************************************************************************)
(* updateCheckData; ensureCheck makes an entry that is otherwise empty.    *)
(***************************************************************************)
CheckStatus(changeID, failures) ==
  IF changeID = 0 THEN "inactive" ELSE IF failures >= Threshold THEN "down" ELSE "up"

UpdatedData(changeID, failures) ==
  [changeID |-> changeID, status |-> CheckStatus(changeID, failures),
   failures |-> failures]

EnsuredCheck ==
  IF checks = NoData
  THEN [changeID |-> 0, status |-> "", failures |-> 0]
  ELSE checks

(***************************************************************************)
(* Change.Abort: a task to do is held, one that runs is to stop, and one   *)
(* that is done is to be undone, which panics because the change was ready *)
(* (Change.detectChangeReady).                                             *)
(***************************************************************************)
AbortedStatus(s) ==
  CASE s = "Do" -> "Hold"
    [] s = "Doing" -> "Abort"
    [] s = "Done" -> "Undo"
    [] OTHER -> s

Aborted(c) == [c EXCEPT !.status = AbortedStatus(c.status)]

(***************************************************************************)
(* changeStatusChanged, called with the state lock when change i takes     *)
(* status s: a perform-check in error is followed by a recover-check, and  *)
(* a recover-check that is done by a perform-check, if the handler asked   *)
(* to proceed.  The configuration must still be cached.                    *)
(***************************************************************************)
Follows(i, s) ==
  /\ \/ change[i].kind = "perform" /\ s = "Error"
     \/ change[i].kind = "recover" /\ s = "Done"
  /\ change[i].details.proceed

Successor(i) ==
  IF change[i].kind = "perform"
  THEN NewChange("recover", change[i].config, change[i].details.failures)
  ELSE NewChange("perform", change[i].config, 0)

SetStatus(i, s, c) ==
  LET follows == Follows(i, s) /\ change[i].cached
      updated == [change EXCEPT ![i] = [c EXCEPT !.status = s]]
  IN /\ change' = IF follows THEN Append(updated, Successor(i)) ELSE updated
     /\ checks' = IF follows
                  THEN UpdatedData(Len(change) + 1, change[i].details.failures)
                  ELSE checks
     /\ panicked' = (Follows(i, s) /\ ~change[i].cached)

-----------------------------------------------------------------------------
(***************************************************************************)
(* PlanChanged(new).  Unready changes that this process did not make are   *)
(* aborted; so are those whose configuration the new plan changed, except  *)
(* that a check whose startup went from enabled to disabled is left alone. *)
(* The check is started if it was modified, or if it is enabled and has no *)
(* unready change.                                                         *)
(***************************************************************************)
Existing(c) == ~IsReady(c.status) /\ c.cached
Kept(c, new) ==
  \/ new = c.config
  \/ new \in Config \ Enabled /\ c.config \in Enabled
Modified(cs, new) == \E i \in DOMAIN cs : Existing(cs[i]) /\ ~Kept(cs[i], new)
Known(cs) == \E i \in DOMAIN cs : Existing(cs[i])

\* Mutant: a check that no change runs is not started.
StartsModified(cs, new) == new # NoCheck /\ Modified(cs, new)

StartsNow(cs, new) ==
  \/ new # NoCheck /\ Modified(cs, new)
  \/ new \in Enabled /\ ~Known(cs)

ChangesAfter(cs, new) ==
  LET ended == [i \in DOMAIN cs |->
        IF IsReady(cs[i].status) \/ (cs[i].cached /\ Kept(cs[i], new))
        THEN cs[i] ELSE Aborted(cs[i])]
  IN IF StartsNow(cs, new) THEN Append(ended, NewChange("perform", new, 0)) ELSE ended

DataAfter(cs, data, new) ==
  CASE StartsNow(cs, new) -> UpdatedData(Len(cs) + 1, 0)
    [] new \in Config \ Enabled /\ ~Known(cs) -> UpdatedData(0, 0)
    [] new = NoCheck /\ Modified(cs, new) -> NoData
    [] OTHER -> data

\* NewManager, and the first PlanChanged when the plan is loaded.
Init ==
  /\ change = ChangesAfter(<<>>, OnDisk)
  /\ checks = DataAfter(<<>>, NoData, OnDisk)
  /\ plan = OnDisk
  /\ announced = TRUE
  /\ request = NoCheck
  /\ stopping = FALSE
  /\ panicked = FALSE
  /\ wish = "none"
  /\ failed = 0
  /\ events = 0

\* The daemon answers requests: Daemon.Stop shuts the server down, and waits for
\* the requests being served, before it stops the task runner.
Serving == ~panicked /\ ~stopping

(***************************************************************************)
(* The plan manager updates the plan and, once it has released its lock,   *)
(* calls PlanChanged.  One update is made at a time.  A layer can add the  *)
(* check or change it, never remove it.                                    *)
(***************************************************************************)
UpdatePlan(new) ==
  /\ Serving
  /\ announced
  /\ Event
  /\ plan' = new
  /\ announced' = FALSE
  /\ UNCHANGED <<change, checks, request, stopping, panicked, wish, failed>>

PlanChanged ==
  /\ Serving
  /\ ~announced
  /\ announced' = TRUE
  /\ change' = ChangesAfter(change, plan)
  /\ checks' = DataAfter(change, checks, plan)
  /\ UNCHANGED <<plan, request, stopping, panicked, wish, boundVars>>

-----------------------------------------------------------------------------
(***************************************************************************)
(* The task engine.  An Ensure pass starts a task to do, kills the tomb of *)
(* an aborted one, holds an aborted one that does not run and finishes one *)
(* to undo; the cleanup of a ready one drops its configuration.            *)
(***************************************************************************)
Ensuring == ~panicked /\ ~stopping
Only(i, c) == change' = [change EXCEPT ![i] = c]

EnsureRun(i) ==
  /\ Ensuring
  /\ change[i].status = "Do"
  /\ Only(i, [change[i] EXCEPT !.status = "Doing", !.pc = "begin",
                               !.mine = change[i].details])
  /\ panicked' = ~change[i].cached
  /\ UNCHANGED <<checks, plan, announced, request, stopping, wish, boundVars>>

EnsureKill(i) ==
  /\ Ensuring
  /\ change[i].status = "Abort"
  /\ change[i].pc # "none"
  /\ Only(i, [change[i] EXCEPT !.dying = TRUE])
  /\ UNCHANGED <<checks, plan, announced, request, stopping, panicked, wish,
                 boundVars>>

EnsureTryUndo(i) ==
  /\ Ensuring
  /\ change[i].status = "Abort"
  /\ change[i].pc = "none"
  /\ SetStatus(i, "Hold", change[i])
  /\ UNCHANGED <<plan, announced, request, stopping, wish, boundVars>>

EnsureCannotUndo(i) ==
  /\ Ensuring
  /\ change[i].status = "Undo"
  /\ SetStatus(i, "Done", change[i])
  /\ UNCHANGED <<plan, announced, request, stopping, wish, boundVars>>

Cleanup(i) ==
  /\ Ensuring
  /\ IsReady(change[i].status)
  /\ change[i].cached
  /\ Only(i, [change[i] EXCEPT !.cached = FALSE])
  /\ UNCHANGED <<checks, plan, announced, request, stopping, panicked, wish,
                 boundVars>>

(***************************************************************************)
(* The runner applies the result of a handler (TaskRunner.run).  While it  *)
(* stops, an error is taken for a Retry: an aborted task is held and any   *)
(* other is left as it is.                                                 *)
(***************************************************************************)
Retried(s) == IF s = "Abort" THEN "Hold" ELSE s

HandlerReturns(i) ==
  LET c == [change[i] EXCEPT !.pc = "none", !.dying = FALSE, !.mine = NewDetails(0)]
  IN /\ ~panicked
     /\ \/ /\ change[i].pc = "return error"
           /\ SetStatus(i, IF stopping THEN Retried(c.status) ELSE "Error", c)
        \/ /\ change[i].pc = "return"
           /\ SetStatus(i, IF change[i].status = "Abort" THEN "Undo" ELSE "Done", c)
     /\ UNCHANGED <<plan, announced, request, stopping, wish, boundVars>>

-----------------------------------------------------------------------------
(***************************************************************************)
(* doPerformCheck and doRecoverCheck.  The handler makes sure that the     *)
(* check has data, then waits for the next period.                         *)
(***************************************************************************)
At(i, point) == ~panicked /\ change[i].pc = point
Goes(i, point) == Only(i, [change[i] EXCEPT !.pc = point])
EnsureCheck == checks' = EnsuredCheck

Begin(i) ==
  /\ At(i, "begin")
  /\ EnsureCheck
  /\ Goes(i, "waiting")
  /\ UNCHANGED <<plan, announced, request, stopping, panicked, wish, boundVars>>

Dying(i) ==
  /\ At(i, "waiting")
  /\ change[i].dying
  /\ Goes(i, "return")
  /\ UNCHANGED <<checks, plan, announced, request, stopping, panicked, wish,
                 boundVars>>

(***************************************************************************)
(* The check ran, the tomb is alive and a metric is counted, which needs   *)
(* the check's data.  The handler then updates its copy of the details.    *)
(***************************************************************************)
CheckFails(i) ==
  /\ At(i, "waiting")
  /\ ~change[i].dying
  /\ failed < MaxFailures
  /\ failed' = failed + 1
  /\ EnsureCheck
  /\ Only(i, [change[i] EXCEPT !.pc = "failed", !.mine.failures = @ + 1])
  /\ UNCHANGED <<plan, announced, request, stopping, panicked, wish, events>>

CheckSucceeds(i) ==
  /\ At(i, "waiting")
  /\ ~change[i].dying
  /\ EnsureCheck
  /\ Only(i, [change[i] EXCEPT
               !.pc = "succeeded",
               !.mine = [failures |-> 0, proceed |-> change[i].kind = "recover"]])
  /\ UNCHANGED <<plan, announced, request, stopping, panicked, wish, boundVars>>

(***************************************************************************)
(* A perform-check saves its details and, at the threshold, asks to        *)
(* proceed, calls the failure handlers and returns the error; below it, it *)
(* updates the check data without the state lock.                          *)
(***************************************************************************)
AtThreshold(failures) == failures >= Threshold

RecordFailure(i) ==
  LET mine == [change[i].mine EXCEPT !.proceed = AtThreshold(change[i].mine.failures)]
  IN /\ At(i, "failed")
     /\ change[i].kind = "perform"
     /\ Only(i, [change[i] EXCEPT
                  !.mine = mine,
                  !.details = mine,
                  !.pc = IF mine.proceed THEN "threshold" ELSE "below"])
     /\ UNCHANGED <<checks, plan, announced, request, stopping, panicked, wish,
                    boundVars>>

\* Mutant: the failure handlers are not called for a check being stopped.
CallFailureHandlersAlive(i) ==
  /\ At(i, "threshold")
  /\ Only(i, [change[i] EXCEPT !.pc = "return error",
                               !.handled = IF change[i].dying THEN @ ELSE @ + 1])
  /\ UNCHANGED <<checks, plan, announced, request, stopping, panicked, wish,
                 boundVars>>

CallFailureHandlers(i) ==
  /\ At(i, "threshold")
  /\ Only(i, [change[i] EXCEPT !.pc = "return error", !.handled = @ + 1])
  /\ UNCHANGED <<checks, plan, announced, request, stopping, panicked, wish,
                 boundVars>>

(***************************************************************************)
(* updateCheckData of a handler: after a failure below the threshold, a    *)
(* success of a perform-check and a failure of a recover-check.            *)
(***************************************************************************)
Updates(i) ==
  \/ At(i, "below")
  \/ At(i, "succeeded") /\ change[i].kind = "perform"
  \/ At(i, "failed") /\ change[i].kind = "recover"

\* Mutant: a success leaves the data as it is.
UpdateCheckDataFailed(i) ==
  /\ Updates(i)
  /\ checks' = IF change[i].mine.failures = 0 THEN checks
               ELSE UpdatedData(i, change[i].mine.failures)
  /\ Goes(i, IF change[i].pc = "below" THEN "waiting" ELSE "store")
  /\ UNCHANGED <<plan, announced, request, stopping, panicked, wish, boundVars>>

UpdateCheckData(i) ==
  /\ Updates(i)
  /\ checks' = UpdatedData(i, change[i].mine.failures)
  /\ Goes(i, IF change[i].pc = "below" THEN "waiting" ELSE "store")
  /\ UNCHANGED <<plan, announced, request, stopping, panicked, wish, boundVars>>

(***************************************************************************)
(* task.Set under the state lock.  A recover-check that succeeds saves its *)
(* wish to proceed and returns.                                            *)
(***************************************************************************)
StoreDetails(i) ==
  /\ \/ At(i, "store")
     \/ At(i, "succeeded") /\ change[i].kind = "recover"
  /\ Only(i, [change[i] EXCEPT
               !.details = change[i].mine,
               !.pc = IF change[i].mine.proceed THEN "return" ELSE "waiting"])
  /\ UNCHANGED <<checks, plan, announced, request, stopping, panicked, wish,
                 boundVars>>

-----------------------------------------------------------------------------
(***************************************************************************)
(* StartChecks reads the plan first and takes the state lock later; a      *)
(* request for a check that is not in the plan is refused.                 *)
(***************************************************************************)
RequestStart ==
  /\ Serving
  /\ request = NoCheck
  /\ plan # NoCheck
  /\ Event
  /\ request' = plan
  /\ UNCHANGED <<change, checks, plan, announced, stopping, panicked, wish,
                 failed>>

\* The check is known and no change is said to run it.
Startable == checks # NoData /\ checks.changeID = 0

StartWith(config) ==
  /\ change' = IF Startable THEN Append(change, NewChange("perform", config, 0))
                ELSE change
  /\ checks' = IF Startable THEN UpdatedData(Len(change) + 1, 0) ELSE checks
  /\ wish' = "start"

StartChecks ==
  /\ Serving
  /\ request # NoCheck
  /\ StartWith(request)
  /\ request' = NoCheck
  /\ UNCHANGED <<plan, announced, stopping, panicked, boundVars>>

\* Replan reads the plan with the state lock held.
Replan ==
  /\ Serving
  /\ Event
  /\ plan \in Enabled
  /\ StartWith(plan)
  /\ UNCHANGED <<plan, announced, request, stopping, panicked, failed>>

(***************************************************************************)
(* StopChecks needs the plan only to know that it has the check, which no  *)
(* update takes back.                                                      *)
(***************************************************************************)
StopChecks ==
  LET id == checks.changeID
      running == checks # NoData /\ id # 0
  IN /\ Serving
     /\ plan # NoCheck
     /\ Event
     /\ change' = IF running THEN [change EXCEPT ![id] = Aborted(change[id])] ELSE change
     /\ checks' = IF running THEN UpdatedData(0, checks.failures) ELSE checks
     /\ panicked' = (running /\ change[id].status = "Done")
     /\ wish' = IF checks = NoData THEN wish ELSE "stop"
     /\ UNCHANGED <<plan, announced, request, stopping, failed>>

(***************************************************************************)
(* TaskRunner.Stop, when the daemon exits and no request is being served.  *)
(***************************************************************************)
Stop ==
  /\ Ensuring
  /\ announced
  /\ request = NoCheck
  /\ events < MaxEvents
  /\ stopping' = TRUE
  /\ change' = [i \in ID |-> [change[i] EXCEPT !.dying = change[i].pc # "none"]]
  /\ UNCHANGED <<checks, plan, announced, request, panicked, wish, boundVars>>

(***************************************************************************)
(* The daemon is killed, or has stopped, and is started again: the state   *)
(* file keeps the changes, the cache and the goroutines are gone, and the  *)
(* plan is loaded from disk, with a PlanChanged before the first Ensure    *)
(* pass.                                                                   *)
(***************************************************************************)
Survivor(c) == [c EXCEPT !.cached = FALSE, !.pc = "none", !.dying = FALSE,
                         !.mine = NewDetails(0)]

Restart ==
  LET kept == [i \in ID |-> Survivor(change[i])]
  IN
  /\ Event
  /\ change' = ChangesAfter(kept, OnDisk)
  /\ checks' = DataAfter(kept, NoData, OnDisk)
  /\ plan' = OnDisk
  /\ announced' = TRUE
  /\ request' = NoCheck
  /\ stopping' = FALSE
  /\ panicked' = FALSE
  /\ wish' = "none"
  /\ UNCHANGED <<failed>>

-----------------------------------------------------------------------------
Engine(i) ==
  \/ EnsureRun(i)
  \/ EnsureKill(i)
  \/ EnsureTryUndo(i)
  \/ EnsureCannotUndo(i)
  \/ Cleanup(i)

Handler(i) ==
  \/ Begin(i)
  \/ Dying(i)
  \/ CheckFails(i)
  \/ CheckSucceeds(i)
  \/ RecordFailure(i)
  \/ CallFailureHandlers(i)
  \/ UpdateCheckData(i)
  \/ StoreDetails(i)
  \/ HandlerReturns(i)

Next ==
  \/ \E i \in ID : Engine(i) \/ Handler(i)
  \/ \E new \in Config : UpdatePlan(new)
  \/ PlanChanged
  \/ RequestStart
  \/ StartChecks
  \/ Replan
  \/ StopChecks
  \/ Stop
  \/ Restart

(***************************************************************************)
(* The overlord loop runs an Ensure pass whenever one is asked for and     *)
(* every five minutes, goroutines are scheduled, a check ends by its       *)
(* timeout, and the plan manager calls its listeners.                      *)
(***************************************************************************)
ChangeBound == 1 + MaxEvents + MaxFailures + MaxFailures

Fairness ==
  /\ \A i \in 1..ChangeBound :
       /\ WF_vars(i \in ID /\ Engine(i))
       /\ WF_vars(i \in ID /\ Handler(i))
  /\ WF_vars(PlanChanged)

Spec == Init /\ [][Next]_vars
FairSpec == Spec /\ Fairness

-----------------------------------------------------------------------------
Live(i) == change[i].status \in {"Do", "Doing"}

\* A check that the plan enables and that no one stopped always has a change that
\* runs it or is about to, through plan updates, failures, recoveries and
\* restarts (PlanChanged, changeStatusChanged).
EnabledRuns ==
  plan \in Enabled /\ announced /\ wish = "none" /\ ~stopping /\ ~panicked =>
    \E i \in ID : Live(i)

\* Each time the check goes down its failure handlers ran once, and a recover-check
\* took over: a perform-check ends in error only so (doPerformCheck,
\* changeStatusChanged).
DownIsHandled ==
  ~panicked =>
    /\ \A i \in ID : change[i].status = "Error" =>
         change[i].kind = "perform" /\ change[i].handled = 1
    /\ \A r \in ID : change[r].kind = "recover" =>
         \E p \in 1..(r - 1) : change[p].status = "Error" /\ change[p].kind = "perform"

\* A handler that runs finds its configuration cached, until it returns: no cleanup
\* comes before it is over (doPerformCheck, NewManager's cleanups).
RunningIsCached ==
  ~panicked => \A i \in ID : change[i].pc # "none" =>
                 change[i].cached /\ change[i].status \in {"Doing", "Abort"}

\* There are two internal errors only: a stop aborts a change that is over, because a
\* handler has written its check data late (StopChecks), or the daemon restarts between
\* the stop of a recover-check that had succeeded and its end (changeStatusChanged).  A
\* task that is to run always has its configuration.
StoppedLate(c) == c.status = "Undo"
CutShort(c) == c.kind = "recover" /\ c.status = "Done" /\ c.details.proceed /\ ~c.cached
KnownPanics == panicked => \E i \in ID : StoppedLate(change[i]) \/ CutShort(change[i])

\* However late a handler writes its check data, the data of an enabled check names
\* again and again a change that runs it (updateCheckData).
DataCatchesUp ==
  []<>(\/ plan \notin Enabled \/ wish # "none" \/ stopping \/ panicked
       \/ checks # NoData /\ checks.changeID # 0 /\ Live(checks.changeID))

\* An aborted change always ends, wherever its handler is (EnsureKill, Dying).
AbortsEnd ==
  []<>(\/ stopping \/ panicked
       \/ \A i \in ID : change[i].status \notin {"Abort", "Undo"})

\* What holds of an enabled check and of the handlers that run in every state.
ChecksSound == TypeOK /\ EnabledRuns /\ RunningIsCached /\ KnownPanics

\* The check data catches up, and what was aborted ends.
ChecksSettle == DataCatchesUp /\ AbortsEnd
=============================================================================
