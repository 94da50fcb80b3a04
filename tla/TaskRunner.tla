----------------------------- MODULE TaskRunner -----------------------------
(***************************************************************************)
(* The task engine of the state package: tasks grouped in changes          *)
(* (task.go, change.go), the runner that starts one goroutine per runnable *)
(* task and applies its result (taskrunner.go), the pruning of changes and *)
(* the persistence of both over a restart (state.go).                      *)
(*                                                                         *)
(* Every operation of the code holds the state lock from its first read to *)
(* its last write, so an operation is atomic for the others.  The two that *)
(* loop over tasks, an Ensure pass and the propagation of an abort, are    *)
(* modelled one loop iteration at a time: lock names the loop that holds   *)
(* the lock and no other operation starts before it ends.  Goroutines run  *)
(* outside the lock and only their end is an action.                       *)
(***************************************************************************)
EXTENDS Integers, Sequences

CONSTANTS
  Task,         \* the tasks
  NoTask,       \* no task
  Change,       \* the changes
  NoChange,     \* no change
  Lane,         \* the lanes
  ChangeOf,     \* the change each task was added to
  Rank,         \* the position of each task in its change
  WaitTasks,    \* the tasks each task waits for
  Lanes,        \* the lanes of each task, in the order it joined them
  HasUndo,      \* the tasks whose kind has an undo handler
  HasCleanup,   \* the tasks whose kind has a cleanup handler
  Outcomes,     \* what a handler may return
  MaxRetries,   \* bound: how many Retry results the handlers return in total
  MaxAborts,    \* bound: how many times an abort is asked for
  MaxRestarts   \* bound: how many times the daemon stops or crashes

(***************************************************************************)
(* WaitFor links tasks of one change; a change is made of at least one     *)
(* task; Task.Lanes returns lane 0 for a task that joined none.            *)
(***************************************************************************)
ASSUME StructureAssumption ==
  /\ NoTask \notin Task
  /\ NoChange \notin Change
  /\ ChangeOf \in [Task -> Change]
  /\ Rank \in [Task -> Nat]
  /\ WaitTasks \in [Task -> SUBSET Task]
  /\ Lanes \in [Task -> Seq(Lane) \ {<<>>}]
  /\ \A t \in Task : \A w \in WaitTasks[t] : ChangeOf[w] = ChangeOf[t]
  /\ \A t, u \in Task : ChangeOf[t] = ChangeOf[u] /\ t # u => Rank[t] # Rank[u]

ASSUME ChangeAssumption == \A c \in Change : \E t \in Task : ChangeOf[t] = c

ASSUME HandlerAssumption ==
  /\ HasUndo \subseteq Task
  /\ HasCleanup \subseteq Task
  /\ Outcomes \subseteq {"nil", "error", "retry", "wait"}
  /\ MaxRetries \in Nat
  /\ MaxAborts \in Nat
  /\ MaxRestarts \in Nat

(***************************************************************************)
(* The order in which the daemon adds tasks: a task is added after those   *)
(* it waits for.  A task waits in its own lane for the one before it       *)
(* (servstate.Start and Stop) and, in a restart or a replan, every start   *)
(* waits for every stop (TaskSet.WaitAll), so two tasks of the same lanes  *)
(* wait for the same tasks outside those lanes.                            *)
(***************************************************************************)
WaitsOutside(t) == {w \in WaitTasks[t] : Lanes[w] # Lanes[t]}

ASSUME OrderAssumption ==
  /\ \A t \in Task : \A w \in WaitTasks[t] : Rank[w] < Rank[t]
  /\ \A t, u \in Task : ChangeOf[t] = ChangeOf[u] /\ Lanes[t] = Lanes[u] =>
       WaitsOutside(t) = WaitsOutside(u)

VARIABLES
  status,     \* the status of each task
  waited,     \* the status a task in Wait is to take afterwards
  clean,      \* the tasks flagged clean
  later,      \* the tasks scheduled (atTime) for a time still to come
  phase,      \* whether each change is yet to be made, in the state or pruned
  ready,      \* the changes whose ready channel is closed
  tomb,       \* what the goroutine of each task runs, if it has one
  dying,      \* the tasks whose tomb was killed
  stopped,    \* whether TaskRunner.Stop was called
  wake,       \* whether an Ensure pass was asked for (EnsureBefore)
  panicked,   \* whether an internal error made the daemon panic
  lock,       \* the loop that holds the state lock
  visit,      \* Ensure: the tasks the pass has still to consider
  resume,     \* Ensure: the task the pass is in the middle of considering
  queue,      \* abort: the turn of each task in the work list, 0 if not in it
  turn,       \* abort: the last turn given
  seen,       \* abort: the tasks already aborted
  lanesLeft,  \* abort: the lanes reached that remain to be aborted
  lanesGone,  \* abort: the lanes already aborted
  subject,    \* abort: the change being aborted
  failing,    \* abort: the task whose error is the reason, if any
  retries,    \* Retry results so far
  aborts,     \* abort requests so far
  restarts    \* restarts so far

taskVars   == <<status, waited, clean, later, phase, ready>>
runnerVars == <<tomb, dying, stopped>>
ensureVars == <<visit, resume>>
abortVars  == <<queue, turn, seen, lanesLeft, lanesGone, subject, failing>>
boundVars  == <<retries, aborts, restarts>>
vars == <<taskVars, runnerVars, ensureVars, abortVars, boundVars, wake,
          panicked, lock>>

Status == {"Do", "Doing", "Done", "Abort", "Undo", "Undoing", "Undone",
           "Hold", "Error", "Wait"}

IsReady(s) == s \in {"Done", "Undone", "Hold", "Error"}

\* The state lock is free, or held by the loop named; a panic ends the daemon.
Holds(user) == lock = user /\ ~panicked

TasksOf(c) == {t \in Task : ChangeOf[t] = c}
LanesOf(t) == {Lanes[t][i] : i \in DOMAIN Lanes[t]}
\* Mutant: only the waiters of the task's own lanes.
HaltTasksInLane(t) == {h \in Task : t \in WaitTasks[h] /\ Lanes[h] = Lanes[t]}

HaltTasks(t) == {h \in Task : t \in WaitTasks[h]}
AllReady(c) == \A t \in TasksOf(c) : IsReady(status[t])
Linked(t) == phase[ChangeOf[t]] = "live"

TypeOK ==
  /\ status \in [Task -> Status]
  /\ waited \in [Task -> Status]
  /\ clean \in SUBSET Task
  /\ later \in SUBSET Task
  /\ phase \in [Change -> {"new", "live", "gone"}]
  /\ ready \in SUBSET Change
  /\ tomb \in [Task -> {"none", "do", "undo", "cleanup"}]
  /\ dying \in SUBSET Task
  /\ stopped \in BOOLEAN
  /\ wake \in BOOLEAN
  /\ panicked \in BOOLEAN
  /\ lock \in {"free", "ensure", "abort"}
  /\ visit \in SUBSET Task
  /\ resume \in Task \cup {NoTask}
  /\ queue \in [Task -> Nat]
  /\ turn \in Nat
  /\ seen \in SUBSET Task
  /\ lanesLeft \in SUBSET Lane
  /\ lanesGone \in SUBSET Lane
  /\ subject \in Change \cup {NoChange}
  /\ failing \in Task \cup {NoTask}
  /\ retries \in 0..MaxRetries
  /\ aborts \in 0..MaxAborts
  /\ restarts \in 0..MaxRestarts

Init ==
  /\ status = [t \in Task |-> "Do"]
  /\ waited = [t \in Task |-> "Done"]
  /\ clean = {}
  /\ later = {}
  /\ phase = [c \in Change |-> "new"]
  /\ ready = {}
  /\ tomb = [t \in Task |-> "none"]
  /\ dying = {}
  /\ stopped = FALSE
  /\ wake = FALSE
  /\ panicked = FALSE
  /\ lock = "free"
  /\ visit = {}
  /\ resume = NoTask
  /\ queue = [t \in Task |-> 0]
  /\ turn = 0
  /\ seen = {}
  /\ lanesLeft = {}
  /\ lanesGone = {}
  /\ subject = NoChange
  /\ failing = NoTask
  /\ retries = 0
  /\ aborts = 0
  /\ restarts = 0

-----------------------------------------------------------------------------
(***************************************************************************)
(* Task.SetStatus, changeStatus and Change.taskStatusChanged: the status   *)
(* changes and, if the task became ready or unready while every other task *)
(* of the change is ready, detectChangeReady closes the ready channel or   *)
(* panics because it was closed already.                                   *)
(***************************************************************************)
\* Mutant: detectChangeReady does not exclude the task that changes.
SettledAll(t) == \A u \in TasksOf(ChangeOf[t]) : IsReady(status[u])

SettledOthers(t) == \A u \in TasksOf(ChangeOf[t]) \ {t} : IsReady(status[u])

ChangeStatus(t, s) ==
  LET detect == (IsReady(s) # IsReady(status[t])) /\ SettledOthers(t)
  IN /\ status' = [status EXCEPT ![t] = s]
     /\ ready' = IF detect THEN ready \cup {ChangeOf[t]} ELSE ready
     /\ panicked' = (panicked \/ (detect /\ ~IsReady(s) /\ ChangeOf[t] \in ready))

SetStatus(t, s) ==
  ChangeStatus(t, IF s = "Done" /\ status[t] = "Abort" THEN "Abort" ELSE s)

EnsureBefore(asked) == wake' = (wake \/ asked)

(***************************************************************************)
(* tryUndo: a task stopped in flight is undone, or put on hold when its    *)
(* kind cannot be undone.                                                  *)
(***************************************************************************)
TryUndo(t) ==
  IF status[t] = "Abort" /\ t \notin HasUndo
  THEN SetStatus(t, "Hold") /\ EnsureBefore(WaitTasks[t] # {})
  ELSE SetStatus(t, "Undo") /\ EnsureBefore(TRUE)

(***************************************************************************)
(* mustWait: a task to do waits for its wait tasks to be done, a task to   *)
(* undo for its halt tasks to be ready.                                    *)
(***************************************************************************)
\* Mutants: an undo does not wait; an undo waits for its halt tasks to be undone.
MustWaitToDo(t) == status[t] = "Do" /\ \E w \in WaitTasks[t] : status[w] # "Done"
MustWaitForUndone(t) ==
  \/ MustWaitToDo(t)
  \/ status[t] = "Undo" /\ \E h \in HaltTasks(t) : status[h] # "Undone"

MustWait(t) ==
  \/ status[t] = "Do" /\ \E w \in WaitTasks[t] : status[w] # "Done"
  \/ status[t] = "Undo" /\ \E h \in HaltTasks(t) : ~IsReady(status[h])

-----------------------------------------------------------------------------
(***************************************************************************)
(* A manager or an API handler makes a change with its tasks in one        *)
(* critical section and asks for an Ensure pass.                           *)
(***************************************************************************)
NewChange(c) ==
  /\ Holds("free")
  /\ phase[c] = "new"
  /\ phase' = [phase EXCEPT ![c] = "live"]
  /\ EnsureBefore(TRUE)
  /\ UNCHANGED <<status, waited, clean, later, ready, runnerVars, ensureVars,
                 abortVars, boundVars, panicked, lock>>

(***************************************************************************)
(* The Ensure pass: State.Tasks lists the linked tasks in the random order *)
(* of a map, and the pass considers each once.                             *)
(***************************************************************************)
\* Mutant: passes go on while the runner stops.
MayEnsureAlways == Holds("free")

MayEnsure == Holds("free") /\ ~stopped

EnsureBegin ==
  /\ MayEnsure
  /\ lock' = "ensure"
  /\ visit' = {t \in Task : Linked(t)}
  /\ wake' = FALSE
  /\ UNCHANGED <<taskVars, runnerVars, resume, abortVars, boundVars, panicked>>

Considering(t) ==
  /\ Holds("ensure")
  /\ t \in visit
  /\ resume \in {NoTask, t}

Considered(t) ==
  /\ visit' = visit \ {t}
  /\ resume' = NoTask

EnsureKill(t) ==
  /\ Considering(t)
  /\ status[t] = "Abort"
  /\ tomb[t] # "none"
  /\ dying' = dying \cup {t}
  /\ Considered(t)
  /\ UNCHANGED <<taskVars, tomb, stopped, abortVars, boundVars, wake, panicked,
                 lock>>

EnsureTryUndo(t) ==
  /\ Considering(t)
  /\ status[t] = "Abort"
  /\ tomb[t] = "none"
  /\ TryUndo(t)
  /\ resume' = t
  /\ UNCHANGED <<waited, clean, later, phase, runnerVars, visit, abortVars,
                 boundVars, lock>>

Idle(t) == tomb[t] = "none" /\ status[t] # "Abort"

Cleanable(t) ==
  /\ Idle(t)
  /\ IsReady(status[t])
  /\ t \notin clean
  /\ ChangeOf[t] \in ready

Runnable(t) ==
  /\ Idle(t)
  /\ status[t] \in {"Do", "Doing", "Undo", "Undoing"}
  /\ ~MustWait(t)

CannotUndo(t) == status[t] = "Undo" /\ t \notin HasUndo

EnsureSkip(t) ==
  /\ Considering(t)
  /\ \/ tomb[t] # "none" /\ status[t] # "Abort"
     \/ /\ Idle(t)
        /\ ~Cleanable(t)
        /\ Runnable(t) => t \in later /\ ~CannotUndo(t)
  /\ Considered(t)
  /\ UNCHANGED <<taskVars, runnerVars, abortVars, boundVars, wake, panicked,
                 lock>>

(***************************************************************************)
(* clean: the cleanup of a kind runs in a goroutine; a task without one is *)
(* flagged clean at once.                                                  *)
(***************************************************************************)
EnsureClean(t) ==
  /\ Considering(t)
  /\ Cleanable(t)
  /\ IF t \in HasCleanup
     THEN tomb' = [tomb EXCEPT ![t] = "cleanup"] /\ clean' = clean
     ELSE clean' = clean \cup {t} /\ tomb' = tomb
  /\ Considered(t)
  /\ UNCHANGED <<status, waited, later, phase, ready, dying, stopped, abortVars,
                 boundVars, wake, panicked, lock>>

EnsureCannotUndo(t) ==
  /\ Considering(t)
  /\ Runnable(t)
  /\ CannotUndo(t)
  /\ SetStatus(t, "Done")
  /\ EnsureBefore(WaitTasks[t] # {})
  /\ Considered(t)
  /\ UNCHANGED <<waited, clean, later, phase, runnerVars, abortVars, boundVars,
                 lock>>

(***************************************************************************)
(* run: the status becomes Doing or Undoing and the handler starts.        *)
(***************************************************************************)
EnsureRun(t) ==
  /\ Considering(t)
  /\ Runnable(t)
  /\ ~CannotUndo(t)
  /\ t \notin later
  /\ LET doing == status[t] \in {"Do", "Doing"}
     IN /\ SetStatus(t, IF doing THEN "Doing" ELSE "Undoing")
        /\ tomb' = [tomb EXCEPT ![t] = IF doing THEN "do" ELSE "undo"]
  /\ Considered(t)
  /\ UNCHANGED <<waited, clean, later, phase, dying, stopped, abortVars,
                 boundVars, wake, lock>>

EnsureEnd ==
  /\ Holds("ensure")
  /\ visit = {}
  /\ lock' = "free"
  /\ UNCHANGED <<taskVars, runnerVars, ensureVars, abortVars, boundVars, wake,
                 panicked>>

-----------------------------------------------------------------------------
(***************************************************************************)
(* The end of a handler goroutine: the runner removes its tomb and applies *)
(* the result under the state lock.                                        *)
(***************************************************************************)
Returns(t, outcome) ==
  /\ Holds("free")
  /\ tomb[t] \in {"do", "undo"}
  /\ outcome \in Outcomes
  /\ tomb' = [tomb EXCEPT ![t] = "none"]
  /\ dying' = dying \ {t}
  /\ UNCHANGED <<clean, phase, stopped, ensureVars, aborts, restarts>>

HandlerDone(t) ==
  /\ Returns(t, "nil")
  /\ \/ /\ status[t] = "Doing"
        /\ SetStatus(t, "Done")
        /\ EnsureBefore(HaltTasks(t) # {})
     \/ /\ status[t] = "Abort"
        /\ SetStatus(t, "Undo")
        /\ EnsureBefore(TRUE)
     \/ /\ status[t] = "Undoing"
        /\ SetStatus(t, "Undone")
        /\ EnsureBefore(WaitTasks[t] # {})
  /\ UNCHANGED <<waited, later, retries, abortVars, lock>>

(***************************************************************************)
(* A Retry, or any error while the runner stops, leaves the task to be run *)
(* again, now or (after) at a later time.                                  *)
(***************************************************************************)
HandlerRetry(t, after) ==
  /\ \/ Returns(t, "retry") /\ retries < MaxRetries /\ retries' = retries + 1
     \/ Returns(t, "error") /\ stopped /\ ~after /\ retries' = retries
  /\ IF status[t] = "Abort"
     THEN TryUndo(t) /\ later' = later
     ELSE /\ later' = IF after THEN later \cup {t} ELSE later
          /\ UNCHANGED <<status, ready, panicked, wake>>
  /\ UNCHANGED <<waited, abortVars, lock>>

(***************************************************************************)
(* A Wait parks the task until something else gives it its waited status.  *)
(***************************************************************************)
HandlerWait(t) ==
  /\ Returns(t, "wait")
  /\ IF status[t] = "Abort"
     THEN TryUndo(t) /\ waited' = waited
     ELSE /\ waited' = [waited EXCEPT ![t] =
                          IF tomb[t] = "do" THEN "Done" ELSE "Undone"]
          /\ ChangeStatus(t, "Wait")
          /\ wake' = wake
  /\ UNCHANGED <<later, retries, abortVars, lock>>

(***************************************************************************)
(* An error aborts the lanes of the task before the task gets its status.  *)
(***************************************************************************)
HandlerError(t) ==
  /\ Returns(t, "error")
  /\ ~stopped
  /\ lock' = "abort"
  /\ lanesLeft' = LanesOf(t)
  /\ subject' = ChangeOf[t]
  /\ failing' = t
  /\ UNCHANGED <<status, waited, later, ready, retries, wake, panicked, queue,
                 turn, seen, lanesGone>>

CleanupReturns(t, ok) ==
  /\ Holds("free")
  /\ tomb[t] = "cleanup"
  /\ tomb' = [tomb EXCEPT ![t] = "none"]
  /\ dying' = dying \ {t}
  /\ clean' = IF ok THEN clean \cup {t} ELSE clean
  /\ panicked' = (panicked \/ (ok /\ Linked(t) /\ ChangeOf[t] \notin ready))
  /\ UNCHANGED <<status, waited, later, phase, ready, stopped, ensureVars,
                 abortVars, boundVars, wake, lock>>

(***************************************************************************)
(* The time a task was scheduled for arrives: At asked for a pass by then. *)
(***************************************************************************)
TimeArrives(t) ==
  /\ Holds("free")
  /\ t \in later
  /\ later' = later \ {t}
  /\ EnsureBefore(TRUE)
  /\ UNCHANGED <<status, waited, clean, phase, ready, runnerVars, ensureVars,
                 abortVars, boundVars, panicked, lock>>

-----------------------------------------------------------------------------
(***************************************************************************)
(* Aborting.  Change.Abort puts every task of the change in the work list, *)
(* in the order of the change; the pruning of old changes and the error of *)
(* a task start from lanes.                                                *)
(***************************************************************************)
\* Mutant: a change with nothing pending is aborted too.
AbortableAlways(c) == phase[c] = "live"

Abortable(c) == phase[c] = "live" /\ ~AllReady(c)

Abort(c) ==
  /\ Holds("free")
  /\ Abortable(c)
  /\ aborts < MaxAborts
  /\ aborts' = aborts + 1
  /\ lock' = "abort"
  /\ queue' = [t \in Task |-> IF ChangeOf[t] = c THEN 1 ELSE 0]
  /\ turn' = 1
  /\ subject' = c
  /\ EnsureBefore(TRUE)
  /\ UNCHANGED <<taskVars, runnerVars, ensureVars, seen, lanesLeft, lanesGone,
                 failing, retries, restarts, panicked>>

PruneAbort(c) ==
  /\ Holds("free")
  /\ phase[c] = "live"
  /\ c \notin ready
  /\ aborts < MaxAborts
  /\ aborts' = aborts + 1
  /\ lock' = "abort"
  /\ lanesLeft' = UNION {LanesOf(t) : t \in {u \in TasksOf(c) : ~IsReady(status[u])}}
  /\ subject' = c
  /\ UNCHANGED <<taskVars, runnerVars, ensureVars, queue, turn, seen, lanesGone,
                 failing, retries, restarts, wake, panicked>>

EffectiveStatus(t) == IF status[t] = "Wait" THEN waited[t] ELSE status[t]

\* Mutant: a task that has not begun gets its default status.
AbortedStatusDefault(t) ==
  CASE EffectiveStatus(t) = "Do" -> "Default"
    [] EffectiveStatus(t) = "Doing" -> "Abort"
    [] OTHER -> status[t]

AbortedStatus(t) ==
  CASE EffectiveStatus(t) = "Do" -> "Hold"
    [] EffectiveStatus(t) = "Doing" -> "Abort"
    [] EffectiveStatus(t) = "Done" -> "Undo"
    [] OTHER -> status[t]

InQueue(t) == queue[t] > 0

\* Mutant: the work list is taken from its end.
InTurnBackwards(t) ==
  \A u \in Task : InQueue(u) =>
    queue[t] > queue[u] \/ (queue[t] = queue[u] /\ Rank[t] >= Rank[u])

InTurn(t) ==
  \A u \in Task : InQueue(u) =>
    queue[t] < queue[u] \/ (queue[t] = queue[u] /\ Rank[t] <= Rank[u])

(***************************************************************************)
(* One iteration of abortTasks.  The tasks waiting for t join the end of   *)
(* the work list: the turn they get is later than any given before.        *)
(***************************************************************************)
AbortTask(t) ==
  /\ Holds("abort")
  /\ InQueue(t) /\ InTurn(t)
  /\ ChangeStatus(t, AbortedStatus(t))
  /\ seen' = seen \cup {t}
  /\ queue' = [u \in Task |->
                 IF u = t THEN 0
                 ELSE IF u \in HaltTasks(t) \ seen /\ ~InQueue(u) THEN turn + 1
                 ELSE queue[u]]
  /\ turn' = turn + 1
  /\ lanesLeft' = IF LanesOf(t) \subseteq lanesGone THEN lanesLeft
                  ELSE lanesLeft \cup LanesOf(t)
  /\ UNCHANGED <<waited, clean, later, phase, runnerVars, ensureVars, lanesGone,
                 subject, failing, boundVars, wake, lock>>

(***************************************************************************)
(* abortLanes: the tasks in the lanes L join the work list, but those that *)
(* are also in a lane that is entirely alive.  A task has a say about its  *)
(* lanes up to the first one in L.                                         *)
(***************************************************************************)
Alive(t) == EffectiveStatus(t) \in {"Do", "Doing", "Done"}

Tracked(t, L) ==
  {Lanes[t][i] : i \in {k \in DOMAIN Lanes[t] : \A j \in 1..k : Lanes[t][j] \notin L}}

Healthy(l, L) ==
  LET members == {t \in TasksOf(subject) : l \in Tracked(t, L)}
  IN members # {} /\ \A t \in members : Alive(t)

\* Mutant: every task of the change is taken.
LaneTasksAll(L) == TasksOf(subject)

LaneTasks(L) ==
  {t \in TasksOf(subject) :
     LanesOf(t) \cap L # {} /\ ~\E l \in LanesOf(t) : Healthy(l, L)}

AbortLanes ==
  /\ Holds("abort")
  /\ \A t \in Task : ~InQueue(t)
  /\ lanesLeft # {}
  /\ queue' = [t \in Task |->
                 IF t \in LaneTasks(lanesLeft) \ seen THEN 1 ELSE 0]
  /\ turn' = 1
  /\ lanesGone' = lanesGone \cup lanesLeft
  /\ lanesLeft' = {}
  /\ UNCHANGED <<taskVars, runnerVars, ensureVars, seen, subject, failing,
                 boundVars, wake, panicked, lock>>

AbortOver ==
  /\ Holds("abort")
  /\ \A t \in Task : ~InQueue(t)
  /\ lanesLeft = {}

ForgetAbort ==
  /\ lock' = "free"
  /\ queue' = [t \in Task |-> 0]
  /\ turn' = 0
  /\ seen' = {}
  /\ lanesLeft' = {}
  /\ lanesGone' = {}
  /\ subject' = NoChange
  /\ failing' = NoTask

AbortEnd ==
  /\ AbortOver
  /\ failing = NoTask
  /\ ForgetAbort
  /\ UNCHANGED <<taskVars, runnerVars, ensureVars, boundVars, wake, panicked>>

(***************************************************************************)
(* After an error the runner kills the goroutines of the aborted tasks,    *)
(* asks for a pass as something is left unready, and sets the status.      *)
(***************************************************************************)
ErrorEnd ==
  /\ AbortOver
  /\ failing # NoTask
  /\ dying' = dying \cup {t \in TasksOf(subject) :
                            status[t] = "Abort" /\ tomb[t] # "none"}
  /\ EnsureBefore(~AllReady(subject))
  /\ SetStatus(failing, "Error")
  /\ ForgetAbort
  /\ UNCHANGED <<waited, clean, later, phase, tomb, stopped, ensureVars,
                 boundVars>>

-----------------------------------------------------------------------------
(***************************************************************************)
(* Prune removes a change that is ready, with its tasks, when it is old or *)
(* there are too many.                                                     *)
(***************************************************************************)
Prune(c) ==
  /\ Holds("free")
  /\ phase[c] = "live"
  /\ c \in ready
  /\ phase' = [phase EXCEPT ![c] = "gone"]
  /\ UNCHANGED <<status, waited, clean, later, ready, runnerVars, ensureVars,
                 abortVars, boundVars, wake, panicked, lock>>

(***************************************************************************)
(* TaskRunner.Stop kills every goroutine and then waits for them.          *)
(***************************************************************************)
Stop ==
  /\ Holds("free")
  /\ ~stopped
  /\ restarts < MaxRestarts
  /\ stopped' = TRUE
  /\ dying' = {t \in Task : tomb[t] # "none"}
  /\ UNCHANGED <<taskVars, tomb, ensureVars, abortVars, boundVars, wake,
                 panicked, lock>>

(***************************************************************************)
(* The daemon starts again, after a Stop or a crash: the state was saved   *)
(* when the lock was last released; goroutines are lost; finishUnmarshal   *)
(* closes the ready channel of a change that is ready.                     *)
(***************************************************************************)
Restart ==
  /\ Holds("free")
  /\ restarts < MaxRestarts
  /\ restarts' = restarts + 1
  /\ tomb' = [t \in Task |-> "none"]
  /\ dying' = {}
  /\ stopped' = FALSE
  /\ ready' = {c \in Change : phase[c] = "live" /\ AllReady(c)}
  /\ wake' = TRUE
  /\ UNCHANGED <<status, waited, clean, later, phase, ensureVars, abortVars,
                 retries, aborts, panicked, lock>>

-----------------------------------------------------------------------------
EnsureStep == \E t \in Task :
  \/ EnsureKill(t) \/ EnsureTryUndo(t) \/ EnsureSkip(t) \/ EnsureClean(t)
  \/ EnsureCannotUndo(t) \/ EnsureRun(t)

HandlerReturns(t) ==
  \/ HandlerDone(t)
  \/ \E after \in BOOLEAN : HandlerRetry(t, after)
  \/ HandlerWait(t)
  \/ HandlerError(t)

AbortStep ==
  \/ \E t \in Task : AbortTask(t)
  \/ AbortLanes
  \/ AbortEnd
  \/ ErrorEnd

Next ==
  \/ \E c \in Change : NewChange(c)
  \/ \E c \in Change : Abort(c)
  \/ \E c \in Change : PruneAbort(c)
  \/ \E c \in Change : Prune(c)
  \/ EnsureBegin
  \/ EnsureStep
  \/ EnsureEnd
  \/ \E t \in Task : HandlerReturns(t)
  \/ \E t \in Task : TimeArrives(t)
  \/ \E t \in Task, ok \in BOOLEAN : CleanupReturns(t, ok)
  \/ AbortStep
  \/ Stop
  \/ Restart

(***************************************************************************)
(* Fairness: the overlord loop keeps running Ensure passes, a critical     *)
(* section ends, a scheduled time arrives, and a handler returns in the    *)
(* end (the handlers watch the Dying channel of their tomb).  A cleanup    *)
(* that keeps failing is retried for ever, so a successful return is only  *)
(* reached if the cleanup does not fail each time.                         *)
(***************************************************************************)
Fairness ==
  /\ SF_vars(EnsureBegin)
  /\ WF_vars(EnsureStep)
  /\ WF_vars(EnsureEnd)
  /\ WF_vars(AbortStep)
  /\ \A t \in Task : SF_vars(HandlerReturns(t))
  /\ \A t \in Task : SF_vars(CleanupReturns(t, TRUE))
  /\ \A t \in Task : SF_vars(TimeArrives(t))

Spec == Init /\ [][Next]_vars
FairSpec == Spec /\ Fairness

-----------------------------------------------------------------------------
(***************************************************************************)
(* Properties.                                                             *)
(***************************************************************************)

(***************************************************************************)
(* No internal error: a change that closed its ready channel never has an  *)
(* unready task again (detectChangeReady would panic, in the middle of an  *)
(* abort), and no task is flagged clean in a change that is not ready      *)
(* (taskCleanChanged would panic).                                         *)
(***************************************************************************)
NeverPanics == ~panicked

(***************************************************************************)
(* The ready channel, which detectChangeReady closes from the status of    *)
(* the other tasks and finishUnmarshal from the saved state, is closed     *)
(* exactly when every task of the change is ready: an API client waiting   *)
(* for the change is neither woken early nor left waiting.                 *)
(***************************************************************************)
ReadyIffSettled == ~panicked =>
  \A c \in Change : phase[c] = "live" => (c \in ready <=> AllReady(c))

(***************************************************************************)
(* mustWait keeps dependent handlers apart: while a task is being done, no *)
(* task it waits for is being undone or was undone, and while a task is    *)
(* being undone, the tasks that waited for it are at rest (one that has no *)
(* undo handler may be asked to undo again by a second abort).             *)
(***************************************************************************)
DependenciesRespected ==
  \A t \in Task : \A w \in WaitTasks[t] :
    /\ tomb[t] = "do" => tomb[w] = "none" /\ status[w] \in {"Done", "Undo"}
    /\ tomb[w] = "undo" => tomb[t] = "none" /\ (IsReady(status[t]) \/ CannotUndo(t))

(***************************************************************************)
(* Cleanups come last: while the cleanup of a task runs, no task of its    *)
(* change has a handler running or anything left to run.                   *)
(***************************************************************************)
CleanupLast ==
  \A t \in Task : tomb[t] = "cleanup" =>
    \A u \in TasksOf(ChangeOf[t]) :
      tomb[u] \in {"none", "cleanup"} /\ IsReady(status[u])

(***************************************************************************)
(* A lane is all or nothing: when a change has settled and a task failed,  *)
(* every task of the same lane that can be undone is not left done.        *)
(***************************************************************************)
LaneAllOrNothing ==
  \A t, u \in Task :
    /\ Linked(t) /\ AllReady(ChangeOf[t])
    /\ ChangeOf[u] = ChangeOf[t] /\ Lanes[u] = Lanes[t]
    /\ status[t] = "Error"
    /\ u \in HasUndo
    => status[u] # "Done"

(***************************************************************************)
(* A failure stops what depends on it, across lanes too: once a task that  *)
(* cannot be undone has failed, every task waiting for it is on hold and   *)
(* was never run, so that a restart whose stop failed starts nothing.      *)
(***************************************************************************)
FailureHoldsWaiters ==
  \A t \in Task : \A w \in WaitTasks[t] :
    status[w] = "Error" /\ w \notin HasUndo => status[t] = "Hold"

(***************************************************************************)
(* The error of a task reaches only the tasks tied to it by lanes or by    *)
(* waiting, directly or in several hops.                                   *)
(***************************************************************************)
Reach(t) ==
  {u \in Task : \A S \in SUBSET Task :
     /\ t \in S
     /\ \A x \in S : HaltTasks(x) \subseteq S
     /\ \A x \in S : \A y \in TasksOf(ChangeOf[x]) :
          LanesOf(x) \cap LanesOf(y) # {} => y \in S
     => u \in S}

ErrorContained == failing # NoTask => seen \subseteq Reach(failing)

(***************************************************************************)
(* No lost wakeup: a task whose dependencies are all done is never left to *)
(* wait for the periodic Ensure pass, because whoever completed the last   *)
(* of them asked for a pass.                                               *)
(***************************************************************************)
NoLostWakeup ==
  (lock = "free" /\ ~stopped /\ ~wake) =>
    \A t \in Task : Linked(t) /\ status[t] = "Do" => MustWait(t)

(***************************************************************************)
(* What a client saw when the ready channel closed is final: no task of a  *)
(* ready change changes its status again, whatever is aborted, pruned or   *)
(* restarted.                                                              *)
(***************************************************************************)
ReadyIsFinal ==
  [][\A t \in Task : ChangeOf[t] \in ready => status'[t] = status[t]]_vars

(***************************************************************************)
(* Every change becomes ready, through errors, aborts, retries and         *)
(* restarts, unless the daemon is stopped.                                 *)
(***************************************************************************)
ChangeCompletes ==
  \A c \in Change : phase[c] = "live" ~> (c \in ready \/ stopped)

(***************************************************************************)
(* Every change that is ready is cleaned up, unless it is pruned or the    *)
(* daemon is stopped first.                                                *)
(***************************************************************************)
ChangeCleaned ==
  \A c \in Change : c \in ready ~>
    (TasksOf(c) \subseteq clean \/ phase[c] = "gone" \/ stopped)

(***************************************************************************)
(* Stop ends: the goroutines it waits for all return and no new one is     *)
(* started meanwhile.                                                      *)
(***************************************************************************)
StopCompletes == stopped ~> [](stopped => \A t \in Task : tomb[t] = "none")

(***************************************************************************)
(* Handlers of tasks that depend on each other, or are cleaned up, keep    *)
(* apart, and a failure holds what waits.                                  *)
(***************************************************************************)
DependenciesHold == DependenciesRespected /\ FailureHoldsWaiters /\ CleanupLast

(***************************************************************************)
(* An error undoes all of its lane, and nothing that is not tied to it.    *)
(***************************************************************************)
ErrorsKeepToLanes == LaneAllOrNothing /\ ErrorContained

(***************************************************************************)
(* A change ends and is then cleaned up.                                   *)
(***************************************************************************)
ChangeEnds == ChangeCompletes /\ ChangeCleaned
=============================================================================
