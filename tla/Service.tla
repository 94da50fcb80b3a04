------------------------------ MODULE Service ------------------------------
(***************************************************************************)
(* The life of one service in the service manager (servstate): its start   *)
(* and stop tasks, the processes it runs, and the state machine that the   *)
(* tasks, the exits of the processes, the timers and the failed health     *)
(* checks drive.                                                           *)
(*                                                                         *)
(* Every handler takes servicesLock for its whole length and is one        *)
(* action; the tasks take and release it several times and are one action  *)
(* per critical section.  A timer is never cancelled once it is armed (but *)
(* the backoff reset), so each is kept with the process that was current   *)
(* when it was armed, and elapses whatever has become of the service.      *)
(* The order in which timers elapse is free: the delays are configurable.  *)
(***************************************************************************)
EXTENDS Integers, Sequences, FiniteSets

CONSTANTS
  StartTask,        \* the tasks that start the service
  StopTask,         \* the tasks that stop it
  ExitActions,      \* the on-success and on-failure actions it may have
  BackoffDelay,     \* its backoff-delay
  BackoffFactor,    \* its backoff-factor
  BackoffLimit,     \* its backoff-limit
  Killable,         \* whether a process always ends within failDelay of SIGKILL
  StartMayFail,     \* whether startInternal may return an error
  MaxProcs,         \* bound: how many processes are started
  MaxObjects,       \* bound: how many serviceData objects are made
  MaxAborts,        \* bound: how many times a start task is aborted
  MaxCheckFailures, \* bound: how many times a health check fails
  MaxRestarts       \* bound: how many times the daemon is killed

Task == StartTask \cup StopTask
Proc == 1..MaxProcs
Obj == 1..MaxObjects
Timer == {"okay", "backoff", "terminate", "kill", "reset"}

(***************************************************************************)
(* The plan gives a service a backoff-factor of at least 1 (plan.go).      *)
(***************************************************************************)
ASSUME ServiceAssumption ==
  /\ StartTask \cap StopTask = {}
  /\ ExitActions \subseteq {"restart", "ignore", "shutdown"}
  /\ BackoffDelay \in Nat \ {0}
  /\ BackoffFactor \in Nat \ {0}
  /\ BackoffLimit \in Nat
  /\ BackoffDelay <= BackoffLimit
  /\ Killable \in BOOLEAN
  /\ StartMayFail \in BOOLEAN
  /\ MaxProcs \in Nat
  /\ MaxObjects \in Nat
  /\ MaxAborts \in Nat
  /\ MaxCheckFailures \in Nat
  /\ MaxRestarts \in Nat

VARIABLES
  svc,        \* the serviceData objects
  objects,    \* how many there are
  current,    \* the one in the services map, 0 if none
  proc,       \* the processes: running, exited, reaped by exited(), or lost
  owner,      \* the object that started each process
  procs,      \* how many processes were started
  killed,     \* the processes that SIGKILL was sent to
  timers,     \* how many timers of each kind are pending for each process
  lock,       \* the handler blocked on a full channel with servicesLock held
  pc,         \* how far each task is
  ref,        \* the object each task works on
  flag,       \* the start tasks whose "started" flag was set (and saved)
  dying,      \* the start tasks whose tomb was killed
  launched,   \* how many processes each start task started
  shutdown,   \* whether the daemon has asked for all services to be stopped
  aborts, checks, restarts   \* counters for the bounds

procVars == <<proc, owner, procs, killed>>
taskVars == <<pc, ref, flag, dying, launched>>
boundVars == <<aborts, checks, restarts>>
vars == <<svc, objects, current, procVars, timers, lock, taskVars, shutdown,
          boundVars>>

State == {"initial", "starting", "running", "terminating", "killing",
          "stopped", "backoff", "exited"}

ServiceData ==
  [st : State, restarting : BOOLEAN, cmd : Nat, backoffTime : Nat,
   started : Seq({"ok", "err"}), stopped : Seq({"ok", "err"})]

\* Mutant: the state is not set.
NewServiceStateless ==
  [st |-> "", restarting |-> FALSE, cmd |-> 0, backoffTime |-> 0,
   started |-> <<>>, stopped |-> <<>>]

NewService ==
  [st |-> "initial", restarting |-> FALSE, cmd |-> 0, backoffTime |-> 0,
   started |-> <<>>, stopped |-> <<>>]

\* The handlers that may hold servicesLock over a send.
Handler == (Timer \X Proc) \cup ({"exited"} \X Proc) \cup ({"stop"} \X StopTask)

StartedCap == 1
StoppedCap == 2

TypeOK ==
  /\ svc \in [Obj -> ServiceData]
  /\ \A o \in Obj : svc[o].cmd \in 0..procs
  /\ objects \in 0..MaxObjects
  /\ current \in 0..objects
  /\ proc \in [Proc -> {"none", "alive", "exited", "reaped", "lost"}]
  /\ owner \in [Proc -> Obj \cup {0}]
  /\ procs \in 0..MaxProcs
  /\ \A p \in Proc : p > procs <=> proc[p] = "none"
  /\ killed \in SUBSET Proc
  /\ timers \in [Timer -> [Proc -> Nat]]
  /\ lock \in SUBSET Handler
  /\ pc \in [Task -> {"idle", "do", "found", "flagged", "waiting", "done", "error"}]
  /\ ref \in [Task -> Obj \cup {0}]
  /\ flag \in SUBSET StartTask
  /\ dying \in SUBSET StartTask
  /\ launched \in [StartTask -> Nat]
  /\ shutdown \in BOOLEAN
  /\ aborts \in 0..MaxAborts
  /\ checks \in 0..MaxCheckFailures
  /\ restarts \in 0..MaxRestarts

Init ==
  /\ svc = [o \in Obj |-> NewService]
  /\ objects = 0
  /\ current = 0
  /\ proc = [p \in Proc |-> "none"]
  /\ owner = [p \in Proc |-> 0]
  /\ procs = 0
  /\ killed = {}
  /\ timers = [k \in Timer |-> [p \in Proc |-> 0]]
  /\ lock = {}
  /\ pc = [t \in Task |-> "idle"]
  /\ ref = [t \in Task |-> 0]
  /\ flag = {}
  /\ dying = {}
  /\ launched = [t \in StartTask |-> 0]
  /\ shutdown = FALSE
  /\ aborts = 0
  /\ checks = 0
  /\ restarts = 0

-----------------------------------------------------------------------------
(***************************************************************************)
(* Helpers.                                                                *)
(***************************************************************************)
\* servicesLock is free, or held by me while I wait for room in a channel.
MayLock(me) == lock \subseteq {me}

\* transition: any state change ends a restart but the one to killing.
Moved(d, s) == [d EXCEPT !.st = s, !.restarting = FALSE]

\* Mutant: a timer that is pending, for whichever process, is not armed again.
ArmedIfNone(k, p) ==
  IF \E q \in Proc : timers[k][q] > 0 THEN timers ELSE [timers EXCEPT ![k][p] = 1]

Armed(k, p) == [timers EXCEPT ![k][p] = @ + 1]
Elapsed(k, p) == [timers EXCEPT ![k][p] = @ - 1]

\* Timer k elapses, armed while process p was current.
Elapses(k, p) ==
  /\ MayLock(<<k, p>>)
  /\ timers[k][p] > 0

StartedRoom(o) == Len(svc[o].started) < StartedCap
StoppedRoom(o) == Len(svc[o].stopped) < StoppedCap

\* Mutants: only one kind of result is sent.
SendStartedOkOnly(d, r) ==
  IF r = "ok" THEN [d EXCEPT !.started = Append(@, r)] ELSE d
SendStoppedErrOnly(d, r) ==
  IF r = "err" THEN [d EXCEPT !.stopped = Append(@, r)] ELSE d

SendStarted(d, r) == [d EXCEPT !.started = Append(@, r)]
SendStopped(d, r) == [d EXCEPT !.stopped = Append(@, r)]

Goto(t, l) == pc' = [pc EXCEPT ![t] = l]

\* syscall.Kill with SIGKILL; an error (the process is gone) is only logged.
SendKill(p) == killed' = IF proc[p] = "alive" THEN killed \cup {p} ELSE killed

(***************************************************************************)
(* startInternal: the command is started for object o, which moves to      *)
(* state s; the backoff reset timer is armed besides the timers T.         *)
(***************************************************************************)
NextProc == procs + 1

StartInternal(o, s, T) ==
  /\ procs < MaxProcs
  /\ procs' = NextProc
  /\ proc' = [proc EXCEPT ![NextProc] = "alive"]
  /\ owner' = [owner EXCEPT ![NextProc] = o]
  /\ svc' = [svc EXCEPT ![o] = Moved([@ EXCEPT !.cmd = NextProc], s)]
  /\ timers' = [T EXCEPT !["reset"][NextProc] = @ + 1]
  /\ UNCHANGED killed

\* Mutant: the next backoff time is not clamped.
CalculateNextBackoffUnclamped(time) ==
  IF time = 0 THEN BackoffDelay
  ELSE IF time >= BackoffLimit THEN BackoffLimit
  ELSE time * BackoffFactor

CalculateNextBackoff(time) ==
  IF time = 0 THEN BackoffDelay
  ELSE IF time >= BackoffLimit THEN BackoffLimit
  ELSE IF time * BackoffFactor < BackoffLimit THEN time * BackoffFactor
  ELSE BackoffLimit

\* doBackoff: the new data; the caller arms the backoff timer.
BackedOff(d) ==
  Moved([d EXCEPT !.backoffTime = CalculateNextBackoff(@)], "backoff")

-----------------------------------------------------------------------------
(***************************************************************************)
(* Start tasks (doStart).                                                  *)
(***************************************************************************)
Request(t) ==
  /\ ~shutdown
  /\ pc[t] = "idle"
  /\ Goto(t, "do")
  /\ UNCHANGED <<svc, objects, current, procVars, timers, lock, ref, flag,
                 dying, launched, shutdown, boundVars>>

\* The task was running when the daemon was killed: it is not retried.
DoStartAgain(t) ==
  /\ pc[t] = "do"
  /\ t \in flag
  /\ Goto(t, "error")
  /\ UNCHANGED <<svc, objects, current, procVars, timers, lock, ref, flag,
                 dying, launched, shutdown, boundVars>>

\* The states a start is allowed in (initial, starting and running need none).
\* Mutant: a service that is stopping may be started.
StartAllowedInactive == {"backoff", "stopped", "exited", "terminating", "killing"}

StartAllowed == {"backoff", "stopped", "exited"}

\* serviceForStart
ServiceForStart(t) ==
  /\ lock = {}
  /\ pc[t] = "do"
  /\ t \notin flag
  /\ IF current = 0
     THEN /\ objects < MaxObjects
          /\ objects' = objects + 1
          /\ current' = objects + 1
          /\ svc' = [svc EXCEPT ![objects + 1] = NewService]
          /\ Goto(t, "found")
     ELSE /\ svc' = IF svc[current].st \in StartAllowed
                    THEN [svc EXCEPT ![current] =
                            Moved([@ EXCEPT !.backoffTime = 0], "initial")]
                    ELSE svc
          /\ IF svc[current].st \in {"initial", "starting", "running"}
             THEN Goto(t, "done") ELSE Goto(t, "found")
          /\ UNCHANGED <<objects, current>>
  /\ ref' = [ref EXCEPT ![t] = current']
  /\ UNCHANGED <<procVars, timers, lock, flag, dying, launched, shutdown,
                 boundVars>>

SetStarted(t) == flag' = flag \cup {t}

DoStartFlag(t) ==
  /\ pc[t] = "found"
  /\ SetStarted(t)
  /\ Goto(t, "flagged")
  /\ UNCHANGED <<svc, objects, current, procVars, timers, lock, ref, dying,
                 launched, shutdown, boundVars>>

\* start
Start(t) ==
  LET o == ref[t]
  IN /\ lock = {}
     /\ pc[t] = "flagged"
     /\ svc[o].st = "initial"
     /\ StartInternal(o, "starting", Armed("okay", NextProc))
     /\ launched' = [launched EXCEPT ![t] = @ + 1]
     /\ Goto(t, "waiting")
     /\ UNCHANGED <<objects, current, lock, ref, flag, dying, shutdown,
                    boundVars>>

StartFails(t) ==
  LET o == ref[t]
  IN /\ lock = {}
     /\ pc[t] = "flagged"
     /\ \/ svc[o].st = "initial" /\ StartMayFail
           /\ svc' = [svc EXCEPT ![o] = Moved(@, "stopped")]
        \/ svc[o].st # "initial" /\ svc' = svc
     /\ Goto(t, "error")
     /\ UNCHANGED <<objects, current, procVars, timers, lock, ref, flag, dying,
                    launched, shutdown, boundVars>>

\* The select of doStart: a result arrives, or the tomb of the task is killed.
StartResult(t) ==
  LET o == ref[t]
  IN /\ pc[t] = "waiting"
     /\ svc[o].started # <<>>
     /\ Goto(t, IF Head(svc[o].started) = "ok" THEN "done" ELSE "error")
     /\ svc' = [svc EXCEPT ![o].started = Tail(@)]
     /\ UNCHANGED <<objects, current, procVars, timers, lock, ref, flag, dying,
                    launched, shutdown, boundVars>>

StartDying(t) ==
  LET o == ref[t]
  IN /\ lock = {}
     /\ pc[t] = "waiting"
     /\ t \in dying
     /\ svc' = [svc EXCEPT ![o] = Moved(@, "stopped")]
     /\ SendKill(svc[o].cmd)
     /\ Goto(t, "error")
     /\ UNCHANGED <<objects, current, proc, owner, procs, timers, lock, ref,
                    flag, dying, launched, shutdown, boundVars>>

(***************************************************************************)
(* A user aborts the change of a start task, or the runner stops.          *)
(***************************************************************************)
Abort(t) ==
  /\ pc[t] \in {"found", "flagged", "waiting"}
  /\ t \notin dying
  /\ aborts < MaxAborts
  /\ aborts' = aborts + 1
  /\ dying' = dying \cup {t}
  /\ UNCHANGED <<svc, objects, current, procVars, timers, lock, pc, ref, flag,
                 launched, shutdown, checks, restarts>>

-----------------------------------------------------------------------------
(***************************************************************************)
(* Stop tasks (doStop); the death of their tomb is only logged.            *)
(***************************************************************************)
ServiceForStop(t) ==
  /\ lock = {}
  /\ pc[t] = "do"
  /\ Goto(t, IF current = 0 \/ svc[current].st \in
                  {"terminating", "killing", "stopped", "exited"}
             THEN "done" ELSE "found")
  /\ svc' = IF current # 0 /\ svc[current].st = "exited"
            THEN [svc EXCEPT ![current] = Moved(@, "stopped")] ELSE svc
  /\ ref' = [ref EXCEPT ![t] = current]
  /\ UNCHANGED <<objects, current, procVars, timers, lock, flag, dying,
                 launched, shutdown, boundVars>>

\* stop, of a service with a process: SIGTERM is sent
Stop(t) ==
  LET o == ref[t]
  IN /\ MayLock(<<"stop", t>>)
     /\ pc[t] = "found"
     /\ \/ svc[o].st = "running" /\ svc' = [svc EXCEPT ![o] = Moved(@, "terminating")]
        \/ /\ svc[o].st = "starting"
           /\ StartedRoom(o)
           /\ svc' = [svc EXCEPT ![o] = Moved(SendStarted(@, "err"), "terminating")]
     /\ timers' = Armed("terminate", svc[o].cmd)
     /\ lock' = {}
     /\ Goto(t, "waiting")
     /\ UNCHANGED <<objects, current, procVars, ref, flag, dying, launched,
                    shutdown, boundVars>>

StopBackoff(t) ==
  LET o == ref[t]
  IN /\ MayLock(<<"stop", t>>)
     /\ pc[t] = "found"
     /\ svc[o].st = "backoff"
     /\ StoppedRoom(o)
     /\ svc' = [svc EXCEPT ![o] = Moved(SendStopped(@, "ok"), "stopped")]
     /\ lock' = {}
     /\ Goto(t, "waiting")
     /\ UNCHANGED <<objects, current, procVars, timers, ref, flag, dying,
                    launched, shutdown, boundVars>>

StopFails(t) ==
  /\ lock = {}
  /\ pc[t] = "found"
  /\ svc[ref[t]].st \notin {"starting", "running", "backoff"}
  /\ Goto(t, "error")
  /\ UNCHANGED <<svc, objects, current, procVars, timers, lock, ref, flag,
                 dying, launched, shutdown, boundVars>>

StopResult(t) ==
  LET o == ref[t]
  IN /\ pc[t] = "waiting"
     /\ svc[o].stopped # <<>>
     /\ Goto(t, IF Head(svc[o].stopped) = "ok" THEN "done" ELSE "error")
     /\ svc' = [svc EXCEPT ![o].stopped = Tail(@)]
     /\ UNCHANGED <<objects, current, procVars, timers, lock, ref, flag, dying,
                    launched, shutdown, boundVars>>

-----------------------------------------------------------------------------
(***************************************************************************)
(* Processes.  ProcessExit is the operating system: a process ends, by     *)
(* itself or after a signal.  exited then runs in its goroutine.           *)
(***************************************************************************)
ProcessExit(p) ==
  /\ proc[p] = "alive"
  /\ proc' = [proc EXCEPT ![p] = "exited"]
  /\ UNCHANGED <<svc, objects, current, owner, procs, killed, timers, lock,
                 taskVars, shutdown, boundVars>>

\* What the on-success or on-failure action makes of the service.
AfterExit(d, action, success) ==
  CASE action = "restart" -> BackedOff(d)
    [] action = "ignore" /\ success -> Moved(d, "stopped")
    [] OTHER -> Moved(d, "exited")

\* The timers after exited: its reset timer is stopped, a backoff is armed.
TimersAfterExit(c, backoff) ==
  [timers EXCEPT !["reset"][c] = 0, !["backoff"][c] = IF backoff THEN @ + 1 ELSE @]

Reaps(p) ==
  /\ MayLock(<<"exited", p>>)
  /\ proc[p] = "exited"
  /\ proc' = [proc EXCEPT ![p] = "reaped"]
  /\ lock' = {}
  /\ UNCHANGED <<objects, current, owner, procs, killed, taskVars, shutdown,
                 boundVars>>

ExitedUnexpectedly(p, action, success) ==
  LET o == owner[p]
      d == svc[o]
  IN /\ Reaps(p)
     /\ \/ /\ d.st = "starting"
           /\ StartedRoom(o)
           /\ svc' = [svc EXCEPT ![o] =
                        AfterExit(SendStarted(d, "err"), action, success)]
        \/ /\ d.st = "running"
           /\ svc' = [svc EXCEPT ![o] = AfterExit(d, action, success)]
     /\ timers' = TimersAfterExit(d.cmd, action = "restart")

ExitedStopping(p) ==
  LET o == owner[p]
      d == svc[o]
  IN /\ Reaps(p)
     /\ d.st \in {"terminating", "killing"}
     /\ \/ /\ d.restarting
           /\ svc' = [svc EXCEPT ![o] = BackedOff(d)]
        \/ /\ ~d.restarting
           /\ StoppedRoom(o)
           /\ svc' = [svc EXCEPT ![o] = Moved(SendStopped(d, "ok"), "stopped")]
     /\ timers' = TimersAfterExit(d.cmd, d.restarting)

\* Ignored when stopped, an internal error that is only logged otherwise.
ExitedIgnored(p) ==
  /\ Reaps(p)
  /\ svc[owner[p]].st \in {"stopped", "initial", "backoff", "exited"}
  /\ timers' = TimersAfterExit(svc[owner[p]].cmd, FALSE)
  /\ UNCHANGED svc

-----------------------------------------------------------------------------
(***************************************************************************)
(* Timers.  Each ignores every state but its own.                          *)
(***************************************************************************)
OkayWaitElapsed(p) ==
  LET o == owner[p]
  IN /\ Elapses("okay", p)
     /\ \/ /\ svc[o].st = "starting"
           /\ StartedRoom(o)
           /\ svc' = [svc EXCEPT ![o] = Moved(SendStarted(@, "ok"), "running")]
        \/ svc[o].st # "starting" /\ svc' = svc
     /\ timers' = Elapsed("okay", p)
     /\ lock' = {}
     /\ UNCHANGED <<objects, current, procVars, taskVars, shutdown, boundVars>>

BackoffTimeElapsed(p) ==
  LET o == owner[p]
  IN /\ Elapses("backoff", p)
     /\ svc[o].st = "backoff"
     /\ StartInternal(o, "running", Elapsed("backoff", p))
     /\ UNCHANGED <<objects, current, lock, taskVars, shutdown, boundVars>>

\* The backoff is over already, or the command cannot be started: an error is
\* logged and the service stays in backoff.
BackoffTimeIgnored(p) ==
  /\ Elapses("backoff", p)
  /\ svc[owner[p]].st = "backoff" => StartMayFail
  /\ timers' = Elapsed("backoff", p)
  /\ UNCHANGED <<svc, objects, current, procVars, lock, taskVars, shutdown,
                 boundVars>>

TerminateTimeElapsed(p) ==
  LET o == owner[p]
      d == svc[o]
  IN /\ Elapses("terminate", p)
     /\ IF d.st = "terminating"
        THEN /\ SendKill(d.cmd)
             /\ svc' = [svc EXCEPT ![o].st = "killing"]
             /\ timers' = [Elapsed("terminate", p) EXCEPT !["kill"][d.cmd] = @ + 1]
        ELSE UNCHANGED <<killed, svc>> /\ timers' = Elapsed("terminate", p)
     /\ UNCHANGED <<objects, current, proc, owner, procs, lock, taskVars,
                    shutdown, boundVars>>

\* If processes are killable, each that exited or was sent SIGKILL is reaped
\* before the failDelay of the kill timer is over.
KillDue ==
  Killable => \A q \in Proc :
                proc[q] # "exited" /\ (q \in killed => proc[q] # "alive")

KillTimeElapsed(p) ==
  LET o == owner[p]
      d == svc[o]
  IN /\ Elapses("kill", p)
     /\ KillDue
     /\ \/ /\ d.st = "killing"
           /\ d.restarting
           /\ svc' = [svc EXCEPT ![o] = Moved(@, "stopped")]
        \/ /\ d.st = "killing"
           /\ ~d.restarting
           /\ StoppedRoom(o)
           /\ svc' = [svc EXCEPT ![o] = Moved(SendStopped(@, "err"), "stopped")]
        \/ d.st # "killing" /\ svc' = svc
     /\ timers' = Elapsed("kill", p)
     /\ lock' = {}
     /\ UNCHANGED <<objects, current, procVars, taskVars, shutdown, boundVars>>

BackoffResetElapsed(p) ==
  LET o == owner[p]
  IN /\ Elapses("reset", p)
     /\ svc' = IF svc[o].st = "running"
               THEN [svc EXCEPT ![o].backoffTime = 0] ELSE svc
     /\ timers' = Elapsed("reset", p)
     /\ UNCHANGED <<objects, current, procVars, lock, taskVars, shutdown,
                    boundVars>>

(***************************************************************************)
(* A handler that must send on a full channel blocks with the lock held.   *)
(***************************************************************************)
Sends(me, o, chan) ==
  /\ IF chan = "started" THEN ~StartedRoom(o) ELSE ~StoppedRoom(o)
  /\ lock' = {me}

Block ==
  /\ lock = {}
  /\ \/ \E p \in Proc :
          LET d == svc[owner[p]]
          IN \/ /\ timers["okay"][p] > 0
                /\ d.st = "starting"
                /\ Sends(<<"okay", p>>, owner[p], "started")
             \/ /\ proc[p] = "exited"
                /\ d.st = "starting"
                /\ Sends(<<"exited", p>>, owner[p], "started")
             \/ /\ proc[p] = "exited"
                /\ d.st \in {"terminating", "killing"} /\ ~d.restarting
                /\ Sends(<<"exited", p>>, owner[p], "stopped")
             \/ /\ timers["kill"][p] > 0
                /\ KillDue
                /\ d.st = "killing" /\ ~d.restarting
                /\ Sends(<<"kill", p>>, owner[p], "stopped")
     \/ \E t \in StopTask :
          /\ pc[t] = "found"
          /\ \/ /\ svc[ref[t]].st = "starting"
                /\ Sends(<<"stop", t>>, ref[t], "started")
             \/ /\ svc[ref[t]].st = "backoff"
                /\ Sends(<<"stop", t>>, ref[t], "stopped")
  /\ UNCHANGED <<svc, objects, current, procVars, timers, taskVars, shutdown,
                 boundVars>>

-----------------------------------------------------------------------------
(***************************************************************************)
(* A failed check whose action is restart; the other actions leave the     *)
(* service as it is, and so does a service in any other state.             *)
(***************************************************************************)
CheckFailed ==
  LET d == svc[current]
  IN /\ lock = {}
     /\ checks < MaxCheckFailures
     /\ current # 0
     /\ \/ /\ d.st = "running"
           /\ svc' = [svc EXCEPT ![current] =
                        [@ EXCEPT !.st = "terminating", !.restarting = TRUE]]
           /\ timers' = Armed("terminate", d.cmd)
        \/ /\ d.st = "exited"
           /\ svc' = [svc EXCEPT ![current] = BackedOff(d)]
           /\ timers' = Armed("backoff", d.cmd)
     /\ checks' = checks + 1
     /\ UNCHANGED <<objects, current, procVars, lock, taskVars, shutdown,
                    aborts, restarts>>

\* Prune forgets a service whose status is inactive, when old or one too many.
Prune ==
  /\ lock = {}
  /\ current # 0
  /\ svc[current].st \in {"terminating", "killing", "stopped"}
  /\ current' = 0
  /\ UNCHANGED <<svc, objects, procVars, timers, lock, taskVars, shutdown,
                 boundVars>>

(***************************************************************************)
(* The daemon shuts down: servicesToStop lists the service if it is        *)
(* starting, running or in backoff, and a stop task is made for it.        *)
(***************************************************************************)

ToStop == {"starting", "running", "backoff"}

StopRunning ==
  /\ lock = {}
  /\ ~shutdown
  /\ shutdown' = TRUE
  /\ IF current # 0 /\ svc[current].st \in ToStop
     THEN \E t \in StopTask : pc[t] = "idle" /\ Goto(t, "do")
     ELSE UNCHANGED pc
  /\ UNCHANGED <<svc, objects, current, procVars, timers, lock, ref, flag,
                 dying, launched, boundVars>>

(***************************************************************************)
(* The daemon is killed and starts again: the task state was saved, the    *)
(* services are forgotten and their processes are no longer its children.  *)
(* A task being aborted is not run again.                                  *)
(***************************************************************************)
Restart ==
  /\ restarts < MaxRestarts
  /\ restarts' = restarts + 1
  /\ svc' = [o \in Obj |-> NewService]
  /\ objects' = 0
  /\ current' = 0
  /\ proc' = [p \in Proc |-> IF proc[p] \in {"alive", "exited"} THEN "lost"
                             ELSE proc[p]]
  /\ timers' = [k \in Timer |-> [p \in Proc |-> 0]]
  /\ lock' = {}
  /\ pc' = [t \in Task |-> IF t \in dying THEN "error"
                           ELSE IF pc[t] \in {"found", "flagged", "waiting"}
                           THEN "do" ELSE pc[t]]
  /\ ref' = [t \in Task |-> 0]
  /\ dying' = {}
  /\ shutdown' = FALSE
  /\ UNCHANGED <<owner, procs, killed, flag, launched, aborts, checks>>

-----------------------------------------------------------------------------
StartStep(t) ==
  \/ DoStartAgain(t) \/ ServiceForStart(t) \/ DoStartFlag(t) \/ Start(t)
  \/ StartFails(t) \/ StartResult(t) \/ StartDying(t)

StopStep(t) ==
  \/ ServiceForStop(t) \/ Stop(t) \/ StopBackoff(t) \/ StopFails(t)
  \/ StopResult(t)

Exited(p) ==
  \/ \E action \in ExitActions, success \in BOOLEAN :
       ExitedUnexpectedly(p, action, success)
  \/ ExitedStopping(p)
  \/ ExitedIgnored(p)

TimerElapses(p) ==
  \/ OkayWaitElapsed(p) \/ BackoffTimeElapsed(p) \/ BackoffTimeIgnored(p)
  \/ TerminateTimeElapsed(p) \/ KillTimeElapsed(p) \/ BackoffResetElapsed(p)

Next ==
  \/ \E t \in Task : Request(t)
  \/ \E t \in StartTask : StartStep(t)
  \/ \E t \in StartTask : Abort(t)
  \/ \E t \in StopTask : StopStep(t)
  \/ \E p \in Proc : ProcessExit(p)
  \/ \E p \in Proc : Exited(p)
  \/ \E p \in Proc : TimerElapses(p)
  \/ Block
  \/ CheckFailed
  \/ Prune
  \/ StopRunning
  \/ Restart

(***************************************************************************)
(* Fairness: a task that is running goes on, a timer elapses, the exit of  *)
(* a process is noticed and SIGKILL ends a process.  Nothing makes a       *)
(* process end by itself, a user act or a check fail.                      *)
(***************************************************************************)
Fairness ==
  /\ \A t \in StartTask : WF_vars(StartStep(t))
  /\ \A t \in StopTask : WF_vars(StopStep(t))
  /\ \A p \in Proc : WF_vars(Exited(p))
  /\ \A p \in Proc : WF_vars(p \in killed /\ ProcessExit(p))
  /\ \A p \in Proc :
       /\ WF_vars(OkayWaitElapsed(p))
       /\ WF_vars(BackoffTimeElapsed(p))
       /\ WF_vars(TerminateTimeElapsed(p))
       /\ WF_vars(KillTimeElapsed(p))

Spec == Init /\ [][Next]_vars
FairSpec == Spec /\ Fairness

-----------------------------------------------------------------------------
(***************************************************************************)
(* Properties.                                                             *)
(***************************************************************************)
Busy(o) == svc[o].st \in {"starting", "running", "terminating", "killing"}
Unreaped(p) == proc[p] \in {"alive", "exited"}

(***************************************************************************)
(* The state of a service tells what it runs: it has exactly one process,  *)
(* its current command, while it is starting, running, terminating or      *)
(* killing, and none otherwise.  So no second process is started beside a  *)
(* live one and none is left behind, as long as no start is aborted and    *)
(* SIGKILL works.                                                          *)
(***************************************************************************)
StateMatchesProcess ==
  \A o \in Obj :
    /\ Busy(o) => svc[o].cmd \in Proc /\ Unreaped(svc[o].cmd)
    /\ \A p \in Proc : Unreaped(p) /\ owner[p] = o => Busy(o) /\ p = svc[o].cmd

(***************************************************************************)
(* A state that only a timer leads out of has its timer pending, whatever  *)
(* other timers elapsed late, so a service never hangs in it: starting,    *)
(* terminating and killing always, backoff if commands can be started.     *)
(***************************************************************************)
TimersArmed ==
  \A o \in Obj :
    LET c == svc[o].cmd
    IN /\ svc[o].st = "starting" => timers["okay"][c] > 0
       /\ svc[o].st = "terminating" => timers["terminate"][c] > 0
       /\ svc[o].st = "killing" => timers["kill"][c] > 0
       /\ svc[o].st = "backoff" /\ ~StartMayFail => timers["backoff"][c] > 0

(***************************************************************************)
(* Every task that waits has exactly one result, sent already or owed by   *)
(* the state the service is in, and no result is sent that nobody waits    *)
(* for.  So a handler that blocks on a full channel, with servicesLock     *)
(* held, blocks only until a waiting task reads, and a later start or stop *)
(* never reads a result left over from an earlier one that is finished.    *)
(* A start that is aborted does not read its result: StopAcknowledged in   *)
(* the run with an abort shows what that leads to.                         *)
(***************************************************************************)
Waiting(T, o) == {t \in T : pc[t] = "waiting" /\ ref[t] = o}
Owed(b) == IF b THEN 1 ELSE 0

ResultsBalance ==
  aborts = 0 => \A o \in Obj :
    /\ Cardinality(Waiting(StartTask, o)) =
         Len(svc[o].started) + Owed(svc[o].st = "starting")
    /\ Cardinality(Waiting(StopTask, o)) =
         Len(svc[o].stopped)
           + Owed(svc[o].st \in {"terminating", "killing"} /\ ~svc[o].restarting)

(***************************************************************************)
(* A start task starts its service at most once, also when the daemon is   *)
(* killed while it runs and the task is run again.                         *)
(***************************************************************************)
StartedOnce == \A t \in StartTask : launched[t] <= 1

(***************************************************************************)
(* The backoff time only grows, up to backoff-limit, until it is reset.    *)
(***************************************************************************)
BackoffEscalates ==
  [][\A o \in Obj : LET old == svc[o].backoffTime
                        new == svc'[o].backoffTime
                    IN new # 0 => old <= new /\ new <= BackoffLimit]_vars

(***************************************************************************)
(* A stop that has signalled the service is always acknowledged, by the    *)
(* exit of the process or by killTimeElapsed: no stop task waits for ever. *)
(***************************************************************************)
StopAcknowledged ==
  \A t \in StopTask : pc[t] = "waiting" ~> pc[t] # "waiting"

(***************************************************************************)
(* A start that has started the command gets its result: the okay delay    *)
(* passes, the process exits or the service is stopped.                    *)
(***************************************************************************)
StartAcknowledged ==
  \A t \in StartTask : pc[t] = "waiting" ~> pc[t] # "waiting"

(***************************************************************************)
(* A service in backoff is started again (unless it is stopped, or started *)
(* by a user, first): backoff is never where it stays.                     *)
(***************************************************************************)
BackoffEnds ==
  \A o \in Obj : (svc[o].st = "backoff" /\ procs < MaxProcs)
                   ~> (svc[o].st # "backoff" \/ procs = MaxProcs)

(***************************************************************************)
(* Each start and each stop that waits is owed one result, and a start     *)
(* task starts its service once.                                           *)
(***************************************************************************)
ResultsSound == ResultsBalance /\ StartedOnce

(***************************************************************************)
(* No start and no stop waits for ever for its result.                     *)
(***************************************************************************)
RequestsAcknowledged == StopAcknowledged /\ StartAcknowledged

(***************************************************************************)
(* Backoff grows, and ends in another start.                               *)
(***************************************************************************)
BackoffRight == BackoffEscalates /\ BackoffEnds
=============================================================================
