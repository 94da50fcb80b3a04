------------------------------- MODULE Daemon -------------------------------
(***************************************************************************)
(* One process of the daemon from its start to its exit code: the overlord *)
(* and its ensure loop, the state engine, the goroutine that looks for a   *)
(* chance to stand by, the requests for a restart, one connection of the   *)
(* HTTP server, the shutdown sequence, the reboot, and the starts that     *)
(* follow an exit, a crash or a loss of power.                             *)
(*                                                                         *)
(* A scene bounds what the environment may do, so that a check adds up the *)
(* scenes instead of multiplying them.                                     *)
(***************************************************************************)
EXTENDS StateFile

CONSTANTS
  Interval,  \* ensureInterval, in ticks of the clock
  Delays,    \* the delays EnsureBefore is called with
  Scenes     \* bound: what the environment may do, see SceneType

RestartTypes == {"unset", "daemon", "socket", "system", "service-failure", "check-failure", "unknown"}

\* file: what the state file holds at first; persist; crashes: processes that
\* may end without warning; cuts: losses of power; trouble: file operations that
\* may fail; asks: the restarts the managers may ask for; waits: EnsureBefore
\* calls with a delay; signals; requests: API requests that may be made;
\* standby: systemd's notify socket is there; services: some are running; hold:
\* --hold; defaults: some service starts by default; enter: the subcommand of
\* "enter"; fails: a step of New, Init or Start may fail; starts: processes.
SceneType ==
  [file: Contents, persist: BOOLEAN, crashes: Nat, cuts: Nat, trouble: Nat,
   asks: SUBSET RestartTypes, waits: Nat, signals: Nat, requests: Nat,
   standby: BOOLEAN, services: BOOLEAN, hold: BOOLEAN,
   defaults: BOOLEAN, enter: {"no", "exec", "start"}, fails: BOOLEAN, starts: Nat]

\* A first file is one that was written and synced, and no program of level 2 or later has
\* left accounts under the old key alone.
ASSUME DaemonAssumption ==
  /\ Interval \in Nat \ {0} /\ Delays \subseteq 0..Interval
  /\ {"api", "auto", "stop"} \subseteq Changes
  /\ Level >= 2
  /\ \A s \in Scenes :
       /\ s.asks \subseteq RestartTypes /\ s.file \in Contents
       /\ s.file = Missing \/ (s.file.is = "whole" /\ s.file.synced)
       /\ s.file.s.legacy /\ ~s.file.s.idents => s.file.s.level < 2

VARIABLES
  scene,    \* what the environment may still do
  legacy,   \* history: the state file had accounts when the process started
  timer,    \* Overlord.ensureTimer and ensureNext: ticks to go, Off or Taken
  due,      \* ticks to go to the earliest pass that was asked for, Never if none
  loop,     \* where the goroutine of Overlord.loop is
  ran,      \* Overlord.ensureRun
  engine,   \* StateEngine: "made", "started", "stopped"
  standby,  \* where the goroutine of StandbyOpinions is
  aged,     \* standbyWait has passed since the start
  tomb,     \* the daemon's tomb: "alive", "killed", "failed"
  wanted,   \* Daemon.requestedRestart
  handler,  \* restart types a HandleRestart has read the tomb for
  stopping, \* the copy of requestedRestart that Stop took
  conn,     \* the connection: "none", "new", "active", "idle"
  serving,  \* the HTTP server: "no", "yes", "shut"
  running,  \* services are running
  signals,  \* signals in the channel of runDaemon
  asked,    \* history: restarts that HandleRestart was called with while alive
  late,     \* history: Shutdown gave up on a connection
  enter,    \* where the command "enter" is: "no" when the process is a plain "run"
  missed,   \* history: starts in a row that waited for a missing reboot
  exit      \* exit code of the last process

loopVars == <<timer, due, loop, ran, engine>>
restartVars == <<tomb, wanted, handler, stopping, asked>>
httpVars == <<conn, serving, late>>
standbyVars == <<standby, aged>>
otherVars == <<running, signals, enter, missed, exit, legacy, scene>>
vars == <<stateVars, loopVars, restartVars, httpVars, standbyVars, otherVars>>

Off == -2
Taken == -1
Never == -1
Alive == tomb = "alive"

-----------------------------------------------------------------------------
(* EnsureBefore and the ensure loop *)

Least(a, b) == IF a # Never /\ a <= b THEN a ELSE b

\* ensureBefore: the timer is only ever brought forward.  An expired timer is
\* left to the loop, or set to expire at once.
EnsureBefore(d) ==
  /\ timer' = IF timer = Off \/ timer = Taken THEN timer
              ELSE IF d < timer THEN d ELSE timer
  /\ due' = IF loop = "dead" THEN due ELSE Least(due, d)
  /\ UNCHANGED <<loop, ran, engine>>

\* ensureTimerReset
LoopReset ==
  /\ loop = "reset"
  /\ timer' = Interval /\ loop' = "ensure"
  /\ UNCHANGED <<due, ran, engine, stateVars, restartVars, httpVars, standbyVars, otherVars>>

\* What the managers make of the changes: the task runner starts tasks and
\* cleans changes that are ready.
Ensured(s) ==
  [s EXCEPT !.chg = [c \in Changes |-> CASE s.chg[c] = "Do" -> "Doing"
                                         [] s.chg[c] = "Ready" -> "Clean"
                                         [] OTHER -> s.chg[c]]]

\* StateEngine.Ensure calls every manager: what is asked for from now on needs
\* another pass.
LoopEnsure ==
  /\ loop = "ensure" /\ engine = "started"
  /\ IF Ensured(mem) # mem THEN Update("loop", Ensured(mem)) ELSE Look("loop")
  /\ loop' = "ensuring" /\ due' = Never
  /\ UNCHANGED <<main, timer, ran, engine, restartVars, httpVars, standbyVars, otherVars>>

\* Mutant: the timer is reset after the pass instead of before it.
LoopEnsuredLate ==
  /\ loop = "ensuring" /\ lock # "loop"
  /\ loop' = "idle" /\ ran' = TRUE /\ timer' = Interval
  /\ UNCHANGED <<due, engine, stateVars, restartVars, httpVars, standbyVars, otherVars>>

\* The managers have returned: ensureDidRun.
LoopEnsured ==
  /\ loop = "ensuring" /\ lock # "loop"
  /\ loop' = "idle" /\ ran' = TRUE
  /\ UNCHANGED <<timer, due, engine, stateVars, restartVars, httpVars, standbyVars, otherVars>>

\* The loop takes the value of the expired timer.
LoopTimer ==
  /\ loop = "idle" /\ timer = 0
  /\ timer' = Taken /\ loop' = "reset"
  /\ UNCHANGED <<due, ran, engine, stateVars, restartVars, httpVars, standbyVars, otherVars>>

\* The prune ticker: State.Prune drops a change that is over.
LoopPrune ==
  /\ loop = "idle"
  /\ \E c \in Changes : mem.chg[c] = "Clean" /\ Update("loop", [mem EXCEPT !.chg[c] = "none"])
  /\ loop' = "reset"
  /\ UNCHANGED <<main, timer, due, ran, engine, restartVars, httpVars, standbyVars, otherVars>>

\* A task that an Ensure started is done: it is saved and asks for a pass.
TaskDone(c) ==
  /\ engine = "started" /\ (ran \/ loop = "ensuring") /\ mem.chg[c] = "Doing"
  /\ Update("task", [mem EXCEPT !.chg[c] = "Ready"])
  /\ EnsureBefore(0)
  /\ running' = (running /\ c # "stop")
  /\ UNCHANGED <<main, restartVars, httpVars, standbyVars, signals, enter, missed, exit, legacy, scene>>

\* Some manager asks for a pass with a delay.
Waiter ==
  /\ engine = "started" /\ scene.waits > 0
  /\ \E d \in Delays : EnsureBefore(d)
  /\ scene' = [scene EXCEPT !.waits = @ - 1]
  /\ UNCHANGED <<stateVars, restartVars, httpVars, standbyVars, running, signals, enter, missed, exit, legacy>>

\* A tick of the clock; an expired timer is taken before the next.
Tick ==
  /\ main # "exited" /\ timer # 0
  /\ timer > 0 \/ (standby = "sleep" /\ ~aged)
  /\ timer' = IF timer > 0 THEN timer - 1 ELSE timer
  /\ due' = IF due > 0 THEN due - 1 ELSE due
  /\ aged' = (aged \/ standby # "none")
  /\ UNCHANGED <<loop, ran, engine, stateVars, restartVars, httpVars, standby, otherVars>>

-----------------------------------------------------------------------------
(* Restarts and standby *)

\* HandleRestart reads the tomb, without a lock.
HandleRestart(t) == handler' = (IF Alive THEN handler \cup {t} ELSE handler)
                    /\ asked' = (IF Alive THEN asked \cup {t} ELSE asked)

\* A manager asks for a restart: a service or a check whose action is a
\* shutdown, or an extension that wants a reboot.
AskRestart(t) ==
  /\ engine = "started" /\ loop # "dead" /\ t \in scene.asks
  /\ scene' = [scene EXCEPT !.asks = @ \ {t}]
  /\ HandleRestart(t)
  /\ IF t = "system" THEN Update("task", [mem EXCEPT !.from = boot])
                     ELSE UNCHANGED <<boot, persist, mem, modified, lock, fileVars>>
  /\ UNCHANGED <<main, loopVars, tomb, wanted, stopping, httpVars, standbyVars,
                 running, signals, enter, missed, exit, legacy>>

\* HandleRestart keeps the type, if it knows it, and kills the tomb.
KeepRestart(t) ==
  /\ t \in handler /\ handler' = handler \ {t}
  /\ wanted' = IF t = "unknown" THEN wanted ELSE t
  /\ tomb' = IF Alive THEN "killed" ELSE tomb
  /\ UNCHANGED <<stopping, asked, stateVars, loopVars, httpVars, standbyVars, otherVars>>

\* connTracker.trackConn keeps new and active connections.
ConnsTracked == conn \in {"new", "active"}

\* StandbyOpinions.CanStandby: the wait is over, no change is in flight, systemd
\* has the socket, nobody is connected, and an Ensure has run.
CanStandby ==
  /\ aged
  /\ \A c \in Changes : mem.chg[c] \in {"none", "Clean"}
  /\ scene.standby /\ ~ConnsTracked /\ ran

\* The goroutine of StandbyOpinions looks, with the state locked.
StandbyLook ==
  /\ standby = "look" /\ Look("standby")
  /\ standby' = IF CanStandby THEN "ask" ELSE "sleep"
  /\ UNCHANGED <<main, aged, loopVars, restartVars, httpVars, otherVars>>

\* It locks the state again to ask for the restart.
StandbyAsk ==
  /\ standby = "ask" /\ Look("standby")
  /\ HandleRestart("socket") /\ standby' = "sleep"
  /\ UNCHANGED <<main, aged, loopVars, tomb, wanted, stopping, httpVars, otherVars>>

\* Its timer expires; the wait doubles up to a maximum.
StandbyTimer ==
  /\ standby = "sleep" /\ aged /\ "socket" \notin handler /\ standby' = "look"
  /\ UNCHANGED <<aged, stateVars, loopVars, restartVars, httpVars, otherVars>>

\* It learns that it should stop.
StandbyStopped ==
  /\ standby = "sleep" /\ main = "wait for standby" /\ standby' = "stopped"
  /\ "socket" \notin handler
  /\ UNCHANGED <<aged, stateVars, loopVars, restartVars, httpVars, otherVars>>

-----------------------------------------------------------------------------
(* The HTTP server and one connection *)

RestOfHttp == UNCHANGED <<restartVars, standbyVars, running, signals, enter, missed, exit, legacy>>

Connect ==
  /\ serving = "yes" /\ conn = "none" /\ scene.requests > 0
  /\ conn' = "new" /\ scene' = [scene EXCEPT !.requests = @ - 1]
  /\ UNCHANGED <<serving, late, stateVars, loopVars>> /\ RestOfHttp

\* A request arrives on the connection, its answer ends, and the client goes.
ConnState ==
  /\ \/ conn = "new" /\ conn' = "active"
     \/ conn = "active" /\ lock # "api" /\ conn' = "idle"
     \/ conn = "idle" /\ conn' = "none"
  /\ UNCHANGED <<serving, late, scene, stateVars, loopVars>> /\ RestOfHttp

\* A handler makes a change and asks for a pass.
MakeChange ==
  /\ conn = "active" /\ mem.chg["api"] = "none"
  /\ Update("api", [mem EXCEPT !.chg["api"] = "Do"])
  /\ EnsureBefore(0)
  /\ UNCHANGED <<main, httpVars, scene>> /\ RestOfHttp

\* Serve returns an error of its own while the daemon is alive.
ServeFails ==
  /\ serving = "yes" /\ Alive /\ scene.fails
  /\ tomb' = "failed" /\ scene' = [scene EXCEPT !.fails = FALSE]
  /\ UNCHANGED <<wanted, handler, stopping, asked, stateVars, loopVars, httpVars, standbyVars,
                 running, signals, enter, missed, exit, legacy>>

-----------------------------------------------------------------------------
(* The start: overlord.New, Daemon.Init, Daemon.Start and runDaemon *)

MainRests == lock # "main"
RestOfMain == UNCHANGED <<standby, aged, legacy>>

\* A step of the start returns an error, and so does runDaemon.
StartFails ==
  /\ main \in {"loaded", "init"} /\ scene.fails
  /\ main' = "failed" /\ scene' = [scene EXCEPT !.fails = FALSE]
  /\ UNCHANGED <<loopVars, restartVars, httpVars, standbyVars, running, signals, enter, missed, exit, legacy>>
  /\ SameState

\* New: the managers are made and the plan is loaded, or a reboot is missing,
\* and Init listens on the socket.
NewDaemon ==
  /\ main \in {"loaded", "reboot is missing"} /\ MainRests
  /\ IF main = "loaded" THEN main' = "init" /\ missed' = 0
                        ELSE main' = "init without overlord" /\ missed' = missed + 1
  /\ UNCHANGED <<loopVars, restartVars, httpVars, running, signals, enter, exit, scene>>
  /\ RestOfMain /\ SameState

\* Start: the overlord starts up, the standby goroutine, the loop and the server
\* are started; without an overlord the tomb is killed.
StartDaemon ==
  /\ \/ /\ main = "init" /\ main' = "autostart"
        /\ engine' = "started" /\ timer' = Interval /\ loop' = "reset"
        /\ standby' = "look" /\ serving' = "yes" /\ UNCHANGED <<tomb, due, ran>>
     \/ /\ main = "init without overlord" /\ tomb' = "killed"
        /\ main' = "autostart without server"
        /\ UNCHANGED <<loopVars, standby, serving>>
  /\ UNCHANGED <<wanted, handler, stopping, asked, conn, late, aged, running, signals, enter,
                 missed, exit, legacy, scene>>
  /\ SameState

\* "enter" goes on with its subcommand once the run says that it is ready.
Ready(e) == IF e = "no" THEN "no" ELSE "command"

\* runDaemon asks its own server to start the default services, unless it holds
\* them; when there are none it only logs the error, and is never ready.
AutoStart ==
  /\ main = "autostart"
  /\ \/ /\ ~scene.hold /\ scene.defaults
        /\ Update("main", [mem EXCEPT !.chg["auto"] = "Do"]) /\ EnsureBefore(0)
        /\ enter' = IF enter = "no" THEN "no" ELSE "autostart"
     \/ /\ ~scene.hold /\ ~scene.defaults
        /\ SameState /\ UNCHANGED <<loopVars, enter>>
     \/ scene.hold /\ SameState /\ enter' = Ready(enter) /\ UNCHANGED loopVars
  /\ main' = "run"
  /\ UNCHANGED <<restartVars, httpVars, running, signals, missed, exit, scene>> /\ RestOfMain

\* Without a server nobody answers that request: runDaemon stays in it.
AutoStartUnanswered ==
  /\ main = "autostart without server"
  /\ main' = IF scene.hold THEN "run" ELSE "hung"
  /\ enter' = IF scene.hold THEN Ready(enter) ELSE enter
  /\ UNCHANGED <<loopVars, restartVars, httpVars, running, signals, missed, exit, scene>>
  /\ RestOfMain /\ SameState

RestOfEnter == UNCHANGED <<stateVars, loopVars, restartVars, httpVars, standbyVars, running,
                           signals, missed, exit, legacy, scene>>

\* The goroutine that waits for the autostart change tells "enter".
AutoStarted ==
  /\ enter = "autostart" /\ lock = NoOne
  /\ mem.chg["auto"] \in {"Ready", "Clean", "none"}
  /\ enter' = "command" /\ RestOfEnter

\* The subcommand returns: the daemon is stopped after it, or kept when it was to
\* start services and did not fail.
EnterCommand ==
  /\ enter = "command"
  /\ enter' \in (IF scene.enter = "start" THEN {"stop", "keep"} ELSE {"stop"})
  /\ RestOfEnter

Signal ==
  /\ scene.signals > 0 /\ main \notin {"off", "exited"}
  /\ signals' = signals + 1 /\ scene' = [scene EXCEPT !.signals = @ - 1]
  /\ UNCHANGED <<loopVars, restartVars, httpVars, standbyVars, running, enter, missed, exit, legacy>>
  /\ UNCHANGED stateVars

\* runDaemon leaves its loop on a signal, a dying tomb, or the end of "enter".
LeaveRun ==
  /\ main = "run" /\ MainRests
  /\ \/ signals > 0 /\ signals' = signals - 1
     \/ (~Alive \/ enter = "stop") /\ UNCHANGED signals
  /\ main' = IF engine = "made" THEN "reboot" ELSE "stop services"
  /\ UNCHANGED <<loopVars, restartVars, httpVars, running, enter, missed, exit, scene>>
  /\ RestOfMain /\ SameState

-----------------------------------------------------------------------------
(* Daemon.Stop *)

RestOfStop == RestOfMain /\ UNCHANGED <<signals, enter, missed, exit, scene>>

\* stopRunningServices: one change stops them all.
StopServices ==
  /\ main = "stop services"
  /\ \/ /\ running /\ mem.chg["stop"] = "none"
        /\ Update("main", [mem EXCEPT !.chg["stop"] = "Do"]) /\ EnsureBefore(0)
        /\ main' = "wait for services"
     \/ ~running /\ Look("main") /\ main' = "kill" /\ UNCHANGED loopVars
  /\ UNCHANGED <<restartVars, httpVars, running>> /\ RestOfStop

\* Mutant: the wait has no time-out.
ServicesStoppedOnly ==
  /\ main = "wait for services" /\ MainRests /\ mem.chg["stop"] \in {"Ready", "Clean"}
  /\ main' = "kill"
  /\ UNCHANGED <<loopVars, restartVars, httpVars, running>> /\ RestOfStop /\ SameState

\* It waits until the change is ready, or for the time-out.
ServicesStopped ==
  /\ main = "wait for services" /\ MainRests
  /\ main' = "kill"
  /\ UNCHANGED <<loopVars, restartVars, httpVars, running>> /\ RestOfStop /\ SameState

\* The tomb is killed, and requestedRestart is read.
KillTomb ==
  /\ main = "kill" /\ MainRests
  /\ tomb' = (IF Alive THEN "killed" ELSE tomb) /\ stopping' = wanted
  /\ main' = "wait for standby"
  /\ UNCHANGED <<loopVars, wanted, handler, asked, httpVars, running>> /\ RestOfStop /\ SameState

\* standbyOpinions.Stop waits for the goroutine; then the server shuts down:
\* it answers no new connection.
StandbyGone ==
  /\ main = "wait for standby" /\ standby = "stopped"
  /\ main' = "shutdown" /\ serving' = "shut" /\ conn' = (IF conn = "idle" THEN "none" ELSE conn)
  /\ UNCHANGED <<loopVars, restartVars, late, running>> /\ RestOfStop /\ SameState

\* Shutdown returns when no connection is active, or when its time is up, and
\* then its error is the reason the tomb died for.
ShutdownEnds ==
  /\ main = "shutdown"
  /\ \/ ~ConnsTracked /\ UNCHANGED <<tomb, late>>
     \/ ConnsTracked /\ tomb' = "failed" /\ late' = TRUE
  /\ main' = "decide"
  /\ UNCHANGED <<loopVars, wanted, handler, stopping, asked, conn, serving, running>>
  /\ RestOfStop /\ SameState

\* Mutant: the decision to stand by is not looked at again.
DecideAtOnce ==
  /\ main = "decide" /\ SameState /\ main' = "wait for loop"
  /\ UNCHANGED <<loopVars, restartVars, httpVars, running>> /\ RestOfStop

\* Before it stands by, it looks again whether a request made something to do.
Decide ==
  /\ main = "decide"
  /\ IF stopping = "socket"
       THEN /\ Look("main")
            /\ IF CanStandby THEN UNCHANGED <<stopping, wanted>>
                             ELSE stopping' = "daemon" /\ wanted' = "daemon"
       ELSE SameState /\ UNCHANGED <<stopping, wanted>>
  /\ main' = "wait for loop"
  /\ UNCHANGED <<loopVars, tomb, handler, asked, httpVars, running>> /\ RestOfStop

\* Overlord.Stop kills the loop, which leaves at its next select.
LoopDies ==
  /\ main = "wait for loop" /\ loop = "idle"
  /\ loop' = "dead" /\ due' = Never
  /\ UNCHANGED <<timer, ran, engine, stateVars, restartVars, httpVars, standbyVars, otherVars>>

\* StateEngine.Stop stops the managers in reverse order, and the tomb's
\* goroutines have returned.
EngineStops ==
  /\ main = "wait for loop" /\ loop = "dead" /\ lock # "task"
  /\ engine' = "stopped"
  /\ main' = IF stopping = "system" THEN "reboot" ELSE "end"
  /\ UNCHANGED <<timer, due, loop, ran, restartVars, httpVars, running>> /\ RestOfStop /\ SameState

\* doReboot: the time of the reboot is kept, and the reboot is asked for.
ScheduleReboot ==
  /\ main = "reboot"
  /\ IF mem.at THEN Look("main") ELSE Update("main", [mem EXCEPT !.at = TRUE])
  /\ main' = "rebooting"
  /\ UNCHANGED <<loopVars, restartVars, httpVars, running>> /\ RestOfStop

\* The exit code that run gives to what Stop returns.
ExitCode(s) == CASE s = "socket" -> 42
                 [] s = "service-failure" -> 10
                 [] s = "check-failure" -> 11
                 [] OTHER -> 0

\* The process ends: run turns the error of runDaemon into an exit code.
Ends(next, code) ==
  /\ ProcessEnds(next)
  /\ exit' = code
  /\ timer' = Off /\ due' = Never /\ loop' = "gate" /\ ran' = FALSE /\ engine' = "made"
  /\ tomb' = "alive" /\ wanted' = "unset" /\ handler' = {} /\ stopping' = "unset"
  /\ conn' = "none" /\ serving' = "no" /\ standby' = "none" /\ aged' = FALSE
  /\ signals' = 0 /\ enter' = "no"

\* "enter" panics when the daemon ends before its subcommand could run.
EarlyExit(code) == IF enter \in {"starting", "autostart"} /\ code = 0 THEN 2 ELSE code

\* A start that failed, a tomb with a reason, a reboot that did not come in
\* time, and an ordinary end.
RunReturns ==
  /\ MainRests
  /\ \/ main = "failed" /\ Ends("exited", 1)
     \/ main = "rebooting" /\ Ends("exited", IF signals > 0 THEN 0 ELSE 1)
     \/ main = "end" /\ Ends("exited", IF tomb = "failed" THEN 1
                                      ELSE EarlyExit(ExitCode(stopping)))
  /\ UNCHANGED <<file, durable, trouble, boot, persist, asked, late, missed, running, legacy, scene>>

\* systemd starts the daemon again.
StartProcess ==
  /\ main \in {"off", "exited"} /\ scene.starts > 0
  /\ main' = "load" /\ scene' = [scene EXCEPT !.starts = @ - 1]
  /\ asked' = {} /\ late' = FALSE /\ running' = scene.services
  /\ enter' = IF scene.enter = "no" THEN "no" ELSE "starting"
  /\ legacy' = (file.s.legacy \/ file.s.idents)
  /\ UNCHANGED <<boot, persist, mem, modified, lock, fileVars, loopVars, tomb, wanted, handler,
                 stopping, conn, serving, standbyVars, signals, missed, exit>>

-----------------------------------------------------------------------------
(* What happens to the process *)

\* Unlock gives up after its retries: the panic ends the process.
Panics ==
  /\ phase = "retry" /\ Ends("exited", 2)
  /\ UNCHANGED <<file, durable, trouble, boot, persist, asked, late, missed, running, legacy, scene>>

\* The process is killed.
Crash ==
  /\ main \notin {"off", "exited"} /\ scene.crashes > 0
  /\ Ends("off", 0) /\ scene' = [scene EXCEPT !.crashes = @ - 1]
  /\ UNCHANGED <<file, durable, trouble, boot, persist, asked, late, missed, running, legacy>>

\* The machine loses power.
Cut ==
  /\ scene.cuts > 0 /\ scene' = [scene EXCEPT !.cuts = @ - 1]
  /\ boot < Boots /\ boot' = boot + 1
  /\ PowerIsLost /\ Ends("off", 0)
  /\ UNCHANGED <<trouble, persist, asked, late, missed, running, legacy>>

\* The reboot that was scheduled comes.
SystemReboots ==
  /\ main = "rebooting" /\ boot < Boots /\ MainRests
  /\ boot' = boot + 1 /\ Ends("off", 0) /\ durable' = file
  /\ UNCHANGED <<file, trouble, persist, asked, late, missed, running, legacy, scene>>

-----------------------------------------------------------------------------
Init ==
  /\ scene \in Scenes
  /\ main = "off" /\ boot = 1 /\ persist = scene.persist
  /\ file = scene.file /\ durable = file /\ tmp = Missing /\ trouble = scene.trouble
  /\ mem = Blank /\ modified = FALSE /\ lock = NoOne /\ phase = "idle"
  /\ legacy = (file.s.legacy \/ file.s.idents)
  /\ timer = Off /\ due = Never /\ loop = "gate" /\ ran = FALSE /\ engine = "made"
  /\ standby = "none" /\ aged = FALSE
  /\ tomb = "alive" /\ wanted = "unset" /\ handler = {} /\ stopping = "unset" /\ asked = {}
  /\ conn = "none" /\ serving = "no" /\ late = FALSE
  /\ running = FALSE /\ signals = 0 /\ enter = "no" /\ missed = 0 /\ exit = 0

OfState == UNCHANGED <<loopVars, restartVars, httpVars, standbyVars, otherVars>>

Enter == AutoStarted \/ EnterCommand

Main ==
  \/ (Starting /\ OfState)
  \/ NewDaemon \/ StartDaemon \/ AutoStart \/ AutoStartUnanswered \/ LeaveRun
  \/ StopServices \/ ServicesStopped \/ KillTomb \/ StandbyGone \/ ShutdownEnds \/ Decide
  \/ EngineStops \/ ScheduleReboot \/ RunReturns
Loop == LoopReset \/ LoopEnsure \/ LoopEnsured \/ LoopTimer \/ LoopDies
StandbyLoop == StandbyLook \/ StandbyAsk \/ StandbyStopped
Saving == (Checkpoint /\ OfState) \/ Panics

Environment ==
  \/ StartFails \/ Signal \/ StartProcess \/ Crash \/ Cut \/ SystemReboots
  \/ LoopPrune \/ StandbyTimer \/ Waiter \/ Connect \/ ConnState \/ MakeChange \/ ServeFails
  \/ \E t \in RestartTypes : AskRestart(t)

Next == \/ Main \/ Loop \/ Enter \/ StandbyLoop \/ Saving \/ Environment \/ Tick
        \/ \E t \in RestartTypes : KeepRestart(t)
        \/ \E c \in Changes : TaskDone(c)

\* A runnable goroutine runs, a file operation ends, and a select that often
\* finds two of its channels ready takes each of them in the end.
Spec == Init /\ [][Next]_vars
        /\ WF_vars(Main) /\ WF_vars(Loop) /\ WF_vars(StandbyLoop) /\ WF_vars(Saving)
        /\ SF_vars(LoopDies) /\ SF_vars(StandbyStopped)
        /\ \A t \in RestartTypes : WF_vars(KeepRestart(t))

-----------------------------------------------------------------------------
(* Properties *)

Loaded == main \notin {"off", "exited", "load", "failed", "restart", "restart of a new state"}

TypeOK ==
  /\ file \in Contents /\ durable \in Contents /\ tmp \in Contents
  /\ mem \in Snapshots /\ phase \in Phases /\ boot \in 1..Boots
  /\ timer \in {Off, Taken} \cup 0..Interval /\ due \in {Never} \cup 0..Interval
  /\ wanted \in RestartTypes /\ stopping \in RestartTypes /\ handler \subseteq RestartTypes

\* Whatever moment a crash or a loss of power picks, the path of the state file
\* names nothing or one whole snapshot, never a part of one (AtomicFile.commit).
NeverPartial == \A c \in {file, durable} : c.is = "missing" \/ (c.is = "whole" /\ c.synced)

\* Once Unlock has returned, what the section wrote survives a loss of power:
\* "It does not return until the state is correctly checkpointed."
UnlockedIsDurable ==
  Loaded /\ persist /\ lock = NoOne /\ ~modified => Marshal(durable.s) = Marshal(mem)

\* A daemon waits for a missing reboot in at most three starts in a row, whatever
\* crashes come between them, and never once the system has rebooted
\* (RebootDidNotHappen, RestartManager.init).
AttemptsEnd ==
  /\ missed <= MaxTentatives
  /\ main \in {"reboot is missing", "init without overlord"} => mem.from = boot

\* The accounts that the file has when the daemon starts are there when it runs, with any
\* patches still to apply.  (A start that is cut short after its first checkpoint leaves a
\* file without those of an old version: Marshal.)
AccountsMigrated == main = "run" /\ engine = "started" /\ persist /\ legacy => mem.idents

\* The state file: a crash, a loss of power or a full disk never leaves the next
\* start with less than what an Unlock has acknowledged.
StateKept == TypeOK /\ NeverPartial /\ UnlockedIsDurable /\ AttemptsEnd /\ AccountsMigrated

\* A pass that was asked for within d comes within d: while the loop lives, it is
\* on its way to Ensure, or its timer expires no later (ensureBefore against
\* ensureTimerReset, in any order).
EnsureInTime ==
  due # Never /\ loop \notin {"gate", "dead"} =>
    \/ loop \in {"reset", "ensure"}
    \/ timer \in 0..due

\* The daemon stands by only when nothing is left to do: a change that a request
\* made after the decision turns the standby into a restart (Daemon.Stop).
StandsByIdle ==
  main = "end" /\ stopping = "socket" /\ tomb # "failed" =>
    ~ConnsTracked /\ \A c \in Changes : mem.chg[c] \in {"none", "Clean"}

\* The exit code tells why the daemon ended: 10, 11 and 42 are never given for
\* another reason than the one that was asked for, and the only restart that was
\* asked for is told unless a connection outlived the shutdown.
ExitTells ==
  /\ StandsByIdle
  /\ main = "exited" =>
       /\ exit = 10 => "service-failure" \in asked
       /\ exit = 11 => "check-failure" \in asked
       /\ exit = 42 => "socket" \in asked
  /\ \A t \in {"service-failure", "check-failure"} :
       main = "end" /\ asked = {t} /\ handler = {} /\ stopping = wanted /\ ~late /\ tomb # "failed"
         => ExitCode(stopping) = ExitCode(t)

\* Once Stop has begun, the process ends, whatever requests, tasks, the standby
\* goroutine and the ensure loop are doing (the comment of Daemon.Stop on the
\* deadlock it avoids).
StopEnds == (main = "stop services") ~> (main \in {"exited", "off"})
=============================================================================
