------------------------------ MODULE BuildTest ------------------------------
(***************************************************************************)
(* One build-test request: the build task that runs snapcraft and the run  *)
(* task that runs spread (buildteststate), the websockets that stream      *)
(* their output, and the client that connects to them and waits for the    *)
(* result (client/buildtest.go).                                           *)
(*                                                                         *)
(* The change has two tasks in the default lane, the second waiting for    *)
(* the first, with cleanup handlers and no undo handlers: what the engine  *)
(* does with them is TaskRunner restricted to such a change.  Output is    *)
(* left out, except for the end of a stream; so are the terminal's size    *)
(* and signals.  Commands end: by themselves, when they are killed or by   *)
(* their timeout.                                                          *)
(***************************************************************************)
EXTENDS Integers, Sequences

CONSTANTS
  RequestOptions,   \* what clients may ask for
  MaxBuildRetries,  \* maxBuildRetries
  MaxAborts,        \* bound: how many times the change is aborted
  MaxRestarts       \* bound: how many times the daemon stops and starts again

Task == {"build", "run"}
Socket == {"stdout", "stderr", "stdio", "control"}

ASSUME BuildTestAssumption ==
  /\ RequestOptions \subseteq [interactive: BOOLEAN, terminal: BOOLEAN, stdout: BOOLEAN,
                               stderr: BOOLEAN, timeout: BOOLEAN]
  /\ MaxBuildRetries \in Nat
  /\ MaxAborts \in Nat
  /\ MaxRestarts \in Nat

VARIABLES
  opts,        \* what this client asked for
  status,      \* the status of each task
  clean,       \* the tasks whose cleanup has run
  handler,     \* the goroutine of each task
  setup,       \* the buildTestSetup in the state cache
  tarball,     \* whether the uploaded tarball is on disk
  tree,        \* what the temporary directory holds
  execution,   \* the executions registered since the daemon started
  registered,  \* the entry of each task in the manager's executions, or 0
  client,      \* the client
  spread,      \* what the directory held when spread was started, or "not run"
  stopping,    \* whether the task runner is being stopped
  aborts, restarts   \* counters for the bounds

changeVars == <<status, clean>>
diskVars == <<tarball, tree, spread>>
boundVars == <<aborts, restarts>>
vars == <<opts, changeVars, handler, setup, diskVars, execution, registered,
          client, stopping, boundVars>>

Status == {"Do", "Doing", "Abort", "Undo", "Hold", "Done", "Error"}
IsReady(s) == s \in {"Hold", "Done", "Error"}
Ready == \A t \in Task : IsReady(status[t])
\* Change.Err: the change is ready and a task failed.
Failed == Ready /\ \E t \in Task : status[t] = "Error"

Point == {"none", "begin", "extract", "register", "connect", "start", "running",
          "exited", "clean", "return", "return error"}
Tree == {"none", "source", "built"}

(***************************************************************************)
(* A buildTestExecution: the websockets it expects, those that are         *)
(* connected, those that the command's output goes to and those that were  *)
(* sent the "end" command.                                                 *)
(***************************************************************************)
Execution == [task: Task, sockets: SUBSET Socket, open: SUBSET Socket,
              served: SUBSET Socket, ended: SUBSET Socket]

(***************************************************************************)
(* The client has steps left to take.  found is the execution that the     *)
(* request being served has found, and streams are the ones it receives.   *)
(***************************************************************************)
ClientStep == [do: {"connect"}, task: Task, socket: Socket]
              \cup [do: {"poll", "wait", "flush"}]
Client == [todo: Seq(ClientStep), found: Nat, streams: SUBSET (Nat \X Socket),
           result: {"none", "ok", "error"}]

TypeOK ==
  /\ opts \in RequestOptions
  /\ status \in [Task -> Status]
  /\ clean \subseteq Task
  /\ handler \in [Task -> [pc: Point, dying: BOOLEAN, execution: Nat, ok: BOOLEAN]]
  /\ setup \in [known: BOOLEAN, retries: 0..MaxBuildRetries]
  /\ tarball \in BOOLEAN
  /\ tree \in Tree
  /\ execution \in Seq(Execution)
  /\ registered \in [Task -> Nat]
  /\ client \in Client
  /\ spread \in Tree \cup {"not run"}
  /\ stopping \in BOOLEAN
  /\ aborts \in 0..MaxAborts
  /\ restarts \in 0..MaxRestarts

NoHandler == [pc |-> "none", dying |-> FALSE, execution |-> 0, ok |-> FALSE]

(***************************************************************************)
(* What the client will do, from its options.  Without writers it only     *)
(* waits for the change (Client.BuildTest); with writers it connects to    *)
(* the build task, polls until the build is done, and connects to the run  *)
(* task (buildTestStreaming, buildTestInteractive).                        *)
(***************************************************************************)
When(b, socket) == IF b THEN <<socket>> ELSE <<>>
Wanted(o) ==
  IF o.interactive
  THEN <<"control", "stdio">> \o When(o.stderr, "stderr")
  ELSE When(o.stdout, "stdout") \o When(o.stderr, "stderr")

ConnectSteps(task, o) ==
  [i \in DOMAIN Wanted(o) |-> [do |-> "connect", task |-> task, socket |-> Wanted(o)[i]]]
Plain(do) == [do |-> do]

Script(o) ==
  IF Wanted(o) = <<>>
  THEN <<Plain("wait"), Plain("flush")>>
  ELSE ConnectSteps("build", o) \o <<Plain("poll")>> \o ConnectSteps("run", o)
       \o <<Plain("wait"), Plain("flush")>>

\* v1PostBuildTest has saved the tarball and made the change.
Init ==
  /\ opts \in RequestOptions
  /\ status = [t \in Task |-> "Do"]
  /\ clean = {}
  /\ handler = [t \in Task |-> NoHandler]
  /\ setup = [known |-> TRUE, retries |-> 0]
  /\ tarball = TRUE
  /\ tree = "none"
  /\ execution = <<>>
  /\ registered = [t \in Task |-> 0]
  /\ client = [todo |-> Script(opts), found |-> 0, streams |-> {}, result |-> "none"]
  /\ spread = "not run"
  /\ stopping = FALSE
  /\ aborts = 0
  /\ restarts = 0

-----------------------------------------------------------------------------
(***************************************************************************)
(* The task engine (TaskRunner).                                           *)
(***************************************************************************)
MayBegin(t) == ~stopping /\ handler[t].pc = "none"
EngineUnchanged == UNCHANGED <<opts, setup, diskVars, execution, registered, client,
                               stopping, boundVars>>

\* A run task that has not begun waits for the build task to be done.
MustWait(t) == t = "run" /\ status[t] = "Do" /\ status["build"] # "Done"

EnsureRun(t) ==
  /\ MayBegin(t)
  /\ status[t] \in {"Do", "Doing"}
  /\ ~MustWait(t)
  /\ status' = [status EXCEPT ![t] = "Doing"]
  /\ handler' = [handler EXCEPT ![t].pc = "begin"]
  /\ UNCHANGED clean
  /\ EngineUnchanged

EnsureKill(t) ==
  /\ ~stopping
  /\ handler[t].pc # "none"
  /\ status[t] = "Abort"
  /\ handler' = [handler EXCEPT ![t].dying = TRUE]
  /\ UNCHANGED changeVars
  /\ EngineUnchanged

EnsureTryUndo(t) ==
  /\ MayBegin(t)
  /\ status[t] = "Abort"
  /\ status' = [status EXCEPT ![t] = "Hold"]
  /\ UNCHANGED <<clean, handler>>
  /\ EngineUnchanged

EnsureCannotUndo(t) ==
  /\ MayBegin(t)
  /\ status[t] = "Undo"
  /\ t = "build" => IsReady(status["run"])
  /\ status' = [status EXCEPT ![t] = "Done"]
  /\ UNCHANGED <<clean, handler>>
  /\ EngineUnchanged

\* Mutant: only the tasks that are done are cleaned.
CleanupDone(t) ==
  /\ MayBegin(t)
  /\ Ready
  /\ t \notin clean
  /\ status[t] = "Done"
  /\ clean' = clean \cup {t}
  /\ setup' = IF t = "build" THEN [setup EXCEPT !.known = FALSE] ELSE setup
  /\ tree' = IF t = "run" THEN "none" ELSE tree
  /\ UNCHANGED <<opts, status, handler, tarball, spread, execution, registered,
                 client, stopping, boundVars>>

(***************************************************************************)
(* The cleanup handlers: the build's drops the setup from the cache, and   *)
(* the run's removes the directory.                                        *)
(***************************************************************************)
Cleanup(t) ==
  /\ MayBegin(t)
  /\ Ready
  /\ t \notin clean
  /\ clean' = clean \cup {t}
  /\ setup' = IF t = "build" THEN [setup EXCEPT !.known = FALSE] ELSE setup
  /\ tree' = IF t = "run" THEN "none" ELSE tree
  /\ UNCHANGED <<opts, status, handler, tarball, spread, execution, registered,
                 client, stopping, boundVars>>

AbortedStatus(s) ==
  CASE s = "Do" -> "Hold"
    [] s = "Doing" -> "Abort"
    [] s = "Done" -> "Undo"
    [] OTHER -> s

Aborted == [t \in Task |-> AbortedStatus(status[t])]

\* v1PostChange: a change that is ready is not aborted.
Abort ==
  /\ ~stopping
  /\ ~Ready
  /\ aborts < MaxAborts
  /\ aborts' = aborts + 1
  /\ status' = Aborted
  /\ UNCHANGED <<opts, clean, handler, setup, diskVars, execution, registered,
                 client, stopping, restarts>>

(***************************************************************************)
(* The handler returns: its execution is unregistered, and the runner      *)
(* applies the result.  An error aborts the lane, or is taken for a Retry  *)
(* while the runner stops.                                                 *)
(***************************************************************************)
Succeeded(t) == [status EXCEPT ![t] = IF @ = "Abort" THEN "Undo" ELSE "Done"]
Retried(t) == [status EXCEPT ![t] = IF @ = "Abort" THEN "Hold" ELSE @]
Errored(t) == [Aborted EXCEPT ![t] = "Error"]

HandlerReturns(t) ==
  /\ \/ handler[t].pc = "return" /\ status' = Succeeded(t)
     \/ /\ handler[t].pc = "return error"
        /\ status' = IF stopping THEN Retried(t) ELSE Errored(t)
  /\ handler' = [handler EXCEPT ![t] = NoHandler]
  /\ registered' = [registered EXCEPT ![t] = 0]
  /\ UNCHANGED <<opts, clean, setup, diskVars, execution, client, stopping,
                 boundVars>>

-----------------------------------------------------------------------------
(***************************************************************************)
(* doBuild and doRun.                                                      *)
(***************************************************************************)
At(t, point) == handler[t].pc = point
Goes(t, point) == handler' = [handler EXCEPT ![t].pc = point]
HandlerUnchanged == UNCHANGED <<opts, changeVars, client, stopping, boundVars>>

\* doBuild returns nil if the setup is not cached; doRun goes on without it.
Begin(t) ==
  /\ At(t, "begin")
  /\ Goes(t, IF t = "run" THEN "register"
             ELSE IF setup.known THEN "extract" ELSE "return")
  /\ UNCHANGED <<setup, diskVars, execution, registered>>
  /\ HandlerUnchanged

\* Making the directory or extracting the tarball may fail; the tarball is then kept.
Extract(t) ==
  /\ At(t, "extract")
  /\ \/ Goes(t, "register") /\ tree' = "source" /\ tarball' = FALSE
     \/ Goes(t, "return error") /\ UNCHANGED <<tree, tarball>>
  /\ UNCHANGED <<setup, spread, execution, registered>>
  /\ HandlerUnchanged

\* The session is interactive for the handler if the cached setup says so.
Interactive == setup.known /\ opts.interactive
Expected == IF Interactive THEN {"stdio", "stderr", "control"} ELSE {"stdout", "stderr"}

NewExecution(t) ==
  [task |-> t, sockets |-> Expected, open |-> {}, served |-> {}, ended |-> {}]

\* registerExecution: the new entry replaces the one of an earlier attempt.
RegisterExecution(t) ==
  /\ execution' = Append(execution, NewExecution(t))
  /\ registered' = [registered EXCEPT ![t] = Len(execution) + 1]
  /\ handler' = [handler EXCEPT ![t].pc = "connect",
                                ![t].execution = Len(execution) + 1]

Register(t) ==
  /\ At(t, "register")
  /\ RegisterExecution(t)
  /\ UNCHANGED <<setup, diskVars>>
  /\ HandlerUnchanged

\* All websockets but the control one are connected (ioConnected is closed).
IOConnected(x) == execution[x].sockets \ {"control"} \subseteq execution[x].open

(***************************************************************************)
(* The output of the command goes to stdout and stderr, or to stdio and    *)
(* stderr; with a terminal all of it goes to stdio.                        *)
(***************************************************************************)
Served(x) ==
  LET io == execution[x].sockets \ {"control"}
  IN IF "stdio" \in io /\ opts.terminal THEN {"stdio"} ELSE io

Serve(t, sockets) ==
  execution' = [execution EXCEPT ![handler[t].execution].served = sockets]

\* waitIOConnected returns: the command will stream its output.
Connected(t) ==
  /\ At(t, "connect")
  /\ IOConnected(handler[t].execution)
  /\ Serve(t, Served(handler[t].execution))
  /\ Goes(t, "start")
  /\ UNCHANGED <<setup, diskVars, registered>>
  /\ HandlerUnchanged

\* The connections were not made in time: the output is buffered, and an
\* interactive session fails.
ConnectTimeout(t) ==
  /\ At(t, "connect")
  /\ Goes(t, IF "stdio" \in execution[handler[t].execution].sockets
             THEN "return error" ELSE "start")
  /\ UNCHANGED <<setup, diskVars, execution, registered>>
  /\ HandlerUnchanged

\* The context of the command is done: the tomb was killed, or the timeout of the
\* request has passed.
MayBeCancelled(t) == handler[t].dying \/ (opts.timeout /\ setup.known)

\* The wait or the start fails because the context is done.
Cancelled(t) ==
  /\ At(t, "connect")
  /\ MayBeCancelled(t)
  /\ Goes(t, "return error")
  /\ UNCHANGED <<setup, diskVars, execution, registered>>
  /\ HandlerUnchanged

\* The end of every stream that is served.
EndStreams(t) ==
  execution' = [execution EXCEPT ![handler[t].execution].ended =
                                     execution[handler[t].execution].served]

\* reaper.StartCommand.
StartCommand(t) ==
  /\ At(t, "start")
  /\ tree # "none"
  /\ ~handler[t].dying
  /\ Goes(t, "running")
  /\ spread' = IF t = "run" THEN tree ELSE spread
  /\ UNCHANGED <<setup, tarball, tree, execution, registered>>
  /\ HandlerUnchanged

\* The command is not there, nor its directory, or the context is done.  The pipes
\* are closed, which ends the streams.
StartFails(t) ==
  /\ At(t, "start")
  /\ EndStreams(t)
  /\ Goes(t, "return error")
  /\ UNCHANGED <<setup, diskVars, registered>>
  /\ HandlerUnchanged

\* The command exits, with code 0 if ok.
Exits(t, ok) ==
  /\ At(t, "running")
  /\ handler' = [handler EXCEPT ![t].pc = "exited", ![t].ok = ok]
  /\ tree' = IF t = "build" /\ ok THEN "built" ELSE tree
  /\ UNCHANGED <<setup, tarball, spread, execution, registered>>
  /\ HandlerUnchanged

\* Mutant: the exit code of the second attempt is not looked at.
AfterExitRetried(t) ==
  IF t = "run" \/ handler[t].ok \/ setup.retries >= MaxBuildRetries THEN "return" ELSE "clean"

(***************************************************************************)
(* The output is sent and the result looked at: a context that is done is  *)
(* an error; a build that failed is tried again once.                      *)
(***************************************************************************)
AfterExit(t) ==
  IF t = "run" \/ handler[t].ok THEN "return"
  ELSE IF setup.retries < MaxBuildRetries THEN "clean" ELSE "return error"

OutputSent(t) ==
  /\ At(t, "exited")
  /\ EndStreams(t)
  /\ \/ ~handler[t].dying /\ Goes(t, AfterExit(t))
     \/ MayBeCancelled(t) /\ Goes(t, "return error")
  /\ UNCHANGED <<setup, diskVars, registered>>
  /\ HandlerUnchanged

\* runCleanCommand, whose failure is ignored, and the second attempt.
CleanAndRetry(t) ==
  /\ At(t, "clean")
  /\ tree' \in {tree, "source"}
  /\ setup' = [setup EXCEPT !.retries = @ + 1]
  /\ RegisterExecution(t)
  /\ UNCHANGED <<tarball, spread>>
  /\ HandlerUnchanged

-----------------------------------------------------------------------------
(***************************************************************************)
(* The client.                                                             *)
(***************************************************************************)
Step == client.todo[1]
Serving(do) == ~stopping /\ client.todo # <<>> /\ Step.do = do
ClientUnchanged == UNCHANGED <<opts, changeVars, handler, setup, diskVars,
                               registered, stopping, boundVars>>

Advanced == [client EXCEPT !.todo = Tail(@), !.found = 0]
Ended(result) == [client EXCEPT !.todo = <<>>, !.found = 0, !.result = result]

(***************************************************************************)
(* A websocket request that fails: an interactive client gives up on the   *)
(* build's control and stdio, and does not ask for the run's stderr        *)
(* without its stdio.  Any other failure is ignored.                       *)
(***************************************************************************)
Refused ==
  CASE opts.interactive /\ Step.task = "build" /\ Step.socket # "stderr" -> Ended("error")
    [] opts.interactive /\ Step.task = "run" /\ Step.socket = "stdio" /\ opts.stderr ->
         [Advanced EXCEPT !.todo = Tail(@)]
    [] OTHER -> Advanced

\* Connect has waited for the execution of the task (waitExecution).
FindExecution ==
  /\ Serving("connect")
  /\ client.found = 0
  /\ registered[Step.task] # 0
  /\ client' = [client EXCEPT !.found = registered[Step.task]]
  /\ UNCHANGED execution
  /\ ClientUnchanged

\* Mutant: Connect only looks for an error of the change.
ChangeFailed ==
  /\ Serving("connect")
  /\ client.found = 0
  /\ Failed
  /\ client' = Refused
  /\ UNCHANGED execution
  /\ ClientUnchanged

\* Connect sees the change ready first.
ChangeReady ==
  /\ Serving("connect")
  /\ client.found = 0
  /\ Ready
  /\ client' = Refused
  /\ UNCHANGED execution
  /\ ClientUnchanged

\* buildTestExecution.connect, on the execution that was found.
Connect ==
  LET x == client.found
      s == Step.socket
      known == s \in execution[x].sockets \ execution[x].open
      heard == IF s = "control" THEN {} ELSE {<<x, s>>}
  IN /\ Serving("connect")
     /\ x # 0
     /\ execution' = IF known THEN [execution EXCEPT ![x].open = @ \cup {s}]
                     ELSE execution
     /\ client' = IF known THEN [Advanced EXCEPT !.streams = @ \cup heard] ELSE Refused
     /\ ClientUnchanged

\* The client polls until the build is done or the change is ready.
Poll ==
  /\ Serving("poll")
  /\ \/ Failed /\ client' = Ended("error")
     \/ /\ ~Failed
        /\ status["build"] = "Done" \/ Ready
        /\ client' = Advanced
  /\ UNCHANGED execution
  /\ ClientUnchanged

\* WaitChange.
WaitChange ==
  /\ Serving("wait")
  /\ Ready
  /\ client' = IF Failed THEN Ended("error") ELSE Advanced
  /\ UNCHANGED execution
  /\ ClientUnchanged

\* The client waits for the end of every stream it receives.
Flush ==
  /\ Serving("flush")
  /\ \A st \in client.streams : st[2] \in execution[st[1]].ended
  /\ client' = Ended("ok")
  /\ UNCHANGED execution
  /\ ClientUnchanged

-----------------------------------------------------------------------------
\* Daemon.Stop, then TaskRunner.Stop: no request is served any more.
Stop ==
  /\ ~stopping
  /\ restarts < MaxRestarts
  /\ stopping' = TRUE
  /\ handler' = [t \in Task |-> [handler[t] EXCEPT !.dying = handler[t].pc # "none"]]
  /\ UNCHANGED <<opts, changeVars, setup, diskVars, execution, registered, client,
                 boundVars>>

(***************************************************************************)
(* The daemon has stopped, or is killed, and starts again: the change is   *)
(* in the state file, the cache and the executions are gone, and every     *)
(* connection is broken.  A request of the client that was being served    *)
(* fails; between two requests it does not notice.                         *)
(***************************************************************************)
Broken ==
  IF client.todo = <<>> \/ Step.do = "flush" THEN client
  ELSE IF Step.do = "connect" THEN Refused ELSE Ended("error")

DaemonRestart ==
  /\ restarts < MaxRestarts
  /\ restarts' = restarts + 1
  /\ stopping' = FALSE
  /\ handler' = [t \in Task |-> NoHandler]
  /\ setup' = [known |-> FALSE, retries |-> 0]
  /\ execution' = <<>>
  /\ registered' = [t \in Task |-> 0]
  /\ \E c \in {client, Broken} : client' = [c EXCEPT !.found = 0, !.streams = {}]
  /\ UNCHANGED <<opts, changeVars, diskVars, aborts>>

-----------------------------------------------------------------------------
Engine(t) ==
  \/ EnsureRun(t)
  \/ EnsureKill(t)
  \/ EnsureTryUndo(t)
  \/ EnsureCannotUndo(t)
  \/ Cleanup(t)

Handler(t) ==
  \/ Begin(t)
  \/ Extract(t)
  \/ Register(t)
  \/ Connected(t)
  \/ ConnectTimeout(t)
  \/ Cancelled(t)
  \/ StartCommand(t)
  \/ StartFails(t)
  \/ \E ok \in BOOLEAN : Exits(t, ok)
  \/ OutputSent(t)
  \/ CleanAndRetry(t)
  \/ HandlerReturns(t)

ClientActs ==
  \/ FindExecution
  \/ ChangeReady
  \/ Connect
  \/ Poll
  \/ WaitChange
  \/ Flush

Next ==
  \/ \E t \in Task : Engine(t) \/ Handler(t)
  \/ ClientActs
  \/ Abort
  \/ Stop
  \/ DaemonRestart

(***************************************************************************)
(* The overlord loop runs Ensure passes, goroutines are scheduled,         *)
(* commands end, and the client's process goes on.                         *)
(***************************************************************************)
Fairness ==
  /\ \A t \in Task : WF_vars(Engine(t)) /\ WF_vars(Handler(t))
  /\ WF_vars(ClientActs)

Spec == Init /\ [][Next]_vars
FairSpec == Spec /\ Fairness
-----------------------------------------------------------------------------
\* Without a restart of the daemon, spread runs only on a tree that snapcraft has
\* built: not after a failed attempt, an abort or a timeout (doBuild, mustWait).
RunNeedsBuild == spread \in {"built", "not run"} \/ restarts > 0

\* A client that reports success, of a change that nobody aborted, reports a run of
\* spread (buildTestStreaming, BuildTestProcess.Wait).
SuccessMeansRun == client.result = "ok" => spread # "not run" \/ aborts > 0

\* Every stream that the output of a command goes to has been ended when its
\* handler is done with it, whatever the attempt (runCommandPiped,
\* runCommandInteractive).
ServedStreamsEnd ==
  \A x \in DOMAIN execution :
    (\A t \in Task : handler[t].execution = x => handler[t].pc \in {"return", "return error"})
      => execution[x].served = execution[x].ended

\* The change always completes, and its directory and setup are then removed,
\* through failures, aborts, timeouts and restarts (the cleanups of NewManager).
ChangeCleaned ==
  []<>(stopping \/ (Ready /\ tree = "none" /\ ~setup.known))

\* No websocket request waits for ever for an execution that is never registered
\* (BuildTestManager.Connect).
ConnectEnds ==
  []<>(stopping \/ client.todo = <<>> \/ client.todo[1].do # "connect")

\* Wait returns once the build-test has finished (BuildTestProcess.Wait), unless the
\* client was given a stream that no output goes to: stderr with a terminal, or one that
\* connected when the other had not and the wait was over (waitIOConnected).
Deaf == \E st \in client.streams : st[2] \notin execution[st[1]].served
ClientReturns == []<>(stopping \/ client.todo = <<>> \/ Deaf)

\* What is reported is what ran, and a handler that is done has ended its streams.
ReportsTrue == TypeOK /\ RunNeedsBuild /\ SuccessMeansRun /\ ServedStreamsEnd

\* No client waits for ever.
ClientsGetOn == ConnectEnds /\ ClientReturns
=============================================================================
