-------------------------------- MODULE Exec --------------------------------
(***************************************************************************)
(* One "pebble exec": the client that asks for it and connects its         *)
(* websockets, the task and its handler, the goroutines that carry output  *)
(* and control messages, the command, and the reaper that waits for it     *)
(* together with the commands of services and checks.                      *)
(*                                                                         *)
(* A scene says what is asked for and what the environment may do.  A chunk*)
(* of output is a unit; standard input is left out: when a command ends is *)
(* its own choice.                                                         *)
(***************************************************************************)
EXTENDS Reaper

CONSTANTS
  The,     \* the command of the exec
  MaxOut,  \* bound: chunks the command writes to a stream
  Scenes   \* bound: see SceneType

\* terminal and split (standard error apart) are options of the request;
\* timeout: it has one; back: the command leaves a process in the background
\* that holds its output open; aborts, crashes, signals, leaves: the change may
\* be aborted, the daemon may crash, the client may send a signal, or vanish;
\* others: the commands of services and checks; out: chunks written to a stream.
SceneType ==
  [terminal : BOOLEAN, split : BOOLEAN, timeout : BOOLEAN, back : BOOLEAN,
   aborts : BOOLEAN, crashes : BOOLEAN, signals : BOOLEAN, leaves : BOOLEAN,
   others : SUBSET Cmds, out : 0..MaxOut]

ASSUME ExecAssumption == The \in Cmds /\ MaxOut \in Nat /\ Scenes \subseteq SceneType

VARIABLES
  scene,
  client,      \* where the client is: "post", a websocket, "wait", "flush", "ok", "failed", "gone"
  task,        \* the exec task: "none", "Do", "Doing", "Ready"
  outcome,     \* what the task says once it is ready: an exit code, "error" or "nothing"
  setup,       \* execSetup is cached in the state
  pc,          \* where the handler doExec is
  ctx,         \* its context: "live", "cancelled", "deadline"
  registered,  \* the execution is in CommandManager.executions
  ws,          \* e.websockets: those that are connected
  ioConnected, controlConnected,
  request,     \* the request for a websocket: "none", "select", "upgrade", "returned"
  search,      \* its goroutine waitExecution: "none", "looks", "waits", "found", "ended"
  control,     \* controlLoop: "none", "pid", "connect", "loop", "signal", "kill", "ended"
  message,     \* a signal is in the control websocket
  wrote,       \* chunks the command wrote to a stream
  held,        \* who holds the write end of a stream open
  buffer,      \* chunks in the pipe or terminal
  hand,        \* chunks the reading goroutine has read and not handed over
  reader,      \* the goroutine that polls the terminal: "poll", "checkin", "checkboth", "send", "ended"
  watcher,     \* the one that looks at it when the command has ended: "waits", "polls", "closes", "ended"
  sent,        \* chunks written to the websocket
  sender,      \* the goroutine that writes a stream to it: "none", "sends", "writes", "ended"
  eof,         \* the channel between the two is closed
  exited,      \* childDead is closed
  starts,      \* history: times the command was started
  panicked     \* history: a send on the closed channel

clientVars == <<client, message>>
connVars == <<request, search, ws, ioConnected, controlConnected>>
streamVars == <<wrote, held, buffer, hand, sent, sender, eof>>
ptyVars == <<reader, watcher, panicked>>
doVars == <<task, outcome, setup, pc, ctx, registered, exited, starts>>
vars == <<scene, clientVars, connVars, streamVars, ptyVars, doVars, control, reaperVars>>

Ids == {"control", "stdio", "stderr"}
Streams == IF scene.split THEN {"stdio", "stderr"} ELSE {"stdio"}
Pty(s) == scene.terminal /\ s = "stdio"
Connected == client \notin {"gone", "failed"}
Others == Cmds \ {The}

StreamsInit ==
  /\ wrote = [s \in Ids |-> 0] /\ held = [s \in Ids |-> {}] /\ buffer = [s \in Ids |-> 0]
  /\ hand = [s \in Ids |-> 0] /\ sent = [s \in Ids |-> 0] /\ sender = [s \in Ids |-> "none"]
  /\ eof = [s \in Ids |-> FALSE]
  /\ reader = "none" /\ watcher = "none" /\ panicked = FALSE

Init ==
  /\ ReaperInit /\ StreamsInit
  /\ scene \in Scenes
  /\ client = "post" /\ message = FALSE
  /\ request = [i \in Ids |-> "none"] /\ search = [i \in Ids |-> "none"]
  /\ ws = {} /\ ioConnected = FALSE /\ controlConnected = FALSE
  /\ task = "none" /\ outcome = "nothing" /\ setup = FALSE
  /\ pc = "idle" /\ ctx = "live"
  /\ registered = FALSE /\ exited = FALSE /\ starts = 0
  /\ control = "none"

TypeOK ==
  /\ ReaperTypeOK
  /\ scene \in SceneType
  /\ client \in Ids \cup {"post", "wait", "flush", "ok", "failed", "gone"} /\ message \in BOOLEAN
  /\ request \in [Ids -> {"none", "select", "upgrade", "returned"}]
  /\ search \in [Ids -> {"none", "looks", "waits", "found", "ended"}]
  /\ ws \subseteq Ids /\ ioConnected \in BOOLEAN /\ controlConnected \in BOOLEAN
  /\ task \in {"none", "Do", "Doing", "Ready"}
  /\ outcome \in {"nothing", "error"} \cup {"done"}
  /\ pc \in {"idle", "connect", "start", "pid", "wait", "close", "output"}
  /\ ctx \in {"live", "cancelled", "deadline"}
  /\ setup \in BOOLEAN /\ registered \in BOOLEAN /\ exited \in BOOLEAN
  /\ control \in {"none", "pid", "connect", "loop", "signal", "kill", "ended"}
  /\ wrote \in [Ids -> 0..MaxOut] /\ sent \in [Ids -> Nat] /\ buffer \in [Ids -> Nat]
  /\ held \in [Ids -> SUBSET {"daemon", "command", "background"}]
  /\ hand \in [Ids -> 0..1] /\ sender \in [Ids -> {"none", "sends", "writes", "ended"}]
  /\ eof \in [Ids -> BOOLEAN]
  /\ reader \in {"none", "poll", "checkin", "checkboth", "send", "ended"}
  /\ watcher \in {"none", "waits", "polls", "closes", "ended"}
  /\ starts \in Nat /\ panicked \in BOOLEAN

-----------------------------------------------------------------------------
(* The request and the websockets *)

\* cmdstate.Exec: the task, and its setup in the cache of the state.
CreateTask == task' = "Do" /\ setup' = TRUE

\* v1PostExec: the request is refused, or its task and change are made in one
\* hold of the state lock.
PostExec ==
  /\ client = "post"
  /\ \/ CreateTask /\ client' = "control"
     \/ client' = "failed" /\ UNCHANGED <<task, setup>>
  /\ UNCHANGED <<scene, message, connVars, streamVars, ptyVars, outcome, pc, ctx,
                 registered, exited, starts, control, reaperVars>>

\* executionsCond.Broadcast
Broadcast(found) == [i \in Ids |-> IF found[i] = "waits" THEN "looks" ELSE found[i]]

\* Client.getTaskWebsocket and the first lines of Connect.
Ask(i) ==
  /\ client = i /\ request[i] = "none"
  /\ request' = [request EXCEPT ![i] = "select"]
  /\ search' = [search EXCEPT ![i] = "looks"]
  /\ UNCHANGED <<scene, clientVars, ws, ioConnected, controlConnected, streamVars, ptyVars,
                 doVars, control, reaperVars>>

\* waitExecution: one turn of its loop, from the lock or the wake-up to the Wait.
Search(i) ==
  /\ search[i] = "looks"
  /\ search' = [search EXCEPT ![i] =
       IF request[i] = "returned" THEN "ended" ELSE IF registered THEN "found" ELSE "waits"]
  /\ UNCHANGED <<scene, clientVars, request, ws, ioConnected, controlConnected, streamVars,
                 ptyVars, doVars, control, reaperVars>>

\* Connect, its select: the execution was found ...
Found(i) ==
  /\ request[i] = "select" /\ search[i] = "found"
  /\ request' = [request EXCEPT ![i] = "upgrade"]
  /\ UNCHANGED <<scene, clientVars, search, ws, ioConnected, controlConnected, streamVars,
                 ptyVars, doVars, control, reaperVars>>

\* Mutant: the goroutine that looks for the execution is not woken.
ReturnOnly(i) ==
  /\ request' = [request EXCEPT ![i] = "returned"] /\ UNCHANGED search

\* Connect returns: waitExecution is told to stop.
Return(i) ==
  /\ request' = [request EXCEPT ![i] = "returned"] /\ search' = Broadcast(search)

\* ... or the request's context is done, or the change is ready.
GiveUp(i) ==
  /\ request[i] = "select" /\ (~Connected \/ task = "Ready")
  /\ Return(i)
  /\ client' = IF Connected THEN "failed" ELSE client
  /\ UNCHANGED <<scene, message, ws, ioConnected, controlConnected, streamVars, ptyVars,
                 doVars, control, reaperVars>>

\* What the client does with a websocket it got.
AfterSocket(i) ==
  CASE i = "control" -> "stdio"
    [] i = "stdio" /\ scene.split -> "stderr"
    [] OTHER -> "wait"

\* execution.connect: the upgrade and the signal that a websocket is there.
Upgrade(i) ==
  /\ request[i] = "upgrade"
  /\ Return(i)
  /\ IF Connected
     THEN /\ ws' = ws \cup {i}
          /\ controlConnected' = (controlConnected \/ i = "control")
          /\ ioConnected' = (ioConnected \/ (i # "control" /\ Streams \subseteq ws'))
          /\ client' = AfterSocket(i)
     ELSE UNCHANGED <<ws, controlConnected, ioConnected, client>>
  /\ UNCHANGED <<scene, message, streamVars, ptyVars, doVars, control, reaperVars>>

-----------------------------------------------------------------------------
(* The handler doExec *)

\* The task runner runs the task; after a restart there is no setup and it is
\* done at once.
DoExec ==
  /\ task \in {"Do", "Doing"} /\ pc = "idle"
  /\ IF setup
     THEN /\ task' = "Doing" /\ pc' = "connect" /\ registered' = TRUE
          /\ search' = Broadcast(search)
     ELSE task' = "Ready" /\ UNCHANGED <<pc, registered, search>>
  /\ UNCHANGED <<scene, clientVars, request, ws, ioConnected, controlConnected, streamVars,
                 ptyVars, outcome, setup, ctx, exited, starts, control, reaperVars>>

\* The return of doExec: the task is ready and its cleanup drops the setup.
End(result) ==
  /\ task' = "Ready" /\ outcome' = result /\ pc' = "idle"
  /\ registered' = FALSE /\ setup' = FALSE

\* The goroutines that carry output, and the ends of the pipes and the terminal
\* that the daemon holds for the command.
OpenStreams ==
  /\ held' = [s \in Ids |-> IF s \in Streams THEN {"daemon"} ELSE {}]
  /\ sender' = [s \in Ids |-> IF s \in Streams THEN "sends" ELSE "none"]
  /\ IF scene.terminal THEN reader' = "poll" /\ watcher' = "waits" ELSE UNCHANGED <<reader, watcher>>

\* waitIOConnected: the websockets of the streams are there.
IOConnected ==
  /\ pc = "connect" /\ ioConnected
  /\ pc' = "start" /\ control' = "pid" /\ OpenStreams
  /\ UNCHANGED <<scene, clientVars, connVars, wrote, buffer, hand, sent, eof, panicked,
                 task, outcome, setup, ctx, registered, exited, starts, reaperVars>>

\* ... or connectTimeout has passed, or the context is cancelled.
IOTimeout ==
  /\ pc = "connect"
  /\ End("error")
  /\ UNCHANGED <<scene, clientVars, connVars, streamVars, ptyVars, ctx, exited,
                 starts, control, reaperVars>>

\* reaper.StartCommand: the command holds its output open, and a process that it
\* leaves in the background does as well.
Start ==
  /\ pc = "start"
  /\ \/ /\ ctx = "live" /\ StartCommand(The)
        /\ pc' = "pid" /\ starts' = starts + 1
        /\ held' = [s \in Ids |-> IF s \in Streams
             THEN {"daemon", "command"} \cup (IF scene.back THEN {"background"} ELSE {}) ELSE {}]
     \/ /\ pc' = "close"
        /\ UNCHANGED <<starts, held, reaperVars>>
  /\ UNCHANGED <<scene, clientVars, connVars, wrote, buffer, hand, sent, sender, eof, ptyVars,
                 task, outcome, setup, ctx, registered, exited, control>>

\* The pid goes to the control loop, which always takes it.
SendPid ==
  /\ pc = "pid" /\ control = "pid"
  /\ pc' = "wait" /\ control' = "connect"
  /\ UNCHANGED <<scene, clientVars, connVars, streamVars, ptyVars, task, outcome, setup, ctx,
                 registered, exited, starts, reaperVars>>

WaitForCommand ==
  /\ pc = "wait" /\ Waiting(The)
  /\ UNCHANGED <<scene, clientVars, connVars, streamVars, ptyVars, doVars, control>>

\* The context is done: exec.Cmd kills its process while it waits for it.
\* (Through a descriptor of the process: the pid may not be its own any more.)
KillCommand ==
  /\ pc \in {"pid", "wait"} /\ ctx # "live" /\ proc[The] = "runs" /\ ~killed[The]
  /\ Kill(pidOf[The])
  /\ UNCHANGED <<scene, clientVars, connVars, streamVars, ptyVars, doVars, control>>

Waited ==
  /\ pc = "wait" /\ waiter[The] = "done"
  /\ pc' = "close"
  /\ UNCHANGED <<scene, clientVars, connVars, streamVars, ptyVars, task, outcome, setup, ctx,
                 registered, exited, starts, control, reaperVars>>

\* The files that the command was given and the control websocket are closed,
\* then childDead.
CloseFiles ==
  /\ pc = "close"
  /\ pc' = "output" /\ exited' = TRUE
  /\ held' = [s \in Ids |-> held[s] \ {"daemon"}] /\ ws' = ws \ {"control"}
  /\ UNCHANGED <<scene, clientVars, request, search, ioConnected, controlConnected, wrote,
                 buffer, hand, sent, sender, eof, ptyVars, task, outcome, setup, ctx,
                 registered, starts, control, reaperVars>>

\* All the output is sent; the timeout, even one that passed after the command
\* had ended, comes before the command's own result.  Without a channel from
\* the reaper there is none.
Result == IF ctx = "deadline" \/ ear[The] = Nobody THEN "error" ELSE "done"

OutputSent ==
  /\ pc = "output" /\ \A s \in Streams : sender[s] = "ended"
  /\ End(Result)
  /\ UNCHANGED <<scene, clientVars, connVars, streamVars, ptyVars, ctx, exited,
                 starts, control, reaperVars>>

-----------------------------------------------------------------------------
(* The control loop *)

\* The command has a pid: the loop waits for its websocket, or for the return of do.
ControlConnect ==
  /\ control \in {"pid", "connect"}
  /\ \/ control = "connect" /\ controlConnected /\ control' = "loop"
     \/ pc = "idle" /\ control' = "ended"
  /\ UNCHANGED <<scene, clientVars, connVars, streamVars, ptyVars, doVars, reaperVars>>

\* Mutant: a client that is gone does not end its command.
ControlReadOnly ==
  /\ control = "loop"
  /\ IF "control" \notin ws THEN control' = "ended" /\ UNCHANGED message
     ELSE \/ message /\ control' = "signal" /\ message' = FALSE
          \/ ~message /\ client \in {"gone", "ok", "failed"} /\ control' = "ended" /\ UNCHANGED message
  /\ UNCHANGED <<scene, client, connVars, streamVars, ptyVars, doVars, reaperVars>>

\* NextReader: a signal, a connection that broke, or one that the daemon closed.
ControlRead ==
  /\ control = "loop"
  /\ IF "control" \notin ws THEN control' = "ended" /\ UNCHANGED message
     ELSE \/ message /\ control' = "signal" /\ message' = FALSE
          \/ ~message /\ client \in {"gone", "ok", "failed"} /\ control' = "kill" /\ UNCHANGED message
  /\ UNCHANGED <<scene, client, connVars, streamVars, ptyVars, doVars, reaperVars>>

\* unix.Kill with the pid that the loop was told.
ControlKill ==
  /\ control \in {"signal", "kill"}
  /\ control' = IF control = "signal" THEN "loop" ELSE "ended"
  /\ Kill(pidOf[The])
  /\ UNCHANGED <<scene, clientVars, connVars, streamVars, ptyVars, doVars>>

-----------------------------------------------------------------------------
(* The output *)

Writes(s) ==
  /\ \/ /\ "command" \in held[s] /\ proc[The] = "runs" /\ wrote[s] < scene.out
        /\ wrote' = [wrote EXCEPT ![s] = @ + 1]
     \/ /\ "background" \in held[s] /\ buffer[s] = 0 /\ sent[s] <= scene.out
        /\ UNCHANGED wrote
  /\ buffer' = [buffer EXCEPT ![s] = @ + 1]
  /\ UNCHANGED <<scene, clientVars, connVars, held, hand, sent, sender, eof, ptyVars, doVars,
                 control, reaperVars>>

\* A process ends, and with it its hold on the output.
CommandExits ==
  /\ Exits(The)
  /\ held' = [s \in Ids |-> held[s] \ {"command"}]
  /\ UNCHANGED <<scene, clientVars, connVars, wrote, buffer, hand, sent, sender, eof, ptyVars,
                 doVars, control>>

CommandCloses(s) ==
  /\ "command" \in held[s]
  /\ held' = [held EXCEPT ![s] = @ \ {"command"}]
  /\ UNCHANGED <<scene, clientVars, connVars, wrote, buffer, hand, sent, sender, eof, ptyVars,
                 doVars, control, reaperVars>>

BackgroundExits ==
  /\ \E s \in Ids : "background" \in held[s]
  /\ held' = [s \in Ids |-> held[s] \ {"background"}]
  /\ UNCHANGED <<scene, clientVars, connVars, wrote, buffer, hand, sent, sender, eof, ptyVars,
                 doVars, control, reaperVars>>

\* ReaderToChannel on a pipe: a chunk is read, or the end when nobody holds it.
ReadPipe(s) ==
  /\ sender[s] # "none" /\ ~Pty(s) /\ hand[s] = 0 /\ ~eof[s]
  /\ \/ /\ buffer[s] > 0
        /\ hand' = [hand EXCEPT ![s] = 1] /\ buffer' = [buffer EXCEPT ![s] = @ - 1]
        /\ UNCHANGED eof
     \/ /\ buffer[s] = 0 /\ held[s] = {}
        /\ eof' = [eof EXCEPT ![s] = TRUE] /\ UNCHANGED <<hand, buffer>>
  /\ UNCHANGED <<scene, clientVars, connVars, wrote, held, sent, sender, ptyVars, doVars,
                 control, reaperVars>>

\* ExecReaderToChannel: what poll says of the terminal.  Its master is closed by
\* the return of MirrorToWebsocket, and polled all the same.
HangsUp == held["stdio"] = {}
Input == buffer["stdio"] > 0
Closed == sender["stdio"] = "ended"

\* The reading goroutine returns, which closes the channel unless it is.
ReaderReturns ==
  /\ reader' = "ended" /\ eof' = [eof EXCEPT !["stdio"] = TRUE]
  /\ UNCHANGED <<hand, buffer>>

\* It waits for an event.
Poll ==
  /\ reader = "poll"
  /\ \/ (Closed \/ (HangsUp /\ ~Input)) /\ ReaderReturns
     \/ /\ ~Closed /\ Input
        /\ reader' = IF HangsUp THEN "checkboth" ELSE "checkin"
        /\ UNCHANGED <<eof, hand, buffer>>
  /\ UNCHANGED <<scene, clientVars, connVars, wrote, held, sent, sender, watcher, panicked,
                 doVars, control, reaperVars>>

\* After input without a hang-up, attachedChildIsDead is looked at, and when it
\* is set the terminal once more: a process in the background is not waited for.
Leaves == reader = "checkin" /\ watcher # "waits" /\ ~HangsUp

ReadPty ==
  /\ reader \in {"checkin", "checkboth"}
  /\ \/ (Closed \/ Leaves) /\ ReaderReturns
     \/ /\ ~Closed /\ ~Leaves
        /\ reader' = "send" /\ hand' = [hand EXCEPT !["stdio"] = 1]
        /\ buffer' = [buffer EXCEPT !["stdio"] = @ - 1] /\ UNCHANGED eof
  /\ UNCHANGED <<scene, clientVars, connVars, wrote, held, sent, sender, watcher, panicked,
                 doVars, control, reaperVars>>

\* The other goroutine: the command has ended; the flag is set, the terminal
\* polled without waiting, and the channel closed when there was no event, or
\* when the master is closed.
ChildDead ==
  /\ watcher = "waits" /\ exited
  /\ watcher' = "polls"
  /\ UNCHANGED <<scene, clientVars, connVars, streamVars, reader, panicked, doVars, control, reaperVars>>

PollOnce ==
  /\ watcher = "polls"
  /\ watcher' = IF ~Closed /\ (Input \/ HangsUp) THEN "ended" ELSE "closes"
  /\ UNCHANGED <<scene, clientVars, connVars, streamVars, reader, panicked, doVars, control, reaperVars>>

\* A send that waits on the channel panics when it is closed, and the daemon dies.
CloseChannel ==
  /\ watcher = "closes"
  /\ watcher' = "ended" /\ eof' = [eof EXCEPT !["stdio"] = TRUE]
  /\ panicked' = (reader = "send")
  /\ UNCHANGED <<scene, clientVars, connVars, wrote, held, buffer, hand, sent, sender, reader,
                 doVars, control, reaperVars>>

\* WebsocketSendStream and MirrorToWebsocket: a chunk is received, which lets
\* the reading goroutine go on, and written to the websocket; on a connection that
\* is broken the stream ends.
Receive(s) ==
  /\ sender[s] = "sends" /\ hand[s] = 1
  /\ sender' = [sender EXCEPT ![s] = "writes"] /\ hand' = [hand EXCEPT ![s] = 0]
  /\ reader' = IF Pty(s) THEN "poll" ELSE reader
  /\ UNCHANGED <<scene, clientVars, connVars, wrote, held, buffer, sent, eof, watcher, panicked,
                 doVars, control, reaperVars>>

WriteMessage(s) ==
  /\ sender[s] = "writes"
  /\ IF Connected
     THEN sender' = [sender EXCEPT ![s] = "sends"] /\ sent' = [sent EXCEPT ![s] = @ + 1]
     ELSE sender' = [sender EXCEPT ![s] = "ended"] /\ UNCHANGED sent
  /\ UNCHANGED <<scene, clientVars, connVars, wrote, held, buffer, hand, eof, ptyVars, doVars,
                 control, reaperVars>>

SendEnd(s) ==
  /\ sender[s] = "sends" /\ hand[s] = 0 /\ eof[s]
  /\ sender' = [sender EXCEPT ![s] = "ended"]
  /\ UNCHANGED <<scene, clientVars, connVars, wrote, held, buffer, hand, sent, eof, ptyVars,
                 doVars, control, reaperVars>>

-----------------------------------------------------------------------------
(* The client and the environment *)

\* recvLoop: the end of each stream was received.
AllReceived == \A s \in Streams : sender[s] = "ended"

\* ExecProcess.Wait: the change is ready; without an error, the output is
\* waited for as well.
ClientWaits ==
  /\ \/ client = "wait" /\ task = "Ready" /\ client' = IF outcome = "error" THEN "failed" ELSE "flush"
     \/ client = "wait" /\ ctx = "deadline" /\ client' = "failed"
     \/ client = "flush" /\ AllReceived /\ client' = "ok"
  /\ UNCHANGED <<scene, message, connVars, streamVars, ptyVars, doVars, control, reaperVars>>

\* A signal of the user's goes through the control websocket.
SendSignal ==
  /\ scene.signals /\ client = "wait" /\ ~message
  /\ message' = TRUE /\ scene' = [scene EXCEPT !.signals = FALSE]
  /\ UNCHANGED <<client, connVars, streamVars, ptyVars, doVars, control, reaperVars>>

\* The client is killed, or its connection breaks.
Leave ==
  /\ scene.leaves /\ client \in Ids \cup {"wait", "flush"}
  /\ client' = "gone"
  /\ UNCHANGED <<scene, message, connVars, streamVars, ptyVars, doVars, control, reaperVars>>

\* The tomb is killed by an abort of the change or the daemon's stop, or the
\* request's timeout passes.
Cancel ==
  /\ ctx = "live" /\ pc # "idle"
  /\ \/ scene.aborts /\ ctx' = "cancelled"
     \/ scene.timeout /\ pc # "connect" /\ ctx' = "deadline"
  /\ UNCHANGED <<scene, clientVars, connVars, streamVars, ptyVars, task, outcome, setup, pc,
                 registered, exited, starts, control, reaperVars>>

\* The daemon crashes and is started again: the state has the task, and all the
\* rest is lost.
Crash ==
  /\ scene.crashes /\ task # "none"
  /\ scene' = [scene EXCEPT !.crashes = FALSE]
  /\ ReaperAnew
  /\ client' = (IF client = "ok" THEN "ok" ELSE "failed") /\ message' = FALSE
  /\ request' = [i \in Ids |-> "none"] /\ search' = [i \in Ids |-> "none"]
  /\ ws' = {} /\ ioConnected' = FALSE /\ controlConnected' = FALSE
  /\ held' = [s \in Ids |-> {}] /\ buffer' = [s \in Ids |-> 0] /\ hand' = [s \in Ids |-> 0]
  /\ sender' = [s \in Ids |-> "none"] /\ eof' = [s \in Ids |-> FALSE]
  /\ reader' = "none" /\ watcher' = "none"
  /\ setup' = FALSE /\ pc' = "idle" /\ ctx' = "live"
  /\ registered' = FALSE /\ exited' = FALSE /\ control' = "none"
  /\ UNCHANGED <<task, outcome, wrote, sent, starts, panicked>>

\* A service or check starts its command and waits for it.
OtherStarts(c) ==
  /\ c \in scene.others /\ (StartCommand(c) \/ Exits(c))
  /\ UNCHANGED <<scene, clientVars, connVars, streamVars, ptyVars, doVars, control>>

OtherWaits(c) ==
  /\ Waiting(c)
  /\ UNCHANGED <<scene, clientVars, connVars, streamVars, ptyVars, doVars, control>>

ReaperRuns ==
  /\ Reaping
  /\ UNCHANGED <<scene, clientVars, connVars, streamVars, ptyVars, doVars, control>>

Connect(i) == Ask(i) \/ Found(i) \/ GiveUp(i) \/ Upgrade(i)
Handler ==
  \/ DoExec \/ IOConnected \/ IOTimeout \/ Start \/ SendPid \/ WaitForCommand \/ KillCommand
  \/ Waited \/ CloseFiles \/ OutputSent
Control == ControlConnect \/ ControlRead \/ ControlKill
Reader == Poll \/ ReadPty
Watcher == ChildDead \/ PollOnce \/ CloseChannel
Sender(s) == Receive(s) \/ WriteMessage(s) \/ SendEnd(s)

Next ==
  /\ ~panicked
  /\ \/ PostExec \/ ClientWaits \/ SendSignal \/ Leave \/ Cancel \/ Crash
     \/ \E i \in Ids : Connect(i) \/ Search(i)
     \/ Handler \/ Control \/ Reader \/ Watcher \/ ReaperRuns
     \/ \E s \in Ids : ReadPipe(s) \/ Sender(s) \/ Writes(s) \/ CommandCloses(s)
     \/ CommandExits \/ BackgroundExits
     \/ \E c \in Others : OtherStarts(c) \/ OtherWaits(c)

\* The goroutines of the daemon and the client run on.  A command ends when it is
\* killed; else that, like all the environment does, is up to it.
Fairness ==
  /\ WF_vars(ClientWaits) /\ WF_vars(Handler) /\ WF_vars(Control) /\ WF_vars(Reader)
  /\ WF_vars(Watcher) /\ WF_vars(ReaperRuns) /\ WF_vars(killed[The] /\ CommandExits)
  /\ \A i \in Ids :
       WF_vars(Connect(i)) /\ WF_vars(Search(i)) /\ WF_vars(ReadPipe(i)) /\ WF_vars(Sender(i))
  /\ \A c \in Others : WF_vars(OtherWaits(c))

Spec == Init /\ [][Next]_vars /\ Fairness

-----------------------------------------------------------------------------
(* Properties *)

\* What WaitCommand returns is the exit code of the caller's own process, which
\* has ended, unless a pid was given out again before the reaper had forgotten
\* it; and a command is started at most once, over a restart of the daemon too.
ExitCodeTrue ==
  /\ TypeOK
  /\ ~overlap => \A c \in Cmds :
       waiter[c] = "done" => ear[c] = c /\ heard[c] = code[c] /\ proc[c] = "gone"
  /\ starts <= 1 /\ (proc[The] # "none" => starts = 1)

\* A client that is told the result has got all the output the command wrote,
\* unless the caller was told an exit code too early because the pid was given out
\* again (what a terminal still has is then left in it); and a stream that still has its
\* client is ended only when the command was waited for: the client's answer to the
\* end is to close the control websocket, which kills a command that runs.
OutputComplete ==
  /\ client = "ok" /\ outcome = "done" /\ ~scene.back /\ ~overlap =>
       \A s \in Streams : sent[s] = wrote[s]
  /\ \A s \in Streams : sender[s] = "ended" /\ Connected => exited
  /\ killed[The] => ctx # "live" \/ ~Connected \/ task # "none"

\* The two goroutines that read a terminal agree on who closes their channel:
\* it is not closed while a chunk is being sent on it.
ClosedOnce == ~panicked

\* No wake-up is lost: a child that ended is known to the reaper, and its code
\* is on the way to its caller; the goroutine that looks for an execution does not
\* sleep when there is one, or when its request has returned.
NoLostWakeup ==
  /\ Zombies # {} => sigchld \/ reaping \in {Waits4} \cup Reaped
  /\ ~overlap => \A c \in Cmds : waiter[c] = "waits" /\ proc[c] = "gone" =>
       chan[c] = code[c] \/ reaping = [pc |-> "got", pid |-> pidOf[c], code |-> code[c]]
  /\ \A i \in Ids : search[i] = "waits" => ~registered /\ request[i] # "returned"

\* An exec whose command has ended, whose client has gone, or that is cancelled
\* ends, unless a process in the background holds its output; and its client
\* returns.
ExecEnds ==
  /\ ~scene.back =>
       ((task = "Doing" /\ (ctx # "live" \/ ~Connected \/ proc[The] \in {"zombie", "gone"}))
          ~> (task = "Ready" \/ overlap \/ panicked))
  /\ (client = "wait" /\ task = "Ready") ~> (client \in {"ok", "failed", "gone"} \/ panicked)

\* What the client is told of the command is what happened.
ResultTrue == ExitCodeTrue /\ OutputComplete
=============================================================================
