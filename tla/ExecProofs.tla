----------------------------- MODULE ExecProofs -----------------------------
(***************************************************************************)
(* What a client is told of its exec, for every set of commands and pids,  *)
(* every amount of output and every scene: the exit code is the one its    *)
(* own process ended with, and with it has come all that the process       *)
(* wrote.                                                                  *)
(*                                                                         *)
(* The pid of a command leads to the channel of its caller from the start  *)
(* until the caller has its answer, unless the kernel gives the pid out    *)
(* again first; and the end of a stream is read only when nobody holds it  *)
(* open, since the daemon gives up its own end after it has waited.        *)
(***************************************************************************)
EXTENDS Exec, TLAPS

(***************************************************************************)
(* The reaper and the callers.                                             *)
(***************************************************************************)
Got(c) == [pc |-> "got", pid |-> pidOf[c], code |-> code[c]]

\* Who has a process, a pid and a channel.
CallersInv ==
  \A c \in Cmds :
    /\ proc[c] = "none" => waiter[c] = "no"
    /\ proc[c] \in {"runs", "zombie"} \/ waiter[c] # "no" => pidOf[c] \in Pids
    /\ proc[c] = "zombie" => code[c] \in Codes
    /\ waiter[c] \in {"no", "started"} => ear[c] = Nobody
    /\ waiter[c] \in {"waits", "told"} => ear[c] \in Cmds

\* The exit code that was reaped and not passed on is that of a command whose caller has
\* not heard it.
Unheard(c) == proc[c] = "gone" /\ waiter[c] \in {"started", "waits"}

OwnChannel(c) ==
  /\ waiter[c] \in {"started", "waits", "told"} => pids[pidOf[c]] = c
  /\ waiter[c] \in {"waits", "told", "done"} => ear[c] = c
  /\ waiter[c] \in {"told", "done"} => proc[c] = "gone" /\ heard[c] = code[c]
  /\ proc[c] \in {"runs", "zombie"} => waiter[c] \in {"started", "waits"}
  /\ proc[c] \in {"none", "runs", "zombie"} => chan[c] = Empty
  /\ Unheard(c) =>
       /\ code[c] \in Codes
       /\ chan[c] = code[c] \/ (chan[c] = Empty /\ reaping = Got(c))

OwnCode ==
  ~overlap =>
    /\ \A c \in Cmds : OwnChannel(c)
    /\ \A p \in Pids : pids[p] # Nobody =>
         pidOf[pids[p]] = p /\ waiter[pids[p]] \in {"started", "waits", "told"}
    /\ reaping \in Reaped =>
         \E c \in Cmds : Unheard(c) /\ chan[c] = Empty /\ reaping = Got(c)

Noticed == Zombies # {} => sigchld \/ reaping \in {Waits4} \cup Reaped

ReaperInv == ReaperTypeOK /\ CallersInv /\ OwnCode /\ Noticed

(***************************************************************************)
(* Where the handler is.  It runs once: the setup in the cache of the      *)
(* state is there until it returns, and is lost in a crash.                *)
(***************************************************************************)
Fresh ==
  /\ proc[The] = "none" /\ ~killed[The] /\ ~exited
  /\ reader = "none" /\ watcher = "none" /\ control = "none"
  /\ \A s \in Ids :
       /\ wrote[s] = 0 /\ buffer[s] = 0 /\ hand[s] = 0 /\ sent[s] = 0
       /\ held[s] = {} /\ sender[s] = "none" /\ ~eof[s]

Unstarted == task = "none" \/ (pc = "idle" /\ setup) \/ pc = "connect"

FreshInv == Unstarted => Fresh

PlaceInv ==
  /\ client = "post" => task = "none"
  /\ client \in {"flush", "ok"} => task = "Ready"
  /\ task \in {"none", "Ready"} => ~setup /\ pc = "idle"
  /\ exited => pc = "output" \/ (pc = "idle" /\ ~setup)

\* The client asks for one websocket at a time.
Asking == \A i \in Ids : request[i] \in {"select", "upgrade"} /\ Connected => client = i

OpenInv ==
  pc \in {"start", "pid", "wait", "close"} =>
    \A s \in Streams : sender[s] # "none" /\ "daemon" \in held[s]

\* What the handler has of its command, and that it has waited for it in the end.
CommandInv ==
  /\ pc = "start" => proc[The] = "none"
  /\ pc = "pid" => waiter[The] = "started"
  /\ pc \in {"close", "output"} => waiter[The] \in {"no", "done"}
  /\ starts = IF proc[The] = "none" THEN 0 ELSE 1
  /\ exited /\ ~overlap => proc[The] \in {"none", "gone"}
  /\ outcome = "done" /\ ~overlap => proc[The] = "gone"

AtHandler == FreshInv /\ PlaceInv /\ Asking /\ OpenInv /\ CommandInv

(***************************************************************************)
(* The streams.                                                            *)
(***************************************************************************)
HeldInv ==
  \A s \in Ids :
    /\ "command" \in held[s] => proc[The] = "runs"
    /\ "background" \in held[s] => scene.back
    /\ "daemon" \in held[s] => ~exited
    /\ sender[s] # "none" /\ "daemon" \notin held[s] => exited
    /\ sender[s] = "none" => hand[s] = 0 /\ ~eof[s]
    /\ s \notin Streams => sender[s] = "none"

PtyInv ==
  /\ reader # "none" \/ watcher # "none" => scene.terminal /\ sender["stdio"] # "none"
  /\ (reader = "none") = (watcher = "none")
  /\ reader \in {"checkin", "checkboth"} => buffer["stdio"] > 0
  /\ scene.terminal /\ reader # "send" => hand["stdio"] = 0
  /\ watcher \notin {"none", "waits"} => exited

\* Without a process in the background, and with the right exit code.
Clean == ~scene.back /\ ~overlap

EndInv ==
  /\ \A s \in Ids :
       /\ sender[s] = "ended" /\ Connected => eof[s] /\ hand[s] = 0
       /\ eof[s] /\ Connected => exited
       /\ eof[s] /\ Connected /\ Clean => buffer[s] = 0 /\ held[s] = {}
  /\ watcher = "closes" /\ Clean => sender["stdio"] = "ended"

\* While the client is there nothing is lost on the way to it.
OnTheWay(s) == buffer[s] + hand[s] + (IF sender[s] = "writes" THEN 1 ELSE 0)

Conserved ==
  client \notin {"gone", "failed", "ok"} /\ ~scene.back =>
    \A s \in Ids : wrote[s] = sent[s] + OnTheWay(s)

Arrived ==
  client = "ok" =>
    /\ \A s \in Streams : sender[s] \in {"none", "ended"}
    /\ Clean /\ outcome = "done" => \A s \in Streams : sent[s] = wrote[s]

StreamInv == HeldInv /\ PtyInv /\ EndInv /\ Conserved /\ Arrived

ExecInv == TypeOK /\ ReaperInv /\ AtHandler /\ StreamInv
-----------------------------------------------------------------------------
(***************************************************************************)
(* The reaper and the callers.                                             *)
(***************************************************************************)
LEMMA ReaperSteps ==
  ASSUME [Next]_vars
  PROVE  \/ \E c \in Cmds : StartCommand(c) \/ Exits(c) \/ Waiting(c)
         \/ Reaping \/ ReaperAnew \/ (\E p : Kill(p)) \/ UNCHANGED reaperVars
BY ExecAssumption
DEF ExecAssumption, Next, vars, PostExec, ClientWaits, SendSignal, Leave, Cancel, Crash, Connect,
    Ask, Found, GiveUp, Upgrade, Search, Handler, DoExec, IOConnected, IOTimeout, Start, SendPid,
    WaitForCommand, KillCommand, Waited, CloseFiles, OutputSent, Control, ControlConnect,
    ControlRead, ControlKill, Reader, Poll, ReadPty, Watcher, ChildDead, PollOnce, CloseChannel,
    ReaperRuns, ReadPipe, Sender, Receive, WriteMessage, SendEnd, Writes, CommandCloses,
    CommandExits, BackgroundExits, OtherStarts, OtherWaits, Others

LEMMA NobodyIs == Nobody \notin Cmds
BY ReaperAssumption DEF ReaperAssumption

LEMMA StartCommandReaper ==
  ASSUME ReaperInv, NEW c \in Cmds, StartCommand(c)
  PROVE  ReaperInv'
<1>1. PICK p \in FreePids :
        /\ proc[c] = "none"
        /\ proc' = [proc EXCEPT ![c] = "runs"] /\ pidOf' = [pidOf EXCEPT ![c] = p]
        /\ overlap' = (overlap \/ pids[p] # Nobody)
        /\ chan' = [d \in Cmds |-> IF d = pids[p] /\ chan[d] = Empty THEN Failed ELSE chan[d]]
        /\ pids' = [pids EXCEPT ![p] = c]
        /\ waiter' = [waiter EXCEPT ![c] = "started"]
        /\ UNCHANGED <<code, killed, sigchld, reaping, ear, heard>>
  BY DEF StartCommand
<1>2. p \in Pids /\ waiter[c] = "no" /\ ear[c] = Nobody
  BY <1>1 DEF FreePids, ReaperInv, CallersInv
<1>3. ReaperTypeOK'
  BY <1>1, <1>2 DEF ReaperInv, ReaperTypeOK
<1>4. CallersInv'
  BY <1>1, <1>2, <1>3 DEF ReaperInv, CallersInv, ReaperTypeOK
<1>5. OwnCode'
  <2> SUFFICES ASSUME ~overlap' PROVE OwnCode'
    BY DEF OwnCode
  <2>1. ~overlap /\ pids[p] = Nobody
    BY <1>1
  <2>2. chan' = chan
    <3>1. chan' = [d \in Cmds |-> chan[d]]
      BY <1>1, <2>1, NobodyIs
    <3> QED BY <3>1 DEF ReaperInv, ReaperTypeOK
  <2>3. \A d \in Cmds \ {c} : waiter[d] \in {"started", "waits", "told"} => pidOf[d] # p
    BY <2>1, NobodyIs DEF ReaperInv, OwnCode, OwnChannel
  <2>4. OwnChannel(c)'
    BY <1>1, <1>2, <2>2, <2>1 DEF ReaperInv, OwnCode, OwnChannel, Unheard, ReaperTypeOK
  <2>5. ASSUME NEW d \in Cmds \ {c} PROVE OwnChannel(d)'
    <3>1. /\ proc'[d] = proc[d] /\ pidOf'[d] = pidOf[d] /\ chan'[d] = chan[d]
          /\ waiter'[d] = waiter[d] /\ code' = code /\ reaping' = reaping
          /\ ear' = ear /\ heard' = heard
      BY <1>1, <2>2 DEF ReaperInv, ReaperTypeOK
    <3>2. waiter[d] \in {"started", "waits", "told"} => pids'[pidOf[d]] = pids[pidOf[d]]
      BY <1>1, <2>3 DEF ReaperInv, ReaperTypeOK
    <3>3. OwnChannel(d) /\ Got(d)' = Got(d)
      BY <2>1, <3>1 DEF ReaperInv, OwnCode, Got
    <3> QED BY <3>1, <3>2, <3>3 DEF OwnChannel, Unheard
  <2>6. \A q \in Pids : pids'[q] # Nobody =>
          pidOf'[pids'[q]] = q /\ waiter'[pids'[q]] \in {"started", "waits", "told"}
    BY <1>1, <1>2, <2>1 DEF ReaperInv, OwnCode, ReaperTypeOK
  <2>7. reaping' \in Reaped =>
          \E d \in Cmds : Unheard(d)' /\ chan'[d] = Empty /\ reaping' = Got(d)'
    BY <1>1, <1>2, <2>2, <2>1 DEF ReaperInv, OwnCode, Unheard, Got, ReaperTypeOK
  <2> QED BY <2>4, <2>5, <2>6, <2>7 DEF OwnCode
<1>6. Noticed'
  BY <1>1 DEF ReaperInv, Noticed, Zombies, ReaperTypeOK
<1> QED BY <1>3, <1>4, <1>5, <1>6 DEF ReaperInv

LEMMA ExitsReaper ==
  ASSUME ReaperInv, NEW c \in Cmds, Exits(c)
  PROVE  ReaperInv'
<1>1. /\ proc[c] = "runs" /\ proc' = [proc EXCEPT ![c] = "zombie"] /\ sigchld' = TRUE
      /\ UNCHANGED <<pidOf, killed, pids, chan, reaping, waiter, ear, heard, overlap>>
  BY DEF Exits
<1>2. PICK x \in Codes : code' = [code EXCEPT ![c] = x]
  BY DEF Exits, Codes, Killed
<1>3. ReaperTypeOK'
  BY <1>1, <1>2 DEF ReaperInv, ReaperTypeOK
<1>4. CallersInv'
  BY <1>1, <1>2 DEF ReaperInv, CallersInv, ReaperTypeOK
<1>5. OwnCode'
  <2> SUFFICES ASSUME ~overlap PROVE OwnCode'
    BY <1>1 DEF OwnCode
  <2>1. \A d \in Cmds : OwnChannel(d)'
    BY <1>1, <1>2 DEF ReaperInv, OwnCode, OwnChannel, Unheard, Got, ReaperTypeOK
  <2>2. reaping' \in Reaped =>
          \E d \in Cmds : Unheard(d)' /\ chan'[d] = Empty /\ reaping' = Got(d)'
    BY <1>1, <1>2 DEF ReaperInv, OwnCode, Unheard, Got, ReaperTypeOK
  <2> QED BY <1>1, <2>1, <2>2 DEF ReaperInv, OwnCode
<1>6. Noticed'
  BY <1>1 DEF Noticed
<1> QED BY <1>3, <1>4, <1>5, <1>6 DEF ReaperInv

LEMMA ReapingKinds ==
  /\ {Idle, Waits4, Returns} \cap Reaped = {} /\ Idle # Waits4 /\ Returns # Waits4
  /\ \A c : Got(c) \notin {Idle, Waits4, Returns}
BY DEF Idle, Waits4, Returns, Reaped, Got

LEMMA ReapingReaper ==
  ASSUME ReaperInv, Reaping
  PROVE  ReaperInv'
<1>1. CASE SigChld \/ ReapReturns
  <2>1. /\ reaping \in {Idle, Returns} /\ reaping' \in {Idle, Waits4} /\ sigchld' \in BOOLEAN
        /\ UNCHANGED <<proc, pidOf, code, killed, pids, chan, waiter, ear, heard, overlap>>
    BY <1>1 DEF SigChld, ReapReturns, ReaperInv, ReaperTypeOK
  <2>2. ReaperTypeOK' /\ CallersInv'
    BY <2>1 DEF ReaperInv, ReaperTypeOK, CallersInv
  <2>3. OwnCode'
    BY <2>1, ReapingKinds DEF ReaperInv, OwnCode, OwnChannel, Unheard
  <2>4. Noticed'
    BY <1>1, ReapingKinds DEF SigChld, ReapReturns, ReaperInv, Noticed, Zombies
  <2> QED BY <2>2, <2>3, <2>4 DEF ReaperInv
<1>2. CASE ReapOnce /\ Zombies = {}
  <2>1. /\ reaping = Waits4 /\ reaping' = Returns
        /\ UNCHANGED <<proc, pidOf, code, killed, pids, chan, sigchld, waiter, ear, heard, overlap>>
    BY <1>2 DEF ReapOnce
  <2>2. ReaperTypeOK' /\ CallersInv' /\ OwnCode'
    BY <2>1, ReapingKinds
    DEF ReaperInv, ReaperTypeOK, CallersInv, OwnCode, OwnChannel, Unheard, Got, Waits4, Returns
  <2>3. Noticed'
    BY <1>2, <2>1 DEF Noticed, Zombies
  <2> QED BY <2>2, <2>3 DEF ReaperInv
<1>3. CASE ReapOnce /\ Zombies # {}
  <2>1. PICK c \in Zombies :
          /\ reaping = Waits4 /\ proc' = [proc EXCEPT ![c] = "gone"] /\ reaping' = Got(c)
          /\ UNCHANGED <<pidOf, code, killed, pids, chan, sigchld, waiter, ear, heard, overlap>>
    BY <1>3 DEF ReapOnce, Got
  <2>2. c \in Cmds /\ proc[c] = "zombie" /\ reaping' \in Reaped
    BY <2>1 DEF Zombies, ReaperInv, CallersInv, Got, Reaped
  <2>3. ReaperTypeOK'
    BY <2>1, <2>2 DEF ReaperInv, ReaperTypeOK
  <2>4. CallersInv'
    BY <2>1, <2>2 DEF ReaperInv, CallersInv, ReaperTypeOK
  <2>5. OwnCode'
    <3> SUFFICES ASSUME ~overlap PROVE OwnCode'
      BY <2>1 DEF OwnCode
    <3>1. waiter[c] \in {"started", "waits"} /\ chan[c] = Empty /\ code[c] \in Codes
      BY <2>2 DEF ReaperInv, OwnCode, OwnChannel, CallersInv
    <3>2. reaping' = Got(c)' /\ Unheard(c)' /\ chan'[c] = Empty
      BY <2>1, <2>2, <3>1 DEF Got, Unheard, ReaperInv, ReaperTypeOK
    <3>3. \A d \in Cmds : Unheard(d) => chan[d] = code[d]
      BY <2>1 DEF ReaperInv, OwnCode, OwnChannel, Waits4, Got
    <3>4. \A d \in Cmds : OwnChannel(d)'
      BY <2>1, <2>2, <3>1, <3>2, <3>3
      DEF ReaperInv, OwnCode, OwnChannel, Unheard, Got, ReaperTypeOK
    <3> QED BY <2>1, <2>2, <3>2, <3>4 DEF ReaperInv, OwnCode
  <2>6. Noticed'
    BY <2>2 DEF Noticed
  <2> QED BY <2>3, <2>4, <2>5, <2>6 DEF ReaperInv
<1>4. CASE PassOn
  <2>1. /\ reaping \in Reaped /\ reaping' = Waits4 /\ reaping.pid \in Pids /\ reaping.code \in Codes
        /\ UNCHANGED <<proc, pidOf, code, killed, pids, sigchld, waiter, ear, heard, overlap>>
        /\ IF pids[reaping.pid] = Nobody THEN UNCHANGED chan
           ELSE chan[pids[reaping.pid]] = Empty
                /\ chan' = [chan EXCEPT ![pids[reaping.pid]] = reaping.code]
    BY <1>4 DEF PassOn, Reaped
  <2>2. ReaperTypeOK'
    BY <2>1 DEF ReaperInv, ReaperTypeOK
  <2>3. CallersInv'
    BY <2>1 DEF ReaperInv, CallersInv
  <2>4. OwnCode'
    <3> SUFFICES ASSUME ~overlap PROVE OwnCode'
      BY <2>1 DEF OwnCode
    <3>1. PICK c \in Cmds : Unheard(c) /\ chan[c] = Empty /\ reaping = Got(c)
      BY <2>1 DEF ReaperInv, OwnCode
    <3>2. reaping.pid = pidOf[c] /\ reaping.code = code[c] /\ pids[pidOf[c]] = c /\ c # Nobody
      BY <3>1, NobodyIs DEF Got, ReaperInv, OwnCode, OwnChannel, Unheard
    <3>3. chan' = [chan EXCEPT ![c] = code[c]]
      BY <2>1, <3>2
    <3>4. \A d \in Cmds : Unheard(d) /\ d # c => chan[d] = code[d]
      <4> SUFFICES ASSUME NEW d \in Cmds, Unheard(d), d # c, chan[d] # code[d] PROVE FALSE
        OBVIOUS
      <4>1. reaping = Got(d) /\ pids[pidOf[d]] = d
        BY DEF ReaperInv, OwnCode, OwnChannel, Unheard
      <4> QED BY <3>1, <3>2, <4>1 DEF Got
    <3>5. \A d \in Cmds : OwnChannel(d)'
      BY <2>1, <3>1, <3>3, <3>4 DEF ReaperInv, OwnCode, OwnChannel, Unheard, ReaperTypeOK
    <3> QED BY <2>1, <3>5, ReapingKinds DEF ReaperInv, OwnCode
  <2>5. Noticed'
    BY <2>1 DEF Noticed
  <2> QED BY <2>2, <2>3, <2>4, <2>5 DEF ReaperInv
<1> QED BY <1>1, <1>2, <1>3, <1>4 DEF Reaping

LEMMA WaitingReaper ==
  ASSUME ReaperInv, NEW c \in Cmds, Waiting(c)
  PROVE  ReaperInv'
<1>1. CASE WaitCommand(c)
  <2>1. /\ waiter[c] = "started" /\ pidOf[c] \in Pids /\ ear' = [ear EXCEPT ![c] = pids[pidOf[c]]]
        /\ IF pids[pidOf[c]] = Nobody
           THEN waiter' = [waiter EXCEPT ![c] = "done"] /\ heard' = [heard EXCEPT ![c] = Failed]
           ELSE waiter' = [waiter EXCEPT ![c] = "waits"] /\ UNCHANGED heard
        /\ UNCHANGED <<proc, pidOf, code, killed, pids, chan, sigchld, reaping, overlap>>
    BY <1>1 DEF WaitCommand, ReaperInv, CallersInv
  <2>2. ReaperTypeOK' /\ Noticed'
    BY <2>1 DEF ReaperInv, ReaperTypeOK, Noticed, Zombies
  <2>3. CallersInv'
    BY <2>1 DEF ReaperInv, CallersInv, ReaperTypeOK
  <2>4. OwnCode'
    <3> SUFFICES ASSUME ~overlap PROVE OwnCode'
      BY <2>1 DEF OwnCode
    <3>1. pids[pidOf[c]] = c /\ waiter' = [waiter EXCEPT ![c] = "waits"] /\ heard' = heard
      BY <2>1, NobodyIs DEF ReaperInv, OwnCode, OwnChannel
    <3>2. \A d \in Cmds : OwnChannel(d)'
      BY <2>1, <3>1 DEF ReaperInv, OwnCode, OwnChannel, Unheard, Got, ReaperTypeOK
    <3>3. reaping' \in Reaped =>
            \E d \in Cmds : Unheard(d)' /\ chan'[d] = Empty /\ reaping' = Got(d)'
      BY <2>1, <3>1 DEF ReaperInv, OwnCode, Unheard, Got, ReaperTypeOK
    <3> QED BY <2>1, <3>1, <3>2, <3>3 DEF ReaperInv, OwnCode, ReaperTypeOK
  <2> QED BY <2>2, <2>3, <2>4 DEF ReaperInv
<1>2. CASE ReceiveCode(c)
  <2>1. /\ waiter[c] = "waits" /\ ear[c] \in Cmds /\ chan[ear[c]] # Empty
        /\ waiter' = [waiter EXCEPT ![c] = "told"] /\ heard' = [heard EXCEPT ![c] = chan[ear[c]]]
        /\ chan' = [chan EXCEPT ![ear[c]] = Empty]
        /\ UNCHANGED <<proc, pidOf, code, killed, pids, sigchld, reaping, ear, overlap>>
    BY <1>2 DEF ReceiveCode, ReaperInv, CallersInv
  <2>2. ReaperTypeOK' /\ Noticed'
    BY <2>1 DEF ReaperInv, ReaperTypeOK, Noticed, Zombies
  <2>3. CallersInv'
    BY <2>1 DEF ReaperInv, CallersInv, ReaperTypeOK
  <2>4. OwnCode'
    <3> SUFFICES ASSUME ~overlap PROVE OwnCode'
      BY <2>1 DEF OwnCode
    <3>1. ear[c] = c /\ proc[c] = "gone" /\ chan[c] = code[c]
      BY <2>1 DEF ReaperInv, OwnCode, OwnChannel, Unheard, CallersInv, ReaperTypeOK
    <3>2. \A d \in Cmds : OwnChannel(d)'
      BY <2>1, <3>1 DEF ReaperInv, OwnCode, OwnChannel, Unheard, Got, ReaperTypeOK
    <3>3. reaping' \in Reaped =>
            \E d \in Cmds : Unheard(d)' /\ chan'[d] = Empty /\ reaping' = Got(d)'
      BY <2>1, <3>1 DEF ReaperInv, OwnCode, Unheard, Got, ReaperTypeOK
    <3> QED BY <2>1, <3>2, <3>3 DEF ReaperInv, OwnCode, ReaperTypeOK
  <2> QED BY <2>2, <2>3, <2>4 DEF ReaperInv
<1>3. CASE ForgetPid(c)
  <2>1. /\ waiter[c] = "told" /\ pidOf[c] \in Pids
        /\ waiter' = [waiter EXCEPT ![c] = "done"] /\ pids' = [pids EXCEPT ![pidOf[c]] = Nobody]
        /\ UNCHANGED <<proc, pidOf, code, killed, chan, sigchld, reaping, ear, heard, overlap>>
    BY <1>3 DEF ForgetPid, ReaperInv, CallersInv
  <2>2. ReaperTypeOK' /\ Noticed'
    BY <2>1 DEF ReaperInv, ReaperTypeOK, Noticed, Zombies
  <2>3. CallersInv'
    BY <2>1 DEF ReaperInv, CallersInv, ReaperTypeOK
  <2>4. OwnCode'
    <3> SUFFICES ASSUME ~overlap PROVE OwnCode'
      BY <2>1 DEF OwnCode
    <3>1. \A d \in Cmds : OwnChannel(d)'
      BY <2>1 DEF ReaperInv, OwnCode, OwnChannel, Unheard, Got, ReaperTypeOK
    <3>2. \A q \in Pids : pids'[q] # Nobody =>
            pidOf'[pids'[q]] = q /\ waiter'[pids'[q]] \in {"started", "waits", "told"}
      BY <2>1, NobodyIs DEF ReaperInv, OwnCode, OwnChannel, ReaperTypeOK
    <3>3. reaping' \in Reaped =>
            \E d \in Cmds : Unheard(d)' /\ chan'[d] = Empty /\ reaping' = Got(d)'
      BY <2>1 DEF ReaperInv, OwnCode, Unheard, Got, ReaperTypeOK
    <3> QED BY <3>1, <3>2, <3>3 DEF OwnCode
  <2> QED BY <2>2, <2>3, <2>4 DEF ReaperInv
<1> QED BY <1>1, <1>2, <1>3 DEF Waiting

\* What the reaper and the callers know, in every order of starts, exits, signals and
\* restarts.
LEMMA ReaperStep ==
  ASSUME ReaperInv, [Next]_vars
  PROVE  ReaperInv'
<1>1. CASE ReaperAnew
  <2>1. ReaperTypeOK'
    BY <1>1 DEF ReaperAnew, ReaperInv, ReaperTypeOK, Codes
  <2>2. CallersInv'
    BY <1>1 DEF ReaperAnew, ReaperInv, ReaperTypeOK, CallersInv
  <2>3. OwnCode'
    BY <1>1, ReapingKinds DEF ReaperAnew, OwnCode, OwnChannel, Unheard
  <2>4. Noticed'
    BY <1>1 DEF ReaperAnew, Noticed, Zombies
  <2> QED BY <2>1, <2>2, <2>3, <2>4 DEF ReaperInv
<1>2. ASSUME NEW p, Kill(p) PROVE ReaperInv'
  <2>1. ReaperTypeOK'
    BY <1>2 DEF Kill, ReaperInv, ReaperTypeOK
  <2>2. CallersInv' /\ OwnCode' /\ Noticed'
    BY <1>2
    DEF Kill, ReaperInv, CallersInv, OwnCode, OwnChannel, Unheard, Got, Noticed, Zombies
  <2> QED BY <2>1, <2>2 DEF ReaperInv
<1>3. CASE UNCHANGED reaperVars
  BY <1>3
  DEF reaperVars, ReaperInv, ReaperTypeOK, CallersInv, OwnCode, OwnChannel, Unheard, Got, Noticed,
      Zombies
<1> QED
  BY <1>1, <1>2, <1>3, ReaperSteps, StartCommandReaper, ExitsReaper, WaitingReaper, ReapingReaper
(***************************************************************************)
(* The types, in three groups.                                             *)
(***************************************************************************)
RequestTyped ==
  /\ client \in Ids \cup {"post", "wait", "flush", "ok", "failed", "gone"} /\ message \in BOOLEAN
  /\ request \in [Ids -> {"none", "select", "upgrade", "returned"}]
  /\ search \in [Ids -> {"none", "looks", "waits", "found", "ended"}]
  /\ ws \subseteq Ids /\ ioConnected \in BOOLEAN /\ controlConnected \in BOOLEAN

HandlerTyped ==
  /\ scene \in SceneType
  /\ task \in {"none", "Do", "Doing", "Ready"} /\ outcome \in {"nothing", "error", "done"}
  /\ pc \in {"idle", "connect", "start", "pid", "wait", "close", "output"}
  /\ ctx \in {"live", "cancelled", "deadline"}
  /\ setup \in BOOLEAN /\ registered \in BOOLEAN /\ exited \in BOOLEAN /\ starts \in Nat
  /\ control \in {"none", "pid", "connect", "loop", "signal", "kill", "ended"}

StreamsTyped ==
  /\ wrote \in [Ids -> 0..MaxOut] /\ sent \in [Ids -> Nat] /\ buffer \in [Ids -> Nat]
  /\ held \in [Ids -> SUBSET {"daemon", "command", "background"}]
  /\ hand \in [Ids -> 0..1] /\ sender \in [Ids -> {"none", "sends", "writes", "ended"}]
  /\ eof \in [Ids -> BOOLEAN]
  /\ reader \in {"none", "poll", "checkin", "checkboth", "send", "ended"}
  /\ watcher \in {"none", "waits", "polls", "closes", "ended"} /\ panicked \in BOOLEAN

LEMMA TypeParts == TypeOK <=> ReaperTypeOK /\ RequestTyped /\ HandlerTyped /\ StreamsTyped
BY DEF TypeOK, RequestTyped, HandlerTyped, StreamsTyped

LEMMA RequestTypeStep ==
  ASSUME RequestTyped, [Next]_vars
  PROVE  RequestTyped'
<1>1. CASE PostExec
  BY <1>1 DEF PostExec, RequestTyped, connVars, Ids
<1>2. ASSUME NEW i \in Ids, Ask(i) \/ Search(i) \/ Found(i) PROVE RequestTyped'
  BY <1>2 DEF Ask, Search, Found, RequestTyped, clientVars
<1>3. ASSUME NEW i \in Ids, GiveUp(i) \/ Upgrade(i) PROVE RequestTyped'
  <2>1. request' \in [Ids -> {"none", "select", "upgrade", "returned"}]
    BY <1>3 DEF GiveUp, Upgrade, Return, RequestTyped
  <2>2. search' \in [Ids -> {"none", "looks", "waits", "found", "ended"}]
    BY <1>3 DEF GiveUp, Upgrade, Return, Broadcast, RequestTyped
  <2>3. client' \in Ids \cup {"post", "wait", "flush", "ok", "failed", "gone"}
    BY <1>3 DEF GiveUp, Upgrade, AfterSocket, RequestTyped, Ids
  <2>4. ws' \subseteq Ids /\ ioConnected' \in BOOLEAN /\ controlConnected' \in BOOLEAN
    BY <1>3 DEF GiveUp, Upgrade, RequestTyped
  <2> QED BY <1>3, <2>1, <2>2, <2>3, <2>4 DEF GiveUp, Upgrade, RequestTyped
<1>4. CASE DoExec
  <2>1. search' \in [Ids -> {"none", "looks", "waits", "found", "ended"}]
    BY <1>4 DEF DoExec, Broadcast, RequestTyped
  <2> QED BY <1>4, <2>1 DEF DoExec, RequestTyped, clientVars
<1>5. CASE CloseFiles \/ ControlRead \/ ClientWaits \/ SendSignal \/ Leave
  BY <1>5
  DEF CloseFiles, ControlRead, ClientWaits, SendSignal, Leave, RequestTyped, clientVars, connVars
<1>6. CASE Crash
  BY <1>6 DEF Crash, RequestTyped
<1>7. CASE UNCHANGED <<clientVars, connVars>>
  BY <1>7 DEF clientVars, connVars, RequestTyped
<1> QED
  BY <1>1, <1>2, <1>3, <1>4, <1>5, <1>6, <1>7
  DEF Next, vars, Connect, Handler, IOConnected, IOTimeout, Start, SendPid, WaitForCommand,
      KillCommand, Waited, OutputSent, Control, ControlConnect, ControlKill, Reader, Poll, ReadPty,
      Watcher, ChildDead, PollOnce, CloseChannel, ReaperRuns, ReadPipe, Sender, Receive,
      WriteMessage, SendEnd, Writes, CommandCloses, CommandExits, BackgroundExits, OtherStarts,
      OtherWaits, Cancel

LEMMA HandlerTypeStep ==
  ASSUME HandlerTyped, [Next]_vars
  PROVE  HandlerTyped'
<1>1. CASE PostExec \/ DoExec
  BY <1>1 DEF PostExec, CreateTask, DoExec, HandlerTyped
<1>2. CASE IOConnected \/ SendPid \/ Waited \/ CloseFiles
  BY <1>2 DEF IOConnected, SendPid, Waited, CloseFiles, HandlerTyped
<1>3. CASE Start
  <2>1. pc' \in {"pid", "close"} /\ starts' \in {starts, starts + 1}
        /\ UNCHANGED <<scene, task, outcome, setup, ctx, registered, exited, control>>
    BY <1>3 DEF Start
  <2> QED BY <2>1 DEF HandlerTyped
<1>4. CASE IOTimeout \/ OutputSent
  BY <1>4 DEF IOTimeout, OutputSent, End, Result, HandlerTyped
<1>5. CASE Control \/ Cancel
  BY <1>5 DEF Control, ControlConnect, ControlRead, ControlKill, Cancel, HandlerTyped, doVars
<1>6. CASE SendSignal \/ Crash
  <2>1. scene' \in SceneType
    BY <1>6 DEF SendSignal, Crash, HandlerTyped, SceneType
  <2>2. CASE SendSignal
    BY <2>1, <2>2 DEF SendSignal, HandlerTyped, doVars
  <2>3. CASE Crash
    BY <2>1, <2>3 DEF Crash, HandlerTyped
  <2> QED BY <1>6, <2>2, <2>3
<1>7. CASE UNCHANGED <<scene, doVars, control>>
  BY <1>7 DEF doVars, HandlerTyped
<1> QED
  BY <1>1, <1>2, <1>4, <1>5, <1>6, <1>7, <1>3
  DEF Next, vars, Connect, Ask, Found, GiveUp, Upgrade, Search, Handler, WaitForCommand,
      KillCommand, Reader, Poll, ReadPty, Watcher, ChildDead, PollOnce, CloseChannel, ReaperRuns,
      ReadPipe, Sender, Receive, WriteMessage, SendEnd, Writes, CommandCloses, CommandExits,
      BackgroundExits, OtherStarts, OtherWaits, ClientWaits, Leave

LEMMA StreamsTypeStep ==
  ASSUME HandlerTyped, StreamsTyped, PtyInv, [Next]_vars
  PROVE  StreamsTyped'
<1>1. \A s \in Ids : buffer[s] \in Nat /\ "stdio" \in Ids
  BY DEF StreamsTyped, Ids
<1>2. CASE IOConnected
  BY <1>2 DEF IOConnected, OpenStreams, StreamsTyped
<1>3. CASE Start
  BY <1>3 DEF Start, StreamsTyped, ptyVars
<1>4. CASE CloseFiles \/ CommandExits \/ BackgroundExits
  BY <1>4 DEF CloseFiles, CommandExits, BackgroundExits, StreamsTyped, ptyVars
<1>5. ASSUME NEW s \in Ids, Writes(s) PROVE StreamsTyped'
  <2>1. scene.out \in 0..MaxOut /\ MaxOut \in Nat
    BY ExecAssumption DEF ExecAssumption, HandlerTyped, SceneType
  <2>2. wrote' \in [Ids -> 0..MaxOut]
    BY <1>5, <2>1 DEF Writes, StreamsTyped
  <2>3. buffer' \in [Ids -> Nat]
    BY <1>5 DEF Writes, StreamsTyped
  <2> QED BY <1>5, <2>2, <2>3 DEF Writes, StreamsTyped, ptyVars
<1>6. ASSUME NEW s \in Ids, CommandCloses(s) PROVE StreamsTyped'
  BY <1>6 DEF CommandCloses, StreamsTyped, ptyVars
<1>7. ASSUME NEW s \in Ids, ReadPipe(s) PROVE StreamsTyped'
  <2>1. buffer' \in [Ids -> Nat]
    BY <1>1, <1>7 DEF ReadPipe, StreamsTyped
  <2>2. hand' \in [Ids -> 0..1]
    BY <1>7 DEF ReadPipe, StreamsTyped
  <2>3. eof' \in [Ids -> BOOLEAN]
    BY <1>7 DEF ReadPipe, StreamsTyped
  <2> QED BY <1>7, <2>1, <2>2, <2>3 DEF ReadPipe, StreamsTyped, ptyVars
<1>8. CASE Poll
  BY <1>8 DEF Poll, ReaderReturns, StreamsTyped
<1>9. CASE ReadPty
  <2>1. buffer' \in [Ids -> Nat]
    BY <1>1, <1>9 DEF ReadPty, ReaderReturns, PtyInv, StreamsTyped
  <2>2. hand' \in [Ids -> 0..1]
    BY <1>9 DEF ReadPty, ReaderReturns, StreamsTyped
  <2>3. eof' \in [Ids -> BOOLEAN]
    BY <1>9 DEF ReadPty, ReaderReturns, StreamsTyped
  <2>4. reader' \in {"ended", "send"}
    BY <1>9 DEF ReadPty, ReaderReturns
  <2> QED BY <1>9, <2>1, <2>2, <2>3, <2>4 DEF ReadPty, StreamsTyped
<1>10. CASE Watcher
  BY <1>10 DEF Watcher, ChildDead, PollOnce, CloseChannel, StreamsTyped, streamVars
<1>11. ASSUME NEW s \in Ids, Sender(s) PROVE StreamsTyped'
  BY <1>11 DEF Sender, Receive, WriteMessage, SendEnd, StreamsTyped, ptyVars
<1>12. CASE Crash
  BY <1>12 DEF Crash, StreamsTyped
<1>13. CASE UNCHANGED <<streamVars, ptyVars>>
  BY <1>13 DEF streamVars, ptyVars, StreamsTyped
<1> QED
  BY <1>2, <1>3, <1>4, <1>5, <1>6, <1>7, <1>8, <1>9, <1>10, <1>11, <1>12, <1>13
  DEF Next, vars, PostExec, Connect, Ask, Found, GiveUp, Upgrade, Search, Handler, DoExec,
      IOTimeout, SendPid, WaitForCommand, KillCommand, Waited, OutputSent, Control, ControlConnect,
      ControlRead, ControlKill, Reader, ReaperRuns, OtherStarts, OtherWaits, ClientWaits,
      SendSignal, Leave, Cancel

LEMMA TypeStep ==
  ASSUME TypeOK, ReaperTypeOK', PtyInv, [Next]_vars
  PROVE  TypeOK'
<1>1. RequestTyped' /\ HandlerTyped' /\ StreamsTyped'
  BY TypeParts, RequestTypeStep, HandlerTypeStep, StreamsTypeStep
<1> QED BY <1>1 DEF TypeOK, RequestTyped, HandlerTyped, StreamsTyped

-----------------------------------------------------------------------------
(***************************************************************************)
(* Steps, by what they change.                                             *)
(***************************************************************************)
\* The handler of the task, or what it stands on.
HandlerStep ==
  \/ PostExec \/ DoExec \/ IOConnected \/ IOTimeout \/ Start \/ SendPid \/ Waited \/ CloseFiles
  \/ OutputSent \/ Cancel \/ Crash

\* The output of the command on its way to the client.
OutputStep ==
  \/ CommandExits \/ BackgroundExits \/ Reader \/ Watcher
  \/ \E s \in Ids : Writes(s) \/ CommandCloses(s) \/ ReadPipe(s) \/ Sender(s)

\* The processes, but for the start and the end of the command.
ProcessStep ==
  \/ WaitForCommand \/ KillCommand \/ ControlKill \/ ReaperRuns
  \/ \E c \in Others : OtherStarts(c) \/ OtherWaits(c)

LEMMA StepKinds ==
  ASSUME [Next]_vars
  PROVE  \/ HandlerStep \/ OutputStep
         \/ ProcessStep /\ UNCHANGED <<scene, clientVars, doVars, streamVars, ptyVars>>
         \/ UNCHANGED <<doVars, streamVars, ptyVars, reaperVars>>
BY DEF Next, vars, Connect, Ask, Found, GiveUp, Upgrade, Search, Handler, HandlerStep, OutputStep,
       ProcessStep, WaitForCommand, KillCommand, Control, ControlConnect, ControlRead, ControlKill,
       ReaperRuns, OtherStarts, OtherWaits, ClientWaits, SendSignal, Leave

LEMMA ClientSteps ==
  ASSUME [Next]_vars
  PROVE  \/ client' = client \/ PostExec \/ ClientWaits \/ Leave \/ Crash
         \/ \E i \in Ids : GiveUp(i) \/ Upgrade(i)
BY DEF Next, vars, clientVars, Connect, Ask, Found, Search, Handler, DoExec, IOConnected, IOTimeout,
       Start, SendPid, WaitForCommand, KillCommand, Waited, CloseFiles, OutputSent, Control,
       ControlConnect, ControlRead, ControlKill, Reader, Poll, ReadPty, Watcher, ChildDead,
       PollOnce, CloseChannel, ReaperRuns, ReadPipe, Sender, Receive, WriteMessage, SendEnd, Writes,
       CommandCloses, CommandExits, BackgroundExits, OtherStarts, OtherWaits, SendSignal, Cancel

\* A client that is gone, or was told of a failure, stays so.
LEMMA GoneStays ==
  ASSUME PlaceInv, [Next]_vars, Connected'
  PROVE  Connected
BY ClientSteps
DEF Connected, PlaceInv, PostExec, ClientWaits, Leave, Crash, GiveUp, Upgrade, Ids

(***************************************************************************)
(* What steps do to the command.                                           *)
(***************************************************************************)
LEMMA TheIs == The \in Cmds
BY ExecAssumption DEF ExecAssumption

LEMMA ProcessSteps ==
  ASSUME ReaperInv, ProcessStep
  PROVE  /\ proc'[The] = proc[The] \/ (proc[The] = "zombie" /\ proc'[The] = "gone")
         /\ waiter'[The] = waiter[The] \/ pc = "wait"
         /\ overlap => overlap'
<1>1. ASSUME NEW c \in Others, StartCommand(c) \/ Exits(c) \/ Waiting(c)
      PROVE  proc'[The] = proc[The] /\ waiter'[The] = waiter[The] /\ (overlap => overlap')
  BY <1>1, TheIs
  DEF Others, StartCommand, Exits, Waiting, WaitCommand, ReceiveCode, ForgetPid, ReaperInv,
      ReaperTypeOK
<1>2. CASE WaitForCommand
  BY <1>2 DEF WaitForCommand, Waiting, WaitCommand, ReceiveCode, ForgetPid
<1>3. CASE KillCommand \/ ControlKill
  BY <1>3 DEF KillCommand, ControlKill, Kill
<1>4. CASE ReaperRuns
  BY <1>4, TheIs
  DEF ReaperRuns, Reaping, SigChld, ReapOnce, ReapReturns, PassOn, Zombies, ReaperInv, ReaperTypeOK
<1> QED BY <1>1, <1>2, <1>3, <1>4 DEF ProcessStep, OtherStarts, OtherWaits

LEMMA StartSteps ==
  ASSUME ReaperInv, StartCommand(The)
  PROVE  /\ proc[The] = "none" /\ proc'[The] = "runs" /\ waiter'[The] = "started"
         /\ overlap => overlap'
BY TheIs DEF StartCommand, ReaperInv, ReaperTypeOK

LEMMA ExitSteps ==
  ASSUME ReaperInv, CommandExits
  PROVE  proc[The] = "runs" /\ proc'[The] = "zombie" /\ UNCHANGED <<waiter, overlap, ear>>
BY TheIs DEF CommandExits, Exits, ReaperInv, ReaperTypeOK

\* Only a command that runs, after a start of the handler, is killed.
LEMMA KillSteps ==
  ASSUME ReaperInv, [Next]_vars, ~killed[The], killed'[The]
  PROVE  proc[The] = "runs"
<1>1. CASE UNCHANGED killed
  BY <1>1
<1>2. ASSUME NEW p, Kill(p) PROVE proc[The] = "runs"
  BY <1>2, TheIs DEF Kill
<1> QED
  BY <1>1, <1>2, ReaperSteps
  DEF StartCommand, Exits, Waiting, WaitCommand, ReceiveCode, ForgetPid, Reaping, SigChld,
      ReapOnce, ReapReturns, PassOn, ReaperAnew, reaperVars

(***************************************************************************)
(* Where the handler is.                                                   *)
(***************************************************************************)
LEMMA PlaceStep ==
  ASSUME TypeOK, PlaceInv, FreshInv, [Next]_vars
  PROVE  PlaceInv'
<1>1. CASE PostExec
  BY <1>1 DEF PostExec, CreateTask, PlaceInv, FreshInv, Unstarted, Fresh
<1>2. CASE HandlerStep /\ ~PostExec
  BY <1>2
  DEF HandlerStep, DoExec, IOConnected, IOTimeout, Start, SendPid, Waited, CloseFiles, OutputSent,
      End, Cancel, Crash, PlaceInv, TypeOK, clientVars
<1>3. ASSUME UNCHANGED doVars PROVE PlaceInv'
  BY <1>3, ClientSteps
  DEF PlaceInv, TypeOK, doVars, PostExec, ClientWaits, Leave, Crash, GiveUp, Upgrade, AfterSocket,
      Ids
<1>4. OutputStep => UNCHANGED doVars
  BY DEF OutputStep, CommandExits, BackgroundExits, Reader, Poll, ReadPty, Watcher, ChildDead,
         PollOnce, CloseChannel, Writes, CommandCloses, ReadPipe, Sender, Receive, WriteMessage,
         SendEnd
<1> QED BY <1>1, <1>2, <1>3, <1>4, StepKinds

LEMMA AskingStep ==
  ASSUME TypeOK, Asking, [Next]_vars
  PROVE  Asking'
<1>1. ASSUME NEW i \in Ids, Ask(i) \/ Found(i) \/ GiveUp(i) \/ Upgrade(i) PROVE Asking'
  <2>1. CASE Ask(i) \/ Found(i)
    <3>1. UNCHANGED client
      BY <2>1 DEF Ask, Found, clientVars
    <3>2. request[i] = "select" \/ client = i
      BY <2>1 DEF Ask, Found
    <3>3. \A j \in Ids : j # i => request'[j] = request[j]
      BY <2>1 DEF Ask, Found, TypeOK
    <3> QED BY <3>1, <3>2, <3>3 DEF Asking, Connected
  <2>2. CASE GiveUp(i) \/ Upgrade(i)
    <3>1. request'[i] = "returned" /\ \A j \in Ids : j # i => request'[j] = request[j]
      BY <2>2 DEF GiveUp, Upgrade, Return, TypeOK
    <3>2. CASE Connected
      <4>1. client = i
        BY <2>2, <3>2 DEF GiveUp, Upgrade, Asking
      <4>2. \A j \in Ids : j # i => request[j] \notin {"select", "upgrade"}
        BY <3>2, <4>1 DEF Asking
      <4> QED BY <3>1, <4>2 DEF Asking
    <3>3. CASE ~Connected
      BY <2>2, <3>3 DEF GiveUp, Upgrade, Asking, Connected
    <3> QED BY <3>2, <3>3
  <2> QED BY <1>1, <2>1, <2>2
<1>2. CASE Crash
  BY <1>2 DEF Crash, Asking
<1>3. CASE UNCHANGED request /\ (PostExec \/ ClientWaits \/ Leave)
  BY <1>3 DEF PostExec, ClientWaits, Leave, Asking, Connected, Ids
<1>4. CASE UNCHANGED <<client, request>>
  BY <1>4 DEF Asking, Connected
<1>5. UNCHANGED request \/ Crash \/ \E i \in Ids : Ask(i) \/ Found(i) \/ GiveUp(i) \/ Upgrade(i)
  BY DEF Next, vars, connVars, PostExec, Connect, Search, Handler, DoExec, IOConnected, IOTimeout,
         Start, SendPid, WaitForCommand, KillCommand, Waited, CloseFiles, OutputSent, Control,
         ControlConnect, ControlRead, ControlKill, Reader, Poll, ReadPty, Watcher, ChildDead,
         PollOnce, CloseChannel, ReaperRuns, ReadPipe, Sender, Receive, WriteMessage, SendEnd,
         Writes, CommandCloses, CommandExits, BackgroundExits, OtherStarts, OtherWaits,
         ClientWaits, SendSignal, Leave, Cancel
<1> QED BY <1>1, <1>2, <1>3, <1>4, <1>5, ClientSteps

LEMMA FreshStep ==
  ASSUME TypeOK, ReaperInv, FreshInv, PlaceInv, [Next]_vars
  PROVE  FreshInv'
<1>1. CASE PostExec \/ DoExec
  BY <1>1
  DEF PostExec, CreateTask, DoExec, FreshInv, Unstarted, Fresh, PlaceInv, streamVars, ptyVars,
      doVars, reaperVars
<1>2. CASE HandlerStep /\ ~PostExec /\ ~DoExec
  BY <1>2
  DEF HandlerStep, IOConnected, IOTimeout, Start, SendPid, Waited, CloseFiles, OutputSent, End,
      Cancel, Crash, FreshInv, Unstarted, Fresh, PlaceInv, TypeOK, streamVars, ptyVars, doVars,
      reaperVars
<1>3. CASE OutputStep
  <2>1. proc[The] # "runs" /\ reader = "none" /\ watcher = "none" /\ ~exited
        /\ (\A s \in Ids : held[s] = {} /\ sender[s] = "none")
        => FALSE
    BY <1>3
    DEF OutputStep, CommandExits, Exits, BackgroundExits, Reader, Poll, ReadPty, Watcher, ChildDead,
        PollOnce, CloseChannel, Writes, CommandCloses, ReadPipe, Sender, Receive, WriteMessage,
        SendEnd
  <2>2. UNCHANGED doVars
    BY <1>3
    DEF OutputStep, CommandExits, BackgroundExits, Reader, Poll, ReadPty, Watcher, ChildDead,
        PollOnce, CloseChannel, Writes, CommandCloses, ReadPipe, Sender, Receive, WriteMessage,
        SendEnd
  <2> QED BY <2>1, <2>2 DEF FreshInv, Fresh, Unstarted, doVars
<1>4. CASE ProcessStep /\ UNCHANGED <<scene, clientVars, doVars, streamVars, ptyVars>>
  <2>1. Unstarted => UNCHANGED control /\ pc # "wait"
    BY <1>4
    DEF ProcessStep, WaitForCommand, KillCommand, ControlKill, ReaperRuns, OtherStarts, OtherWaits,
        FreshInv, Fresh, Unstarted, PlaceInv
  <2>2. Unstarted' = Unstarted
    BY <1>4 DEF Unstarted, doVars
  <2>3. Unstarted => proc'[The] = "none" /\ ~killed'[The]
    BY <1>4, ProcessSteps, KillSteps DEF FreshInv, Fresh
  <2> QED BY <1>4, <2>1, <2>2, <2>3 DEF FreshInv, Fresh, doVars, streamVars, ptyVars
<1>5. CASE UNCHANGED <<doVars, streamVars, ptyVars, reaperVars>>
  <2>1. control = "none" => UNCHANGED control
    BY <1>5
    DEF Next, vars, PostExec, Connect, Ask, Found, GiveUp, Upgrade, Search, Handler, DoExec,
        IOConnected, IOTimeout, Start, SendPid, WaitForCommand, KillCommand, Waited, CloseFiles,
        OutputSent, Control, ControlConnect, ControlRead, ControlKill, Reader, Poll, ReadPty,
        Watcher, ChildDead, PollOnce, CloseChannel, ReaperRuns, ReadPipe, Sender, Receive,
        WriteMessage, SendEnd, Writes, CommandCloses, CommandExits, BackgroundExits, OtherStarts,
        OtherWaits, ClientWaits, SendSignal, Leave, Cancel, Crash, doVars
  <2> QED BY <1>5, <2>1 DEF FreshInv, Fresh, Unstarted, doVars, streamVars, ptyVars, reaperVars
<1> QED BY <1>1, <1>2, <1>3, <1>4, <1>5, StepKinds

LEMMA CommandStep ==
  ASSUME TypeOK, ReaperInv, FreshInv, PlaceInv, CommandInv, ReaperInv', [Next]_vars
  PROVE  CommandInv'
\* The exit code came from the reaper, or nothing was ever started.
<1>1. /\ waiter[The] = "no" => ear[The] = Nobody
      /\ waiter[The] = "done" /\ ~overlap => proc[The] = "gone"
      /\ proc[The] = "none" => waiter[The] = "no"
      /\ waiter[The] = "no" /\ ~overlap => proc[The] \in {"none", "gone"}
      /\ waiter[The] \in {"no", "done"} /\ ear[The] # Nobody => waiter[The] = "done"
  BY TheIs DEF ReaperInv, CallersInv, OwnCode, OwnChannel, ReaperTypeOK
<1>2. CASE Start
  <2>1. CASE StartCommand(The) /\ pc' = "pid" /\ starts' = starts + 1
    BY <1>2, <2>1, StartSteps DEF Start, CommandInv, PlaceInv
  <2>2. CASE pc' = "close" /\ UNCHANGED <<starts, held, reaperVars>>
    BY <1>1, <1>2, <2>2 DEF Start, CommandInv, reaperVars
  <2> QED BY <1>2, <2>1, <2>2 DEF Start
<1>3. CASE CloseFiles
  <2>1. waiter[The] \in {"no", "done"}
    BY <1>3 DEF CloseFiles, CommandInv
  <2> QED BY <1>1, <1>3, <2>1 DEF CloseFiles, CommandInv, reaperVars
<1>4. CASE OutputSent
  <2>1. outcome' = "done" => ear[The] # Nobody
    BY <1>4 DEF OutputSent, End, Result
  <2>2. waiter[The] \in {"no", "done"}
    BY <1>4 DEF OutputSent, CommandInv
  <2> QED BY <1>1, <1>4, <2>1, <2>2 DEF OutputSent, End, CommandInv, reaperVars
<1>5. CASE Crash
  BY <1>5, TheIs DEF Crash, ReaperAnew, CommandInv, ReaperInv, ReaperTypeOK
<1>6. CASE HandlerStep /\ ~Start /\ ~CloseFiles /\ ~OutputSent /\ ~Crash
  BY <1>6
  DEF HandlerStep, PostExec, DoExec, IOConnected, IOTimeout, SendPid, Waited, End, Cancel,
      CommandInv, FreshInv, Unstarted, Fresh, reaperVars
<1>7. CASE OutputStep
  <2>1. UNCHANGED doVars
    BY <1>7
    DEF OutputStep, CommandExits, BackgroundExits, Reader, Poll, ReadPty, Watcher, ChildDead,
        PollOnce, CloseChannel, Writes, CommandCloses, ReadPipe, Sender, Receive, WriteMessage,
        SendEnd
  <2>2. CASE CommandExits
    BY <2>1, <2>2, ExitSteps DEF CommandInv, doVars
  <2>3. CASE ~CommandExits
    <3>1. UNCHANGED reaperVars
      BY <1>7, <2>3
      DEF OutputStep, BackgroundExits, Reader, Poll, ReadPty, Watcher, ChildDead, PollOnce,
          CloseChannel, Writes, CommandCloses, ReadPipe, Sender, Receive, WriteMessage, SendEnd
    <3> QED BY <2>1, <3>1 DEF CommandInv, doVars, reaperVars
  <2> QED BY <2>2, <2>3
<1>8. CASE ProcessStep /\ UNCHANGED <<scene, clientVars, doVars, streamVars, ptyVars>>
  BY <1>8, ProcessSteps DEF CommandInv, PlaceInv, doVars
<1>9. CASE UNCHANGED <<doVars, streamVars, ptyVars, reaperVars>>
  BY <1>9 DEF CommandInv, doVars, reaperVars
<1> QED BY <1>2, <1>3, <1>4, <1>5, <1>6, <1>7, <1>8, <1>9, StepKinds

\* A stream is never without its sender again, but for a crash.
LEMMA SenderStays ==
  ASSUME TypeOK, [Next]_vars, ~Crash, ~IOConnected
  PROVE  /\ \A s \in Ids : (sender'[s] = "none") = (sender[s] = "none")
         /\ Streams' = Streams /\ scene'.back = scene.back /\ scene'.terminal = scene.terminal
<1>1. sender' = sender \/ \E s \in Ids : Sender(s)
  BY DEF Next, vars, streamVars, PostExec, Connect, Ask, Found, GiveUp, Upgrade, Search, Handler,
      DoExec, IOTimeout, Start, SendPid, WaitForCommand, KillCommand, Waited, CloseFiles,
      OutputSent, Control, ControlConnect, ControlRead, ControlKill, Reader, Poll, ReadPty, Watcher,
      ChildDead, PollOnce, CloseChannel, ReaperRuns, ReadPipe, Writes, CommandCloses, CommandExits,
      BackgroundExits, OtherStarts, OtherWaits, ClientWaits, SendSignal, Leave, Cancel
<1>2. \A s \in Ids : (sender'[s] = "none") = (sender[s] = "none")
  BY <1>1 DEF Sender, Receive, WriteMessage, SendEnd, TypeOK
<1>3. scene' = scene \/ SendSignal
  BY DEF Next, vars, PostExec, Connect, Ask, Found, GiveUp, Upgrade, Search, Handler,
      DoExec, IOTimeout, Start, SendPid, WaitForCommand, KillCommand, Waited, CloseFiles,
      OutputSent, Control, ControlConnect, ControlRead, ControlKill, Reader, Poll, ReadPty, Watcher,
      ChildDead, PollOnce, CloseChannel, ReaperRuns, ReadPipe, Sender, Receive, WriteMessage,
      SendEnd, Writes, CommandCloses, CommandExits,
      BackgroundExits, OtherStarts, OtherWaits, ClientWaits, Leave, Cancel
<1>4. Streams' = Streams /\ scene'.back = scene.back /\ scene'.terminal = scene.terminal
  BY <1>3 DEF SendSignal, Streams, TypeOK, SceneType
<1> QED BY <1>2, <1>4

LEMMA OpenStep ==
  ASSUME TypeOK, PlaceInv, OpenInv, [Next]_vars
  PROVE  OpenInv'
<1>1. Streams \subseteq Ids
  BY DEF Streams, Ids
<1>2. CASE IOConnected
  BY <1>1, <1>2 DEF IOConnected, OpenStreams, OpenInv, Streams
<1>3. CASE Crash
  BY <1>3 DEF Crash, OpenInv
<1>4. ASSUME ~Crash, ~IOConnected PROVE OpenInv'
  <2>1. CASE CloseFiles \/ pc' \notin {"start", "pid", "wait", "close"}
    BY <2>1 DEF CloseFiles, OpenInv
  <2>2. ASSUME ~CloseFiles, pc' \in {"start", "pid", "wait", "close"}
        PROVE  pc \in {"start", "pid", "wait", "close"}
    BY <1>4, <2>2, StepKinds
    DEF HandlerStep, PostExec, DoExec, IOTimeout, Start, SendPid, Waited, OutputSent, End, Cancel,
        OutputStep, CommandExits, BackgroundExits, Reader, Poll, ReadPty, Watcher, ChildDead,
        PollOnce, CloseChannel, Writes, CommandCloses, ReadPipe, Sender, Receive, WriteMessage,
        SendEnd, doVars
  <2>3. ASSUME ~CloseFiles, NEW s \in Streams, "daemon" \in held[s] PROVE "daemon" \in held'[s]
    <3>1. CASE HandlerStep /\ ~Start
      BY <1>4, <2>3, <3>1
      DEF HandlerStep, PostExec, DoExec, IOTimeout, SendPid, Waited, OutputSent, Cancel, streamVars
    <3>2. CASE Start
      BY <1>1, <2>3, <3>2 DEF Start
    <3>3. CASE OutputStep /\ ~CommandExits /\ ~BackgroundExits
      BY <1>1, <2>3, <3>3
      DEF OutputStep, Reader, Poll, ReadPty, Watcher, ChildDead, PollOnce, CloseChannel, Writes,
          CommandCloses, ReadPipe, Sender, Receive, WriteMessage, SendEnd, TypeOK, streamVars
    <3>4. CASE CommandExits \/ BackgroundExits
      BY <1>1, <2>3, <3>4 DEF CommandExits, BackgroundExits
    <3> QED BY <2>3, <3>1, <3>2, <3>3, <3>4, StepKinds DEF streamVars
  <2> QED BY <1>1, <1>4, <2>1, <2>2, <2>3, SenderStays DEF OpenInv
<1> QED BY <1>2, <1>3, <1>4

-----------------------------------------------------------------------------
(***************************************************************************)
(* The streams.                                                            *)
(***************************************************************************)
LEMMA StreamsAre == Streams \subseteq Ids /\ "stdio" \in Streams /\ "stdio" \in Ids
BY DEF Streams, Ids

LEMMA HeldStep ==
  ASSUME TypeOK, ReaperInv, FreshInv, PlaceInv, HeldInv, PtyInv, [Next]_vars
  PROVE  HeldInv'
<1>1. CASE Crash
  BY <1>1 DEF Crash, HeldInv, Streams
<1>2. CASE IOConnected
  BY <1>2, StreamsAre
  DEF IOConnected, OpenStreams, FreshInv, Unstarted, Fresh, HeldInv, Streams, reaperVars
<1>3. CASE Start
  <2>1. CASE StartCommand(The)
    <3>1. ~exited /\ UNCHANGED <<exited, scene, sender, hand, eof>>
      BY <1>3 DEF Start, PlaceInv
    <3>2. \A s \in Ids : /\ s \in Streams => "daemon" \in held'[s]
                         /\ "background" \in held'[s] => scene.back
                         /\ s \notin Streams => held'[s] = {}
      BY <1>3, <2>1, StartSteps DEF Start, reaperVars
    <3> QED BY <2>1, <3>1, <3>2, StartSteps DEF HeldInv, Streams
  <2>2. CASE UNCHANGED <<starts, held, reaperVars>>
    BY <1>3, <2>2 DEF Start, HeldInv, Streams, reaperVars
  <2> QED BY <1>3, <2>1, <2>2 DEF Start
<1>4. CASE CloseFiles
  BY <1>4 DEF CloseFiles, HeldInv, Streams, reaperVars
<1>5. CASE HandlerStep /\ ~IOConnected /\ ~Start /\ ~CloseFiles /\ ~Crash
  BY <1>5
  DEF HandlerStep, PostExec, DoExec, IOTimeout, SendPid, Waited, OutputSent, End, Cancel, HeldInv,
      Streams, streamVars, reaperVars
<1>6. CASE CommandExits
  BY <1>6, ExitSteps DEF CommandExits, HeldInv, Streams, doVars
<1>7. CASE OutputStep /\ ~CommandExits
  <2>1. /\ UNCHANGED <<scene, doVars, proc>>
        /\ \A s \in Ids : /\ held'[s] \subseteq held[s]
                          /\ "daemon" \in held[s] => "daemon" \in held'[s]
    BY <1>7
    DEF OutputStep, BackgroundExits, Reader, Poll, ReadPty, Watcher, ChildDead, PollOnce,
        CloseChannel, Writes, CommandCloses, ReadPipe, Sender, Receive, WriteMessage, SendEnd,
        TypeOK, streamVars, reaperVars
  <2>2. \A s \in Ids : sender'[s] = "none" => sender[s] = "none"
    BY <1>7
    DEF OutputStep, BackgroundExits, Reader, Poll, ReadPty, Watcher, ChildDead, PollOnce,
        CloseChannel, Writes, CommandCloses, ReadPipe, Sender, Receive, WriteMessage, SendEnd,
        TypeOK, streamVars
  <2>3. \A s \in Ids : sender[s] = "none" => sender'[s] = "none" /\ hand'[s] = 0 /\ ~eof'[s]
    BY <1>7, StreamsAre
    DEF OutputStep, BackgroundExits, Reader, Poll, ReadPty, ReaderReturns, Watcher, ChildDead,
        PollOnce, CloseChannel, Writes, CommandCloses, ReadPipe, Sender, Receive, WriteMessage,
        SendEnd, TypeOK, HeldInv, PtyInv, streamVars
  <2> QED BY <2>1, <2>2, <2>3 DEF HeldInv, Streams, doVars
<1>8. CASE ProcessStep /\ UNCHANGED <<scene, clientVars, doVars, streamVars, ptyVars>>
  BY <1>8, ProcessSteps DEF HeldInv, Streams, doVars, streamVars
<1>9. CASE UNCHANGED <<doVars, streamVars, ptyVars, reaperVars>> /\ ~Crash /\ ~IOConnected
  BY <1>9, SenderStays DEF HeldInv, doVars, streamVars, reaperVars
<1> QED BY <1>1, <1>2, <1>3, <1>4, <1>5, <1>6, <1>7, <1>8, <1>9, StepKinds

LEMMA PtyStep ==
  ASSUME TypeOK, FreshInv, PlaceInv, HeldInv, PtyInv, [Next]_vars
  PROVE  PtyInv'
<1>1. CASE Crash
  BY <1>1 DEF Crash, PtyInv, Ids
<1>2. CASE IOConnected
  BY <1>2, StreamsAre DEF IOConnected, OpenStreams, PtyInv, FreshInv, Unstarted, Fresh
<1>3. CASE HandlerStep /\ ~Crash /\ ~IOConnected
  BY <1>3
  DEF HandlerStep, PostExec, DoExec, IOTimeout, Start, SendPid, Waited, CloseFiles, OutputSent, End,
      Cancel, PtyInv, PlaceInv, TypeOK, streamVars, ptyVars
<1>4. CASE CommandExits \/ BackgroundExits \/ \E s \in Ids : CommandCloses(s)
  BY <1>4 DEF CommandExits, BackgroundExits, CommandCloses, PtyInv, ptyVars, doVars
<1>5. ASSUME NEW s \in Ids, Writes(s) \/ ReadPipe(s) PROVE PtyInv'
  BY <1>5, StreamsAre DEF Writes, ReadPipe, Pty, PtyInv, TypeOK, ptyVars, doVars
<1>6. CASE Reader
  BY <1>6, StreamsAre DEF Reader, Poll, ReadPty, ReaderReturns, Input, PtyInv, TypeOK, doVars
<1>7. CASE Watcher
  BY <1>7 DEF Watcher, ChildDead, PollOnce, CloseChannel, PtyInv, streamVars, doVars
<1>8. ASSUME NEW s \in Ids, Sender(s) PROVE PtyInv'
  BY <1>8, StreamsAre
  DEF Sender, Receive, WriteMessage, SendEnd, Pty, PtyInv, TypeOK, ptyVars, doVars
<1>9. CASE UNCHANGED <<doVars, streamVars, ptyVars>> /\ ~Crash /\ ~IOConnected
  BY <1>9, SenderStays DEF PtyInv, doVars, streamVars, ptyVars
<1> QED BY <1>1, <1>2, <1>3, <1>4, <1>5, <1>6, <1>7, <1>8, <1>9, StepKinds DEF OutputStep

\* What makes the output clean cannot be gained again.
LEMMA CleanStays ==
  ASSUME TypeOK, ReaperInv, [Next]_vars, ~Crash, ~IOConnected, Clean'
  PROVE  Clean
<1>1. overlap => overlap'
  BY ReaperSteps
  DEF StartCommand, Exits, Waiting, WaitCommand, ReceiveCode, ForgetPid, Reaping, SigChld,
      ReapOnce, ReapReturns, PassOn, ReaperAnew, Kill, reaperVars
<1> QED BY <1>1, SenderStays DEF Clean

\* Without a process in the background, the terminal has hung up when the command was waited
\* for.
LEMMA HungUp ==
  ASSUME TypeOK, CommandInv, HeldInv, exited, Clean
  PROVE  \A s \in Ids : held[s] = {}
BY DEF CommandInv, HeldInv, Clean, TypeOK

LEMMA EndStep ==
  ASSUME TypeOK, ReaperInv, FreshInv, PlaceInv, OpenInv, CommandInv, HeldInv, PtyInv, EndInv,
         [Next]_vars
  PROVE  EndInv'
<1>1. CASE Crash
  BY <1>1 DEF Crash, EndInv, PlaceInv
<1>2. CASE IOConnected
  BY <1>2 DEF IOConnected, OpenStreams, EndInv, FreshInv, Unstarted, Fresh
<1>3. CASE Start /\ ~Crash /\ ~IOConnected
  <2>1. ~exited /\ UNCHANGED <<client, sender, eof, buffer, hand, exited, watcher>>
    BY <1>3 DEF Start, PlaceInv, clientVars, ptyVars
  <2> QED BY <1>3, <2>1, CleanStays DEF EndInv, Connected
<1>4. CASE HandlerStep /\ ~Crash /\ ~IOConnected /\ ~Start
  <2>1. UNCHANGED <<sender, eof, buffer, hand, watcher>> /\ (exited => exited')
        /\ \A s \in Ids : held[s] = {} => held'[s] = {}
    BY <1>4
    DEF HandlerStep, PostExec, DoExec, IOTimeout, SendPid, Waited, CloseFiles, OutputSent, End,
        Cancel, streamVars, ptyVars
  <2> QED BY <1>4, <2>1, CleanStays, GoneStays DEF EndInv
<1>5. CASE OutputStep /\ ~Crash /\ ~IOConnected
  <2>1. UNCHANGED <<client, doVars>>
    BY <1>5
    DEF OutputStep, CommandExits, BackgroundExits, Reader, Poll, ReadPty, Watcher, ChildDead,
        PollOnce, CloseChannel, Writes, CommandCloses, ReadPipe, Sender, Receive, WriteMessage,
        SendEnd, clientVars
  <2>2. UNCHANGED <<client, doVars>> /\ (Clean' => Clean) /\ Connected' = Connected
    BY <1>5, <2>1, CleanStays DEF Connected
  <2>3. CASE CommandExits \/ BackgroundExits \/ \E s \in Ids : CommandCloses(s)
    BY <2>2, <2>3 DEF CommandExits, BackgroundExits, CommandCloses, EndInv, doVars, ptyVars, TypeOK
  <2>4. ASSUME NEW s \in Ids, Writes(s) PROVE EndInv'
    BY <2>2, <2>4 DEF Writes, EndInv, doVars, ptyVars, TypeOK
  <2>5. ASSUME NEW s \in Ids, ReadPipe(s) PROVE EndInv'
    BY <2>2, <2>5 DEF ReadPipe, EndInv, HeldInv, doVars, ptyVars, TypeOK
  <2>6. CASE Reader
    <3>1. Closed /\ Connected => eof["stdio"]
      BY StreamsAre DEF Closed, EndInv
    <3>2. reader # "none" /\ watcher # "none"
      BY <2>6 DEF Reader, Poll, ReadPty, PtyInv
    <3>3. HangsUp => exited
      BY <3>2, StreamsAre DEF HangsUp, HeldInv, PtyInv
    <3>4. CASE ReaderReturns /\ (Closed \/ (HangsUp /\ ~Input))
      BY <2>2, <2>6, <3>1, <3>3, <3>4, StreamsAre
      DEF Reader, Poll, ReadPty, ReaderReturns, HangsUp, Input, EndInv, doVars, TypeOK
    <3>5. CASE Leaves /\ ~Clean /\ ReaderReturns
      BY <2>2, <2>6, <3>2, <3>5, StreamsAre
      DEF Reader, Poll, ReadPty, ReaderReturns, Leaves, EndInv, PtyInv, doVars, TypeOK
    <3>6. Leaves /\ Clean => FALSE
      BY <3>2, HungUp, StreamsAre DEF Leaves, PtyInv, HangsUp, Clean
    <3>7. CASE Poll /\ ~Closed /\ UNCHANGED <<eof, hand, buffer>>
      BY <2>2, <3>7 DEF Poll, EndInv, doVars
    <3>8. CASE ReadPty /\ ~Closed /\ ~Leaves /\ reader' = "send"
      <4>1. /\ hand' = [hand EXCEPT !["stdio"] = 1] /\ buffer' = [buffer EXCEPT !["stdio"] = @ - 1]
            /\ UNCHANGED <<eof, sender, held, watcher, scene>>
        BY <3>8 DEF ReadPty, ReaderReturns
      <4>2. eof["stdio"] /\ Connected /\ Clean => FALSE
        BY <3>2, <3>8, StreamsAre DEF EndInv, ReadPty, PtyInv, HangsUp, Input
      <4> QED BY <2>2, <3>8, <4>1, <4>2, StreamsAre DEF EndInv, Closed, doVars, TypeOK
    <3> QED BY <2>6, <3>4, <3>5, <3>6, <3>7, <3>8 DEF Reader, Poll, ReadPty, ReaderReturns
  <2>7. CASE Watcher
    BY <2>2, <2>7, StreamsAre, HungUp
    DEF Watcher, ChildDead, PollOnce, CloseChannel, Closed, HangsUp, Input, EndInv, HeldInv,
        PtyInv, doVars, streamVars, TypeOK
  <2>8. ASSUME NEW s \in Ids, Sender(s) PROVE EndInv'
    <3>1. CASE Receive(s)
      BY <2>2, <3>1 DEF Receive, EndInv, doVars, TypeOK
    <3>2. CASE WriteMessage(s)
      BY <2>2, <3>2, StreamsAre DEF WriteMessage, EndInv, doVars, ptyVars, TypeOK
    <3>3. CASE SendEnd(s)
      BY <2>2, <3>3, StreamsAre DEF SendEnd, EndInv, doVars, ptyVars, TypeOK
    <3> QED BY <2>8, <3>1, <3>2, <3>3 DEF Sender
  <2> QED BY <1>5, <2>3, <2>4, <2>5, <2>6, <2>7, <2>8 DEF OutputStep
<1>6. CASE UNCHANGED <<doVars, streamVars, ptyVars>> /\ ~Crash /\ ~IOConnected
  BY <1>6, CleanStays, GoneStays DEF EndInv, doVars, streamVars, ptyVars
<1> QED BY <1>1, <1>2, <1>3, <1>4, <1>5, <1>6, StepKinds

LEMMA ConservedStep ==
  ASSUME TypeOK, FreshInv, PlaceInv, Asking, HeldInv, PtyInv, Conserved, [Next]_vars
  PROVE  Conserved'
<1> SUFFICES ASSUME client' \notin {"gone", "failed", "ok"}, ~scene'.back, NEW s \in Ids
             PROVE  wrote'[s] = sent'[s] + OnTheWay(s)'
  BY DEF Conserved
<1>1. client \notin {"gone", "failed", "ok"} /\ ~Crash
  BY ClientSteps
  DEF PlaceInv, Asking, Connected, PostExec, ClientWaits, Leave, Crash, GiveUp, Upgrade, Ids
<1>2. CASE IOConnected
  BY <1>2 DEF IOConnected, OpenStreams, OnTheWay, FreshInv, Unstarted, Fresh
<1>3. ASSUME ~IOConnected PROVE ~scene.back /\ wrote[s] = sent[s] + OnTheWay(s)
  BY <1>1, <1>3, SenderStays DEF Conserved
<1>4. CASE HandlerStep /\ ~IOConnected
  BY <1>1, <1>3, <1>4
  DEF HandlerStep, PostExec, DoExec, IOTimeout, Start, SendPid, Waited, CloseFiles, OutputSent,
      Cancel, OnTheWay, streamVars
<1>5. CASE OutputStep /\ ~IOConnected
  <2>1. /\ wrote[s] \in Nat /\ sent[s] \in Nat /\ buffer[s] \in Nat /\ hand[s] \in {0, 1}
        /\ wrote[s] = sent[s] + OnTheWay(s) /\ ~scene.back
    BY <1>3, <1>5 DEF TypeOK
  <2>2. CASE CommandExits \/ BackgroundExits \/ Watcher \/ \E r \in Ids : CommandCloses(r)
    BY <2>1, <2>2
    DEF CommandExits, BackgroundExits, CommandCloses, Watcher, ChildDead, PollOnce, CloseChannel,
        OnTheWay, streamVars
  <2>3. ASSUME NEW r \in Ids, Writes(r) PROVE wrote'[s] = sent'[s] + OnTheWay(s)'
    BY <2>1, <2>3 DEF Writes, HeldInv, OnTheWay, TypeOK
  <2>4. ASSUME NEW r \in Ids, ReadPipe(r) PROVE wrote'[s] = sent'[s] + OnTheWay(s)'
    BY <2>1, <2>4 DEF ReadPipe, OnTheWay, TypeOK
  <2>5. CASE Reader
    <3>1. CASE UNCHANGED <<hand, buffer>>
      BY <2>1, <2>5, <3>1 DEF Reader, Poll, ReadPty, OnTheWay
    <3>2. CASE ~UNCHANGED <<hand, buffer>>
      <4>1. /\ hand["stdio"] = 0 /\ hand' = [hand EXCEPT !["stdio"] = 1]
            /\ buffer' = [buffer EXCEPT !["stdio"] = @ - 1] /\ UNCHANGED <<wrote, sent, sender>>
        BY <2>5, <3>2 DEF Reader, Poll, ReadPty, ReaderReturns, PtyInv
      <4> QED BY <2>1, <4>1 DEF OnTheWay, TypeOK
    <3> QED BY <3>1, <3>2
  <2>6. ASSUME NEW r \in Ids, Sender(r) PROVE wrote'[s] = sent'[s] + OnTheWay(s)'
    <3>1. CASE Receive(r)
      BY <2>1, <3>1 DEF Receive, OnTheWay, TypeOK
    <3>2. CASE WriteMessage(r)
      <4>1. Connected
        BY <1>1 DEF Connected
      <4> QED BY <2>1, <3>2, <4>1 DEF WriteMessage, OnTheWay, TypeOK
    <3>3. CASE SendEnd(r)
      BY <2>1, <3>3 DEF SendEnd, OnTheWay, TypeOK
    <3> QED BY <2>6, <3>1, <3>2, <3>3 DEF Sender
  <2> QED BY <1>5, <2>2, <2>3, <2>4, <2>5, <2>6 DEF OutputStep
<1>6. CASE UNCHANGED <<doVars, streamVars, ptyVars>> /\ ~IOConnected
  BY <1>3, <1>6 DEF OnTheWay, streamVars
<1> QED BY <1>2, <1>4, <1>5, <1>6, StepKinds

LEMMA ArrivedStep ==
  ASSUME TypeOK, ReaperInv, FreshInv, PlaceInv, CommandInv, HeldInv, EndInv, Conserved, Arrived,
         [Next]_vars
  PROVE  Arrived'
<1> SUFFICES ASSUME client' = "ok" PROVE Arrived'
  BY DEF Arrived
<1>1. Streams \subseteq Ids
  BY StreamsAre
<1>2. client = "ok" \/ (client = "flush" /\ ClientWaits /\ AllReceived)
  BY ClientSteps
  DEF PlaceInv, PostExec, ClientWaits, Leave, Crash, GiveUp, Upgrade, AfterSocket, Ids
<1>3. CASE client = "flush" /\ ClientWaits /\ AllReceived
  <2>1. UNCHANGED <<scene, overlap, outcome, sent, wrote, sender>>
    BY <1>3 DEF ClientWaits, streamVars, doVars, reaperVars
  <2>2. ASSUME Clean, NEW s \in Streams PROVE sent[s] = wrote[s]
    <3>1. s \in Ids /\ sender[s] = "ended"
      BY <1>1, <1>3 DEF AllReceived
    <3>2. buffer[s] = 0 /\ hand[s] = 0
      BY <1>3, <2>2, <3>1 DEF EndInv, Connected
    <3>3. wrote[s] = sent[s] + OnTheWay(s) /\ wrote[s] \in Nat /\ sent[s] \in Nat
      BY <1>3, <2>2, <3>1 DEF Conserved, Clean, TypeOK
    <3> QED BY <3>1, <3>2, <3>3 DEF OnTheWay
  <2> QED BY <1>3, <2>1, <2>2 DEF Arrived, AllReceived, Clean, Streams
<1>4. CASE client = "ok" /\ Crash
  BY <1>1, <1>4 DEF Crash, ReaperAnew, Arrived, Clean, Streams, TypeOK, SceneType
<1>5. CASE client = "ok" /\ ~Crash
  <2>1. task = "Ready" /\ pc = "idle" /\ ~setup
    BY <1>5 DEF PlaceInv
  <2>2. ~HandlerStep
    BY <1>5, <2>1
    DEF HandlerStep, PostExec, DoExec, IOConnected, IOTimeout, Start, SendPid, Waited, CloseFiles,
        OutputSent, Cancel
  <2>3. (Clean' => Clean) /\ Streams' = Streams
    BY <1>5, <2>2, CleanStays, SenderStays DEF HandlerStep
  <2>4. CASE OutputStep
    <3>1. UNCHANGED outcome
      BY <2>4
      DEF OutputStep, CommandExits, BackgroundExits, Reader, Poll, ReadPty, Watcher, ChildDead,
          PollOnce, CloseChannel, Writes, CommandCloses, ReadPipe, Sender, Receive, WriteMessage,
          SendEnd, doVars
    <3>2. \A s \in Streams : sender'[s] \in {"none", "ended"} /\ sent'[s] = sent[s]
      BY <1>1, <1>5, <2>4
      DEF OutputStep, CommandExits, BackgroundExits, Reader, Poll, ReadPty, Watcher, ChildDead,
          PollOnce, CloseChannel, Writes, CommandCloses, ReadPipe, Sender, Receive, WriteMessage,
          SendEnd, Arrived, TypeOK, streamVars
    <3>3. Clean /\ outcome = "done" => UNCHANGED wrote
      BY <2>4
      DEF OutputStep, CommandExits, BackgroundExits, Reader, Poll, ReadPty, Watcher, ChildDead,
          PollOnce, CloseChannel, Writes, CommandCloses, ReadPipe, Sender, Receive, WriteMessage,
          SendEnd, Clean, CommandInv, streamVars
    <3> QED BY <1>5, <2>3, <3>1, <3>2, <3>3 DEF Arrived
  <2>5. CASE UNCHANGED <<doVars, streamVars, ptyVars>>
    BY <1>5, <2>3, <2>5 DEF Arrived, doVars, streamVars
  <2> QED BY <2>2, <2>4, <2>5, StepKinds
<1> QED BY <1>2, <1>3, <1>4, <1>5

-----------------------------------------------------------------------------
LEMMA ExecInit == Init => ExecInv
<1> SUFFICES ASSUME Init PROVE ExecInv
  OBVIOUS
<1>1. ReaperTypeOK
  BY DEF Init, ReaperInit, ReaperTypeOK, Codes
<1>2. TypeOK
  <2>1. RequestTyped
    BY DEF Init, RequestTyped
  <2>2. HandlerTyped
    BY ExecAssumption DEF Init, HandlerTyped, ExecAssumption
  <2>3. StreamsTyped
    <3>1. 0 \in 0..MaxOut
      BY ExecAssumption DEF ExecAssumption
    <3>2. wrote \in [Ids -> 0..MaxOut]
      BY <3>1 DEF Init, StreamsInit
    <3>3. sent \in [Ids -> Nat] /\ buffer \in [Ids -> Nat] /\ hand \in [Ids -> 0..1]
      BY DEF Init, StreamsInit
    <3>4. held \in [Ids -> SUBSET {"daemon", "command", "background"}] /\ eof \in [Ids -> BOOLEAN]
      BY DEF Init, StreamsInit
    <3>5. sender \in [Ids -> {"none", "sends", "writes", "ended"}]
      BY DEF Init, StreamsInit
    <3> QED BY <3>2, <3>3, <3>4, <3>5 DEF Init, StreamsInit, StreamsTyped
  <2> QED BY <1>1, <2>1, <2>2, <2>3, TypeParts
<1>3. ReaperInv
  BY <1>1, ReapingKinds
  DEF Init, ReaperInit, ReaperInv, CallersInv, OwnCode, OwnChannel, Unheard, Noticed, Zombies
<1>4. AtHandler
  BY TheIs
  DEF Init, ReaperInit, StreamsInit, AtHandler, FreshInv, Fresh, PlaceInv, Asking, OpenInv,
      CommandInv
<1>5. StreamInv
  BY StreamsAre
  DEF Init, StreamsInit, StreamInv, HeldInv, PtyInv, EndInv, Conserved, OnTheWay, Arrived
<1> QED BY <1>2, <1>3, <1>4, <1>5 DEF ExecInv

LEMMA ExecStep == ExecInv /\ [Next]_vars => ExecInv'
<1> SUFFICES ASSUME ExecInv, [Next]_vars PROVE ExecInv'
  OBVIOUS
<1>1. ReaperInv'
  BY ReaperStep DEF ExecInv
<1>2. TypeOK'
  BY <1>1, TypeStep DEF ExecInv, StreamInv, ReaperInv
<1>3. AtHandler'
  BY <1>1, FreshStep, PlaceStep, AskingStep, OpenStep, CommandStep DEF ExecInv, AtHandler
<1>4. StreamInv'
  BY HeldStep, PtyStep, EndStep, ConservedStep, ArrivedStep DEF ExecInv, AtHandler, StreamInv
<1> QED BY <1>1, <1>2, <1>3, <1>4 DEF ExecInv

LEMMA ExecKept == Spec => []ExecInv
BY ExecInit, ExecStep, PTL DEF Spec

\* What the client of an exec is told is true: its exit code is that of its own process,
\* started once, and with an exit code it has all the output (Reaper.WaitCommand, reapOnce,
\* execution.do).
THEOREM ToldTheTruth == Spec => []ResultTrue
<1>1. ExecInv => ResultTrue
  <2> SUFFICES ASSUME ExecInv PROVE ResultTrue
    OBVIOUS
  <2>1. ExitCodeTrue
    BY DEF ExecInv, ExitCodeTrue, ReaperInv, OwnCode, OwnChannel, AtHandler, CommandInv
  <2>2. client = "ok" /\ outcome = "done" /\ ~scene.back /\ ~overlap =>
          \A s \in Streams : sent[s] = wrote[s]
    BY DEF ExecInv, StreamInv, Arrived, Clean
  <2>3. \A s \in Streams : sender[s] = "ended" /\ Connected => exited
    BY StreamsAre DEF ExecInv, StreamInv, EndInv
  <2>4. killed[The] => task # "none"
    BY DEF ExecInv, AtHandler, FreshInv, Unstarted, Fresh
  <2> QED BY <2>1, <2>2, <2>3, <2>4 DEF ResultTrue, OutputComplete
<1> QED BY <1>1, ExecKept, PTL

(***************************************************************************)
(* The goroutine that looks for the execution.                             *)
(***************************************************************************)
Searching ==
  \A i \in Ids : search[i] = "waits" => ~registered /\ request[i] # "returned"

LEMMA SearchStep ==
  ASSUME TypeOK, Searching, [Next]_vars
  PROVE  Searching'
<1>1. CASE DoExec
  BY <1>1 DEF DoExec, Broadcast, Searching, TypeOK
<1>2. ASSUME NEW i \in Ids, Ask(i) \/ Search(i) \/ Found(i) PROVE Searching'
  BY <1>2 DEF Ask, Search, Found, Searching, TypeOK, doVars
<1>3. ASSUME NEW i \in Ids, GiveUp(i) \/ Upgrade(i) PROVE Searching'
  BY <1>3 DEF GiveUp, Upgrade, Return, Broadcast, Searching, TypeOK
<1>4. CASE IOTimeout \/ OutputSent \/ Crash
  BY <1>4 DEF IOTimeout, OutputSent, End, Crash, Searching, connVars
<1>5. CASE UNCHANGED <<request, search, registered>>
  BY <1>5 DEF Searching
<1> QED
  BY <1>1, <1>2, <1>3, <1>4, <1>5
  DEF Next, vars, PostExec, Connect, Handler, IOConnected, Start, SendPid, WaitForCommand,
      KillCommand, Waited, CloseFiles, Control, ControlConnect, ControlRead, ControlKill, Reader,
      Poll, ReadPty, Watcher, ChildDead, PollOnce, CloseChannel, ReaperRuns, ReadPipe, Sender,
      Receive, WriteMessage, SendEnd, Writes, CommandCloses, CommandExits, BackgroundExits,
      OtherStarts, OtherWaits, ClientWaits, SendSignal, Leave, Cancel, connVars, doVars

\* Nobody sleeps on what has happened: the reaper knows of every child that ended, the
\* code of each is on its way to its caller, and the goroutine that looks for an execution
\* is woken when there is one and when its request returns (reapChildren, waitExecution,
\* Connect).
THEOREM EveryoneWoken == Spec => []NoLostWakeup
<1>1. Init => Searching
  BY DEF Init, Searching
<1>2. ExecInv /\ Searching /\ [Next]_vars => Searching'
  BY SearchStep DEF ExecInv
<1>3. ExecInv /\ Searching => NoLostWakeup
  <2> SUFFICES ASSUME ExecInv, Searching PROVE NoLostWakeup
    OBVIOUS
  <2>1. Zombies # {} => sigchld \/ reaping \in {Waits4} \cup Reaped
    BY DEF ExecInv, ReaperInv, Noticed
  <2>2. ~overlap => \A c \in Cmds : waiter[c] = "waits" /\ proc[c] = "gone" =>
          chan[c] = code[c] \/ reaping = [pc |-> "got", pid |-> pidOf[c], code |-> code[c]]
    BY DEF ExecInv, ReaperInv, OwnCode, OwnChannel, Unheard, Got
  <2> QED BY <2>1, <2>2 DEF NoLostWakeup, Searching
<1> QED BY <1>1, <1>2, <1>3, ExecKept, PTL DEF Spec
=============================================================================
