------------------------------- MODULE Reaper -------------------------------
(***************************************************************************)
(* The child process reaper: one goroutine that waits for every child, and *)
(* the goroutines that start a command and wait for its exit code.  The    *)
(* kernel may give a pid to a new process as soon as the old process has   *)
(* been waited for, which is before the reaper has passed its exit code on.*)
(***************************************************************************)
EXTENDS Integers, FiniteSets

CONSTANTS
  Cmds,  \* the commands that are started, each once
  Pids   \* bound: the pids of the machine

Nobody == "nobody"

ASSUME ReaperAssumption ==
  IsFiniteSet(Pids) /\ 0 \notin Pids /\ Pids \subseteq Nat /\ Nobody \notin Cmds

VARIABLES
  proc,     \* the process of a command: "none", "runs", "zombie", "gone"
  pidOf,    \* its pid, 0 while it has none
  code,     \* the exit code it ended with
  killed,   \* SIGKILL or another deadly signal is on its way to it
  pids,     \* the map pids: the command whose channel a pid leads to
  chan,     \* the exit code in the 1-buffered channel of a command, or Empty
  sigchld,  \* a SIGCHLD is in the channel of reapChildren
  reaping,  \* the goroutine of reapChildren: "idle", "wait4", "returns", or what it reaped
  waiter,   \* the caller of a command: "no", "started", "waits", "told", "done"
  ear,      \* the command whose channel WaitCommand found, Nobody before that
  heard,    \* the exit code WaitCommand received, -1 for an error
  overlap   \* history: StartCommand met a pid that was still in pids

reaperVars == <<proc, pidOf, code, killed, pids, chan, sigchld, reaping, waiter, ear, heard, overlap>>

Empty == -2
Failed == -1
Killed == 137  \* 128 + SIGKILL
Codes == {0, 1, Killed}
Reaped == [pid : Pids, code : Codes, pc : {"got"}]
Idle == [pc |-> "idle"]
Waits4 == [pc |-> "wait4"]
Returns == [pc |-> "returns"]  \* reapOnce found none and has not returned yet

ReaperInit ==
  /\ proc = [c \in Cmds |-> "none"] /\ pidOf = [c \in Cmds |-> 0]
  /\ code = [c \in Cmds |-> Empty] /\ killed = [c \in Cmds |-> FALSE]
  /\ pids = [p \in Pids |-> Nobody] /\ chan = [c \in Cmds |-> Empty]
  /\ sigchld = FALSE /\ reaping = Idle
  /\ waiter = [c \in Cmds |-> "no"] /\ ear = [c \in Cmds |-> Nobody]
  /\ heard = [c \in Cmds |-> Empty]
  /\ overlap = FALSE

ReaperTypeOK ==
  /\ proc \in [Cmds -> {"none", "runs", "zombie", "gone"}]
  /\ pidOf \in [Cmds -> Pids \cup {0}]
  /\ code \in [Cmds -> Codes \cup {Empty}] /\ killed \in [Cmds -> BOOLEAN]
  /\ pids \in [Pids -> Cmds \cup {Nobody}]
  /\ chan \in [Cmds -> Codes \cup {Empty, Failed}]
  /\ sigchld \in BOOLEAN /\ reaping \in {Idle, Waits4, Returns} \cup Reaped
  /\ waiter \in [Cmds -> {"no", "started", "waits", "told", "done"}]
  /\ ear \in [Cmds -> Cmds \cup {Nobody}]
  /\ heard \in [Cmds -> Codes \cup {Empty, Failed}] /\ overlap \in BOOLEAN

\* The pids the kernel may give to a new process.
FreePids == Pids \ {pidOf[c] : c \in {d \in Cmds : proc[d] \in {"runs", "zombie"}}}

\* StartCommand, all under the mutex: the process starts, another waiter of its
\* pid is told to stop, and the pid leads to a new channel.
StartCommand(c) ==
  \E p \in FreePids :
    /\ proc[c] = "none"
    /\ proc' = [proc EXCEPT ![c] = "runs"] /\ pidOf' = [pidOf EXCEPT ![c] = p]
    /\ overlap' = (overlap \/ pids[p] # Nobody)
    /\ chan' = [d \in Cmds |-> IF d = pids[p] /\ chan[d] = Empty THEN Failed ELSE chan[d]]
    /\ pids' = [pids EXCEPT ![p] = c]
    /\ waiter' = [waiter EXCEPT ![c] = "started"]
    /\ UNCHANGED <<code, killed, sigchld, reaping, ear, heard>>

\* The process ends, by itself or by a signal; the kernel sends SIGCHLD, which
\* is dropped when one is in the channel already.
Exits(c) ==
  /\ proc[c] = "runs"
  /\ proc' = [proc EXCEPT ![c] = "zombie"] /\ sigchld' = TRUE
  /\ \E x \in IF killed[c] THEN {Killed} ELSE Codes \ {Killed} : code' = [code EXCEPT ![c] = x]
  /\ UNCHANGED <<pidOf, killed, pids, chan, reaping, waiter, ear, heard, overlap>>

SigChld ==
  /\ reaping = Idle /\ sigchld
  /\ sigchld' = FALSE /\ reaping' = Waits4
  /\ UNCHANGED <<proc, pidOf, code, killed, pids, chan, waiter, ear, heard, overlap>>

Zombies == {c \in Cmds : proc[c] = "zombie"}

\* Mutant: the exit status of a process that a signal ended is taken as it is.
ReapStatus ==
  /\ reaping = Waits4
  /\ \/ /\ Zombies = {}
        /\ reaping' = Returns /\ UNCHANGED proc
     \/ \E c \in Zombies :
          /\ proc' = [proc EXCEPT ![c] = "gone"]
          /\ reaping' = [pc |-> "got", pid |-> pidOf[c],
                         code |-> IF code[c] = Killed THEN 1 ELSE code[c]]
  /\ UNCHANGED <<pidOf, code, killed, pids, chan, sigchld, waiter, ear, heard, overlap>>

\* reapOnce: wait4 frees the pid of a process that ended, or finds none.
ReapOnce ==
  /\ reaping = Waits4
  /\ \/ /\ Zombies = {}
        /\ reaping' = Returns /\ UNCHANGED proc
     \/ \E c \in Zombies :
          /\ proc' = [proc EXCEPT ![c] = "gone"]
          /\ reaping' = [pc |-> "got", pid |-> pidOf[c], code |-> code[c]]
  /\ UNCHANGED <<pidOf, code, killed, pids, chan, sigchld, waiter, ear, heard, overlap>>

ReapReturns ==
  /\ reaping = Returns
  /\ reaping' = Idle
  /\ UNCHANGED <<proc, pidOf, code, killed, pids, chan, sigchld, waiter, ear, heard, overlap>>

\* reapOnce: the channel of the pid is looked up under the mutex; the send waits
\* for room in it.
PassOn ==
  /\ reaping \in Reaped
  /\ reaping' = Waits4
  /\ LET c == pids[reaping.pid] IN
       IF c = Nobody THEN UNCHANGED chan
       ELSE chan[c] = Empty /\ chan' = [chan EXCEPT ![c] = reaping.code]
  /\ UNCHANGED <<proc, pidOf, code, killed, pids, sigchld, waiter, ear, heard, overlap>>

\* WaitCommand, up to the receive: the channel its pid leads to now.
WaitCommand(c) ==
  /\ waiter[c] = "started"
  /\ ear' = [ear EXCEPT ![c] = pids[pidOf[c]]]
  /\ IF pids[pidOf[c]] = Nobody
     THEN waiter' = [waiter EXCEPT ![c] = "done"] /\ heard' = [heard EXCEPT ![c] = Failed]
     ELSE waiter' = [waiter EXCEPT ![c] = "waits"] /\ UNCHANGED heard
  /\ UNCHANGED <<proc, pidOf, code, killed, pids, chan, sigchld, reaping, overlap>>

ReceiveCode(c) ==
  /\ waiter[c] = "waits" /\ chan[ear[c]] # Empty
  /\ waiter' = [waiter EXCEPT ![c] = "told"] /\ heard' = [heard EXCEPT ![c] = chan[ear[c]]]
  /\ chan' = [chan EXCEPT ![ear[c]] = Empty]
  /\ UNCHANGED <<proc, pidOf, code, killed, pids, sigchld, reaping, ear, overlap>>

\* WaitCommand, after the receive: the pid, whoever has it now, is forgotten.
ForgetPid(c) ==
  /\ waiter[c] = "told"
  /\ waiter' = [waiter EXCEPT ![c] = "done"] /\ pids' = [pids EXCEPT ![pidOf[c]] = Nobody]
  /\ UNCHANGED <<proc, pidOf, code, killed, chan, sigchld, reaping, ear, heard, overlap>>

\* Start in a new process of the daemon: the children of the old one are not its.
ReaperAnew ==
  /\ proc' = [c \in Cmds |-> IF proc[c] = "none" THEN "none" ELSE "gone"]
  /\ waiter' = [c \in Cmds |-> "no"] /\ ear' = [c \in Cmds |-> Nobody]
  /\ heard' = [c \in Cmds |-> Empty] /\ chan' = [c \in Cmds |-> Empty]
  /\ pids' = [p \in Pids |-> Nobody] /\ sigchld' = FALSE /\ reaping' = Idle
  /\ UNCHANGED <<pidOf, code, killed, overlap>>

\* kill(2) on a pid, with a signal that ends the process.
Kill(pid) ==
  /\ killed' = [c \in Cmds |-> killed[c] \/ (proc[c] = "runs" /\ pidOf[c] = pid)]
  /\ UNCHANGED <<proc, pidOf, code, pids, chan, sigchld, reaping, waiter, ear, heard, overlap>>

Reaping == SigChld \/ ReapOnce \/ ReapReturns \/ PassOn
Waiting(c) == WaitCommand(c) \/ ReceiveCode(c) \/ ForgetPid(c)
=============================================================================
