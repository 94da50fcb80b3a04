--------------------------- MODULE ServiceProofs ---------------------------
(***************************************************************************)
(* Proofs about Service, for every set of tasks and every bound.           *)
(***************************************************************************)
EXTENDS Service, SequenceTheorems, FiniteSetTheorems, TLAPS

(***************************************************************************)
(* What the helpers do to the data of a service.                           *)
(***************************************************************************)
LEMMA MovedData ==
  ASSUME NEW d \in ServiceData, NEW s \in State
  PROVE  /\ Moved(d, s) \in ServiceData
         /\ Moved(d, s).st = s
         /\ Moved(d, s).cmd = d.cmd
         /\ Moved(d, s).restarting = FALSE
BY DEF Moved, ServiceData

LEMMA SendStartedData ==
  ASSUME NEW d \in ServiceData, NEW r \in {"ok", "err"}
  PROVE  /\ SendStarted(d, r) \in ServiceData
         /\ SendStarted(d, r).st = d.st
         /\ SendStarted(d, r).cmd = d.cmd
<1>1. Append(d.started, r) \in Seq({"ok", "err"})
  BY DEF ServiceData
<1> QED BY <1>1 DEF SendStarted, ServiceData

LEMMA SendStoppedData ==
  ASSUME NEW d \in ServiceData, NEW r \in {"ok", "err"}
  PROVE  /\ SendStopped(d, r) \in ServiceData
         /\ SendStopped(d, r).st = d.st
         /\ SendStopped(d, r).cmd = d.cmd
<1>1. Append(d.stopped, r) \in Seq({"ok", "err"})
  BY DEF ServiceData
<1> QED BY <1>1 DEF SendStopped, ServiceData

LEMMA BackedOffData ==
  ASSUME NEW d \in ServiceData
  PROVE  /\ BackedOff(d) \in ServiceData
         /\ BackedOff(d).st = "backoff"
         /\ BackedOff(d).cmd = d.cmd
<1>1. CalculateNextBackoff(d.backoffTime) \in Nat
  BY ServiceAssumption DEF ServiceAssumption, CalculateNextBackoff, ServiceData
<1> DEFINE e == [d EXCEPT !.backoffTime = CalculateNextBackoff(d.backoffTime)]
<1>2. e \in ServiceData /\ e.cmd = d.cmd
  BY <1>1 DEF ServiceData
<1>3. "backoff" \in State
  BY DEF State
<1>4. BackedOff(d) = Moved(e, "backoff")
  BY DEF BackedOff
<1> HIDE DEF e
<1>5. /\ Moved(e, "backoff") \in ServiceData
      /\ Moved(e, "backoff").st = "backoff"
      /\ Moved(e, "backoff").cmd = e.cmd
  BY <1>2, <1>3, MovedData
<1> QED BY <1>2, <1>4, <1>5

LEMMA AfterExitData ==
  ASSUME NEW d \in ServiceData, NEW action, NEW success
  PROVE  /\ AfterExit(d, action, success) \in ServiceData
         /\ AfterExit(d, action, success).st \in {"backoff", "stopped", "exited"}
         /\ AfterExit(d, action, success).st = "backoff" => action = "restart"
         /\ AfterExit(d, action, success).cmd = d.cmd
<1>1. {"stopped", "exited"} \subseteq State
  BY DEF State
<1>2. CASE action = "restart"
  BY <1>2, BackedOffData DEF AfterExit
<1>3. CASE action # "restart" /\ action = "ignore" /\ success
  BY <1>1, <1>3, MovedData DEF AfterExit
<1>4. CASE action # "restart" /\ ~(action = "ignore" /\ success)
  BY <1>1, <1>4, MovedData DEF AfterExit
<1> QED BY <1>2, <1>3, <1>4

-----------------------------------------------------------------------------
(***************************************************************************)
(* The inductive invariant.  TimersArmed speaks of the timers of a         *)
(* service's current process, and a timer finds the service through the    *)
(* process it was armed for: so it needs that the current process of a     *)
(* service was started for it, and that a service has one in every state   *)
(* but initial and stopped.                                                *)
(***************************************************************************)
Placed(d) == d.st \notin {"initial", "stopped"} => d.cmd >= 1

ArmedFor(d, T) ==
  /\ d.st = "starting" => T["okay"][d.cmd] > 0
  /\ d.st = "terminating" => T["terminate"][d.cmd] > 0
  /\ d.st = "killing" => T["kill"][d.cmd] > 0
  /\ d.st = "backoff" /\ ~StartMayFail => T["backoff"][d.cmd] > 0

Core ==
  /\ svc \in [Obj -> ServiceData]
  /\ timers \in [Timer -> [Proc -> Nat]]
  /\ \A k \in Timer, p \in Proc : timers[k][p] > 0 => p <= procs
  /\ \A o \in Obj :
       /\ svc[o].cmd \in 0..procs
       /\ svc[o].cmd >= 1 => owner[svc[o].cmd] = o /\ o <= objects
       /\ Placed(svc[o])
       /\ ArmedFor(svc[o], timers)

\* A process that was started belongs to an object, which has a command as
\* long as the process is not reaped.
Owned ==
  \A p \in Proc :
    /\ p <= procs => owner[p] \in Obj
    /\ Unreaped(p) => /\ owner[p] \in Obj
                      /\ svc[owner[p]].cmd >= 1

\* A task that has found its service refers to it.
TaskRefs ==
  /\ \A t \in Task : pc[t] \in {"found", "flagged", "waiting"} => ref[t] \in 1..objects
  /\ \A t \in StartTask : pc[t] = "waiting" => svc[ref[t]].cmd >= 1

TimersInv == TypeOK /\ Core /\ Owned /\ TaskRefs

LEMMA CoreArms == Core => TimersArmed
BY DEF Core, TimersArmed, ArmedFor

(***************************************************************************)
(* A step that replaces the data of one object, keeps its command and      *)
(* takes away timers of its own processes only.                            *)
(***************************************************************************)
LEMMA CoreUpdate ==
  ASSUME TimersInv,
         NEW o \in Obj, NEW e \in ServiceData,
         e.cmd = svc[o].cmd, Placed(e), ArmedFor(e, timers'),
         svc' = [svc EXCEPT ![o] = e],
         owner' = owner, procs' = procs, objects' = objects,
         timers' \in [Timer -> [Proc -> Nat]],
         \A k \in Timer, q \in Proc :
           /\ k # "reset" /\ owner[q] # o => timers'[k][q] >= timers[k][q]
           /\ timers'[k][q] > timers[k][q] => q <= procs
  PROVE  /\ Core'
         /\ \A x \in Obj : svc'[x].cmd = svc[x].cmd
<1>1. svc' \in [Obj -> ServiceData]
  BY DEF TimersInv, TypeOK
<1>2. ASSUME NEW k \in Timer, NEW p \in Proc, timers'[k][p] > 0
      PROVE  p <= procs'
  <2>1. timers[k][p] > 0 \/ timers'[k][p] > timers[k][p]
    BY <1>2 DEF TimersInv, TypeOK
  <2> QED BY <2>1 DEF TimersInv, Core
<1>3. ASSUME NEW x \in Obj
      PROVE  /\ svc'[x].cmd \in 0..procs'
             /\ svc'[x].cmd >= 1 => owner'[svc'[x].cmd] = x /\ x <= objects'
             /\ Placed(svc'[x])
             /\ ArmedFor(svc'[x], timers')
  <2>1. CASE x = o
    BY <2>1 DEF TimersInv, TypeOK, Core
  <2>2. CASE x # o
    <3>1. svc'[x] = svc[x]
      BY <2>2 DEF TimersInv, TypeOK
    <3>2. /\ svc[x].cmd \in 0..procs
          /\ svc[x].cmd >= 1 => owner[svc[x].cmd] = x /\ x <= objects
          /\ Placed(svc[x])
          /\ ArmedFor(svc[x], timers)
      BY DEF TimersInv, Core
    <3>3. CASE svc[x].cmd = 0
      BY <3>1, <3>2, <3>3 DEF Placed, ArmedFor
    <3>4. CASE svc[x].cmd >= 1
      <4>1. svc[x].cmd \in Proc /\ owner[svc[x].cmd] # o
        BY <2>2, <3>2, <3>4, ServiceAssumption
        DEF ServiceAssumption, TimersInv, TypeOK, Proc
      <4>2. \A k \in Timer : k # "reset" =>
              timers[k][svc[x].cmd] \in Nat /\ timers'[k][svc[x].cmd] \in Nat
                /\ timers'[k][svc[x].cmd] >= timers[k][svc[x].cmd]
        BY <4>1 DEF TimersInv, TypeOK
      <4>3. {"okay", "terminate", "kill", "backoff"} \subseteq Timer
        BY DEF Timer
      <4>4. ArmedFor(svc[x], timers')
        BY <3>2, <4>2, <4>3 DEF ArmedFor
      <4> QED BY <3>1, <3>2, <4>4
    <3> QED BY <3>2, <3>3, <3>4
  <2> QED BY <2>1, <2>2
<1>4. \A x \in Obj : svc'[x].cmd = svc[x].cmd
  BY DEF TimersInv, TypeOK
<1> QED BY <1>1, <1>2, <1>3, <1>4 DEF Core

(***************************************************************************)
(* What the operators on timers do.                                        *)
(***************************************************************************)
LEMMA ElapsedTimers ==
  ASSUME TypeOK, NEW k \in Timer, NEW p \in Proc, timers[k][p] > 0
  PROVE  /\ Elapsed(k, p) \in [Timer -> [Proc -> Nat]]
         /\ \A j \in Timer, q \in Proc :
              Elapsed(k, p)[j][q] = IF j = k /\ q = p THEN timers[j][q] - 1
                                    ELSE timers[j][q]
<1>1. timers \in [Timer -> [Proc -> Nat]]
  BY DEF TypeOK
<1> DEFINE f == [timers[k] EXCEPT ![p] = @ - 1]
<1>2. f \in [Proc -> Nat] /\ \A q \in Proc : f[q] = IF q = p THEN timers[k][q] - 1 ELSE timers[k][q]
  BY <1>1
<1>3. Elapsed(k, p) = [timers EXCEPT ![k] = f]
  BY DEF Elapsed
<1> HIDE DEF f
<1> QED BY <1>1, <1>2, <1>3

LEMMA ArmedTimers ==
  ASSUME NEW T \in [Timer -> [Proc -> Nat]], NEW k \in Timer, NEW p \in Proc
  PROVE  /\ [T EXCEPT ![k][p] = @ + 1] \in [Timer -> [Proc -> Nat]]
         /\ \A j \in Timer, q \in Proc :
              [T EXCEPT ![k][p] = @ + 1][j][q] =
                IF j = k /\ q = p THEN T[j][q] + 1 ELSE T[j][q]
<1> DEFINE f == [T[k] EXCEPT ![p] = @ + 1]
<1>1. f \in [Proc -> Nat] /\ \A q \in Proc : f[q] = IF q = p THEN T[k][q] + 1 ELSE T[k][q]
  OBVIOUS
<1>2. [T EXCEPT ![k][p] = @ + 1] = [T EXCEPT ![k] = f]
  OBVIOUS
<1> HIDE DEF f
<1> QED BY <1>1, <1>2

LEMMA ExitTimers ==
  ASSUME TypeOK, NEW c \in Proc, NEW b \in BOOLEAN
  PROVE  /\ TimersAfterExit(c, b) \in [Timer -> [Proc -> Nat]]
         /\ \A j \in Timer, q \in Proc :
              TimersAfterExit(c, b)[j][q] =
                IF j = "reset" /\ q = c THEN 0
                ELSE IF j = "backoff" /\ q = c /\ b THEN timers[j][q] + 1
                ELSE timers[j][q]
<1>1. timers \in [Timer -> [Proc -> Nat]]
  BY DEF TypeOK
<1>2. "reset" \in Timer /\ "backoff" \in Timer
  BY DEF Timer
<1> DEFINE f == [timers["reset"] EXCEPT ![c] = 0]
           g == [timers["backoff"] EXCEPT ![c] = IF b THEN @ + 1 ELSE @]
<1>3. f \in [Proc -> Nat] /\ \A q \in Proc : f[q] = IF q = c THEN 0 ELSE timers["reset"][q]
  BY <1>1, <1>2
<1>4. /\ g \in [Proc -> Nat]
      /\ \A q \in Proc : g[q] = IF q = c /\ b THEN timers["backoff"][q] + 1
                               ELSE timers["backoff"][q]
  BY <1>1, <1>2
<1>5. TimersAfterExit(c, b) = [timers EXCEPT !["reset"] = f, !["backoff"] = g]
  BY <1>1, <1>2 DEF TimersAfterExit
<1> HIDE DEF f, g
<1> QED BY <1>1, <1>2, <1>3, <1>4, <1>5

(***************************************************************************)
(* A timer elapses and the data of its service becomes e.                  *)
(***************************************************************************)
LEMMA ElapsedStep ==
  ASSUME TimersInv, NEW k \in Timer, NEW p \in Proc, timers[k][p] > 0,
         NEW e \in ServiceData, e.cmd = svc[owner[p]].cmd, Placed(e),
         ArmedFor(e, Elapsed(k, p)),
         svc' = [svc EXCEPT ![owner[p]] = e],
         timers' = Elapsed(k, p),
         owner' = owner, procs' = procs, objects' = objects
  PROVE  /\ Core'
         /\ \A x \in Obj : svc'[x].cmd = svc[x].cmd
<1>1. owner[p] \in Obj
  BY DEF TimersInv, Core, Owned
<1>2. TypeOK
  BY DEF TimersInv
<1>3. /\ timers' \in [Timer -> [Proc -> Nat]]
      /\ \A j \in Timer, q \in Proc :
           timers'[j][q] = IF j = k /\ q = p THEN timers[j][q] - 1 ELSE timers[j][q]
  BY <1>2, ElapsedTimers
<1>4. ASSUME NEW j \in Timer, NEW q \in Proc
      PROVE  /\ owner[q] # owner[p] => timers'[j][q] >= timers[j][q]
             /\ ~(timers'[j][q] > timers[j][q])
  <2>1. timers[j][q] \in Nat
    BY <1>2 DEF TypeOK
  <2> QED BY <1>3, <2>1
<1>5. ArmedFor(e, timers')
  OBVIOUS
<1> QED BY <1>1, <1>3, <1>4, <1>5, CoreUpdate

(***************************************************************************)
(* A timer that the state of its service does not wait for may elapse.     *)
(***************************************************************************)
LEMMA StaleElapses ==
  ASSUME TimersInv, NEW k \in Timer, NEW p \in Proc, timers[k][p] > 0,
         NEW o \in Obj,
         k = "okay" => svc[o].st # "starting",
         k = "terminate" => svc[o].st # "terminating",
         k = "kill" => svc[o].st # "killing",
         k = "backoff" => svc[o].st # "backoff" \/ StartMayFail
  PROVE  ArmedFor(svc[o], Elapsed(k, p))
<1>1. Placed(svc[o]) /\ ArmedFor(svc[o], timers) /\ svc[o].cmd \in 0..procs
  BY DEF TimersInv, Core
<1>2. CASE svc[o].cmd = 0
  BY <1>1, <1>2 DEF Placed, ArmedFor
<1>3. CASE svc[o].cmd # 0
  <2>1. svc[o].cmd \in Proc
    BY <1>1, <1>3, ServiceAssumption
    DEF ServiceAssumption, TimersInv, TypeOK, Proc
  <2>2. TypeOK
    BY DEF TimersInv
  <2>3. \A j \in Timer : j # k => Elapsed(k, p)[j][svc[o].cmd] = timers[j][svc[o].cmd]
    BY <2>1, <2>2, ElapsedTimers
  <2>4. {"okay", "terminate", "kill", "backoff"} \subseteq Timer
    BY DEF Timer
  <2> QED BY <1>1, <2>3, <2>4 DEF ArmedFor
<1> QED BY <1>2, <1>3

LEMMA SameData ==
  ASSUME TimersInv, NEW o \in Obj
  PROVE  /\ svc = [svc EXCEPT ![o] = svc[o]]
         /\ svc[o] \in ServiceData
         /\ Placed(svc[o])
BY DEF TimersInv, TypeOK, Core

(***************************************************************************)
(* The parts of the invariant about tasks, when no task moves.             *)
(***************************************************************************)
LEMMA TasksKept ==
  ASSUME TimersInv, UNCHANGED <<pc, ref, objects>>,
         \A x \in Obj : svc'[x].cmd = svc[x].cmd
  PROVE  TaskRefs'
<1>1. \A t \in Task : pc[t] \in {"found", "flagged", "waiting"} => ref[t] \in Obj
  BY ServiceAssumption DEF ServiceAssumption, TimersInv, TypeOK, TaskRefs, Obj
<1> QED BY <1>1 DEF TimersInv, TaskRefs, Task

LEMMA OkayWaitElapsedTimers ==
  ASSUME TimersInv, NEW p \in Proc, OkayWaitElapsed(p)
  PROVE  TimersInv'
<1>1. owner[p] \in Obj /\ timers["okay"][p] > 0
  BY DEF TimersInv, Core, Owned, OkayWaitElapsed, Elapses, Timer
<1>2. "okay" \in Timer /\ "running" \in State
  BY DEF Timer, State
<1>3. Core' /\ \A x \in Obj : svc'[x].cmd = svc[x].cmd
  <2>1. CASE svc[owner[p]].st = "starting"
    <3> DEFINE d == SendStarted(svc[owner[p]], "ok")
               e == Moved(d, "running")
    <3>1. svc' = [svc EXCEPT ![owner[p]] = e]
      BY <2>1 DEF OkayWaitElapsed
    <3>2. d \in ServiceData /\ d.cmd = svc[owner[p]].cmd /\ svc[owner[p]].cmd >= 1
      BY <1>1, <2>1, SendStartedData, SameData DEF Placed
    <3> HIDE DEF d
    <3>3. e \in ServiceData /\ e.cmd = d.cmd /\ e.st = "running"
      BY <1>2, <3>2, MovedData
    <3> HIDE DEF e
    <3>4. Placed(e) /\ ArmedFor(e, Elapsed("okay", p))
      BY <3>2, <3>3 DEF Placed, ArmedFor
    <3> QED BY <1>1, <1>2, <3>1, <3>2, <3>3, <3>4, ElapsedStep DEF OkayWaitElapsed, procVars
  <2>2. CASE svc[owner[p]].st # "starting"
    <3>1. svc' = svc
      BY <2>2 DEF OkayWaitElapsed
    <3> QED BY <1>1, <1>2, <2>2, <3>1, SameData, StaleElapses, ElapsedStep
            DEF OkayWaitElapsed, procVars
  <2> QED BY <2>1, <2>2
<1>4. TaskRefs'
  BY <1>3, TasksKept DEF OkayWaitElapsed, taskVars
<1>5. TypeOK' /\ Owned'
  BY <1>3 DEF TimersInv, TypeOK, Core, Owned, Unreaped, OkayWaitElapsed, procVars, taskVars, boundVars
<1> QED BY <1>3, <1>4, <1>5 DEF TimersInv

LEMMA BackoffTimeIgnoredTimers ==
  ASSUME TimersInv, NEW p \in Proc, BackoffTimeIgnored(p)
  PROVE  TimersInv'
<1>1. /\ "backoff" \in Timer
      /\ owner[p] \in Obj /\ timers["backoff"][p] > 0
  BY DEF TimersInv, Core, Owned, BackoffTimeIgnored, Elapses, Timer
<1>2. svc[owner[p]].st # "backoff" \/ StartMayFail
  BY DEF BackoffTimeIgnored
<1>3. Core' /\ \A x \in Obj : svc'[x].cmd = svc[x].cmd
  BY <1>1, <1>2, SameData, StaleElapses, ElapsedStep DEF BackoffTimeIgnored, procVars
<1>4. TaskRefs'
  BY <1>3, TasksKept DEF BackoffTimeIgnored, taskVars
<1>5. TypeOK' /\ Owned'
  BY <1>3 DEF TimersInv, TypeOK, Core, Owned, Unreaped, BackoffTimeIgnored, procVars,
              taskVars, boundVars
<1> QED BY <1>3, <1>4, <1>5 DEF TimersInv

LEMMA BackoffResetElapsedTimers ==
  ASSUME TimersInv, NEW p \in Proc, BackoffResetElapsed(p)
  PROVE  TimersInv'
<1>1. /\ "reset" \in Timer
      /\ owner[p] \in Obj /\ timers["reset"][p] > 0
  BY DEF TimersInv, Core, Owned, BackoffResetElapsed, Elapses, Timer
<1>2. Core' /\ \A x \in Obj : svc'[x].cmd = svc[x].cmd
  <2>1. CASE svc[owner[p]].st = "running"
    <3> DEFINE e == [svc[owner[p]] EXCEPT !.backoffTime = 0]
    <3>1. svc' = [svc EXCEPT ![owner[p]] = e]
      BY <2>1 DEF BackoffResetElapsed
    <3>2. svc[owner[p]] \in ServiceData /\ Placed(svc[owner[p]])
      BY <1>1, SameData
    <3>3. e \in ServiceData /\ e.cmd = svc[owner[p]].cmd /\ e.st = svc[owner[p]].st
      BY <3>2 DEF ServiceData
    <3> HIDE DEF e
    <3>4. Placed(e) /\ ArmedFor(e, Elapsed("reset", p))
      BY <2>1, <3>2, <3>3 DEF Placed, ArmedFor
    <3> QED BY <1>1, <3>1, <3>3, <3>4, ElapsedStep DEF BackoffResetElapsed, procVars
  <2>2. CASE svc[owner[p]].st # "running"
    BY <1>1, <2>2, SameData, StaleElapses, ElapsedStep DEF BackoffResetElapsed, procVars
  <2> QED BY <2>1, <2>2
<1>3. TaskRefs'
  BY <1>2, TasksKept DEF BackoffResetElapsed, taskVars
<1>4. TypeOK' /\ Owned'
  BY <1>2 DEF TimersInv, TypeOK, Core, Owned, Unreaped, BackoffResetElapsed, procVars,
              taskVars, boundVars
<1> QED BY <1>2, <1>3, <1>4 DEF TimersInv

LEMMA KillTimeElapsedTimers ==
  ASSUME TimersInv, NEW p \in Proc, KillTimeElapsed(p)
  PROVE  TimersInv'
<1>1. /\ "kill" \in Timer /\ "stopped" \in State
      /\ owner[p] \in Obj /\ timers["kill"][p] > 0
  BY DEF TimersInv, Core, Owned, KillTimeElapsed, Elapses, Timer, State
<1>2. Core' /\ \A x \in Obj : svc'[x].cmd = svc[x].cmd
  <2>1. CASE svc[owner[p]].st = "killing"
    <3>1. PICK d \in ServiceData : /\ d.cmd = svc[owner[p]].cmd
                                   /\ svc' = [svc EXCEPT ![owner[p]] = Moved(d, "stopped")]
      BY <1>1, <2>1, SendStoppedData, SameData DEF KillTimeElapsed
    <3> DEFINE e == Moved(d, "stopped")
    <3>2. e \in ServiceData /\ e.cmd = d.cmd /\ e.st = "stopped"
      BY <1>1, MovedData
    <3>3. svc' = [svc EXCEPT ![owner[p]] = e]
      BY <3>1
    <3> HIDE DEF e
    <3>4. Placed(e) /\ ArmedFor(e, Elapsed("kill", p))
      BY <3>2 DEF Placed, ArmedFor
    <3> QED BY <1>1, <3>1, <3>2, <3>3, <3>4, ElapsedStep DEF KillTimeElapsed, procVars
  <2>2. CASE svc[owner[p]].st # "killing"
    <3>1. svc' = svc
      BY <2>2 DEF KillTimeElapsed
    <3> QED BY <1>1, <2>2, <3>1, SameData, StaleElapses, ElapsedStep
            DEF KillTimeElapsed, procVars
  <2> QED BY <2>1, <2>2
<1>3. TaskRefs'
  BY <1>2, TasksKept DEF KillTimeElapsed, taskVars
<1>4. TypeOK' /\ Owned'
  BY <1>2 DEF TimersInv, TypeOK, Core, Owned, Unreaped, KillTimeElapsed, procVars,
              taskVars, boundVars
<1> QED BY <1>2, <1>3, <1>4 DEF TimersInv

(***************************************************************************)
(* SIGKILL goes to a process that was started.                             *)
(***************************************************************************)
LEMMA KilledType ==
  ASSUME TypeOK, NEW p \in Proc, SendKill(p)
  PROVE  killed' \in SUBSET Proc
BY DEF TypeOK, SendKill

LEMMA CommandIsProc ==
  ASSUME TimersInv, NEW o \in Obj, svc[o].cmd >= 1
  PROVE  svc[o].cmd \in Proc /\ owner[svc[o].cmd] = o /\ svc[o].cmd <= procs
BY ServiceAssumption DEF ServiceAssumption, TimersInv, TypeOK, Core, Proc

LEMMA TerminateTimeElapsedTimers ==
  ASSUME TimersInv, NEW p \in Proc, TerminateTimeElapsed(p)
  PROVE  TimersInv'
<1>1. /\ "terminate" \in Timer /\ "kill" \in Timer /\ "killing" \in State
      /\ owner[p] \in Obj /\ timers["terminate"][p] > 0
      /\ owner' = owner /\ procs' = procs /\ objects' = objects
  BY DEF TimersInv, Core, Owned, TerminateTimeElapsed, Elapses, Timer, State
<1>2. TypeOK
  BY DEF TimersInv
<1>3. /\ Core' /\ \A x \in Obj : svc'[x].cmd = svc[x].cmd
      /\ killed' \in SUBSET Proc
  <2>1. CASE svc[owner[p]].st = "terminating"
    <3> DEFINE o == owner[p]
               c == svc[o].cmd
               e == [svc[o] EXCEPT !.st = "killing"]
               T == Elapsed("terminate", p)
    <3>1. /\ svc' = [svc EXCEPT ![o] = e] /\ SendKill(c)
          /\ timers' = [T EXCEPT !["kill"][c] = @ + 1]
      BY <2>1 DEF TerminateTimeElapsed
    <3>2. svc[o] \in ServiceData /\ c >= 1
      BY <1>1, <2>1, SameData DEF Placed
    <3>3. c \in Proc /\ owner[c] = o /\ c <= procs
      BY <1>1, <3>2, CommandIsProc
    <3>4. e \in ServiceData /\ e.cmd = c /\ e.st = "killing"
      BY <1>1, <3>2 DEF ServiceData
    <3>5. /\ T \in [Timer -> [Proc -> Nat]]
          /\ \A j \in Timer, q \in Proc :
               T[j][q] = IF j = "terminate" /\ q = p THEN timers[j][q] - 1
                         ELSE timers[j][q]
      BY <1>1, <1>2, ElapsedTimers
    <3> HIDE DEF T, e
    <3>6. /\ timers' \in [Timer -> [Proc -> Nat]]
          /\ \A j \in Timer, q \in Proc :
               timers'[j][q] = IF j = "kill" /\ q = c THEN T[j][q] + 1 ELSE T[j][q]
      BY <1>1, <3>1, <3>3, <3>5, ArmedTimers
    <3>7. ASSUME NEW j \in Timer, NEW q \in Proc
          PROVE  /\ owner[q] # o => timers'[j][q] >= timers[j][q]
                 /\ timers'[j][q] > timers[j][q] => q <= procs
      <4>1. timers[j][q] \in Nat
        BY <1>2 DEF TypeOK
      <4> QED BY <3>3, <3>5, <3>6, <4>1
    <3>8. timers'["kill"][e.cmd] > 0
      BY <1>1, <3>3, <3>4, <3>5, <3>6
    <3>9. Placed(e) /\ ArmedFor(e, timers')
      BY <3>2, <3>4, <3>8 DEF Placed, ArmedFor
    <3>10. killed' \in SUBSET Proc
      BY <1>2, <3>1, <3>3, KilledType
    <3> QED BY <1>1, <3>1, <3>4, <3>6, <3>7, <3>9, <3>10, CoreUpdate
  <2>2. CASE svc[owner[p]].st # "terminating"
    <3>1. svc' = svc /\ killed' = killed /\ timers' = Elapsed("terminate", p)
      BY <2>2 DEF TerminateTimeElapsed
    <3> QED BY <1>1, <1>2, <2>2, <3>1, SameData, StaleElapses, ElapsedStep DEF TypeOK
  <2> QED BY <2>1, <2>2
<1>4. TaskRefs'
  BY <1>3, TasksKept DEF TerminateTimeElapsed, taskVars
<1>5. TypeOK' /\ Owned'
  BY <1>3 DEF TimersInv, TypeOK, Core, Owned, Unreaped, TerminateTimeElapsed, taskVars, boundVars
<1> QED BY <1>3, <1>4, <1>5 DEF TimersInv

(***************************************************************************)
(* exited is called for process p, and the data of its service becomes e.  *)
(***************************************************************************)
LEMMA ExitStep ==
  ASSUME TimersInv, NEW p \in Proc, Reaps(p),
         NEW e \in ServiceData, e.cmd = svc[owner[p]].cmd,
         NEW b \in BOOLEAN,
         e.st \in {"stopped", "initial", "backoff", "exited"},
         e.st = "backoff" => b \/ svc[owner[p]].st = "backoff",
         svc' = [svc EXCEPT ![owner[p]] = e],
         timers' = TimersAfterExit(svc[owner[p]].cmd, b)
  PROVE  TimersInv'
<1> DEFINE o == owner[p]
           c == svc[o].cmd
<1>1. o \in Obj /\ c >= 1
  BY DEF TimersInv, Owned, Reaps, Unreaped
<1>2. c \in Proc /\ owner[c] = o /\ c <= procs
  BY <1>1, CommandIsProc
<1>3. TypeOK /\ "backoff" \in Timer
  BY DEF TimersInv, Timer
<1>4. /\ timers' \in [Timer -> [Proc -> Nat]]
      /\ \A j \in Timer, q \in Proc :
           timers'[j][q] = IF j = "reset" /\ q = c THEN 0
                           ELSE IF j = "backoff" /\ q = c /\ b THEN timers[j][q] + 1
                           ELSE timers[j][q]
  BY <1>2, <1>3, ExitTimers
<1>5. ASSUME NEW j \in Timer, NEW q \in Proc
      PROVE  /\ j # "reset" => timers'[j][q] >= timers[j][q]
             /\ timers'[j][q] > timers[j][q] => q <= procs
  <2>1. timers[j][q] \in Nat
    BY <1>3 DEF TypeOK
  <2> QED BY <1>2, <1>4, <2>1
<1>6. Placed(e) /\ ArmedFor(e, timers')
  <2>1. CASE svc[o].st = "backoff" /\ ~b
    <3>1. ArmedFor(svc[o], timers)
      BY <1>1 DEF TimersInv, Core
    <3> QED BY <1>1, <1>2, <1>3, <1>4, <2>1, <3>1 DEF Placed, ArmedFor
  <2>2. CASE b
    <3>1. timers["backoff"][c] \in Nat
      BY <1>2, <1>3 DEF TypeOK
    <3>2. timers'["backoff"][c] = timers["backoff"][c] + 1
      BY <1>2, <1>3, <1>4, <2>2, Zenon
    <3>3. timers'["backoff"][e.cmd] > 0
      BY <3>1, <3>2
    <3> QED BY <1>1, <3>3 DEF Placed, ArmedFor
  <2>3. CASE svc[o].st # "backoff" /\ ~b
    BY <1>1, <2>3 DEF Placed, ArmedFor
  <2> QED BY <2>1, <2>2, <2>3
<1>7. Core' /\ \A x \in Obj : svc'[x].cmd = svc[x].cmd
  BY <1>1, <1>4, <1>5, <1>6, CoreUpdate DEF Reaps
<1>8. TaskRefs'
  BY <1>7, TasksKept DEF Reaps, taskVars
<1>9. TypeOK' /\ Owned'
  BY <1>7 DEF TimersInv, TypeOK, Core, Owned, Unreaped, Reaps, taskVars, boundVars
<1> QED BY <1>7, <1>8, <1>9 DEF TimersInv

LEMMA ExitedTimers ==
  ASSUME TimersInv, NEW p \in Proc, Exited(p)
  PROVE  TimersInv'
<1> DEFINE o == owner[p]
           d == svc[o]
<1>1. o \in Obj /\ (Reaps(p) => d \in ServiceData)
  BY SameData DEF TimersInv, Owned, Unreaped, Exited, ExitedUnexpectedly,
                  ExitedStopping, ExitedIgnored, Reaps
<1>2. ASSUME NEW action \in ExitActions, NEW success \in BOOLEAN,
             ExitedUnexpectedly(p, action, success)
      PROVE  TimersInv'
  <2>1. Reaps(p) /\ d \in ServiceData
    BY <1>1, <1>2 DEF ExitedUnexpectedly
  <2>2. PICK f \in ServiceData : /\ f.cmd = d.cmd
                                 /\ svc' = [svc EXCEPT ![o] = AfterExit(f, action, success)]
    BY <1>2, <2>1, SendStartedData DEF ExitedUnexpectedly
  <2> DEFINE e == AfterExit(f, action, success)
             b == action = "restart"
  <2>3. /\ e \in ServiceData
        /\ e.st \in {"backoff", "stopped", "exited"}
        /\ e.st = "backoff" => b
        /\ e.cmd = f.cmd
    BY AfterExitData
  <2>4. svc' = [svc EXCEPT ![o] = e] /\ timers' = TimersAfterExit(d.cmd, b)
    BY <1>2, <2>2 DEF ExitedUnexpectedly
  <2>5. b \in BOOLEAN
    OBVIOUS
  <2> HIDE DEF e, b
  <2> QED BY <2>1, <2>2, <2>3, <2>4, <2>5, ExitStep
<1>3. ASSUME ExitedStopping(p) PROVE TimersInv'
  <2>1. Reaps(p) /\ d \in ServiceData
    BY <1>1, <1>3 DEF ExitedStopping
  <2>2. CASE d.restarting
    <3>1. svc' = [svc EXCEPT ![o] = BackedOff(d)] /\ timers' = TimersAfterExit(d.cmd, TRUE)
      BY <1>3, <2>2 DEF ExitedStopping
    <3> QED BY <2>1, <3>1, BackedOffData, ExitStep
  <2>3. CASE ~d.restarting
    <3> DEFINE f == SendStopped(d, "ok")
               e == Moved(f, "stopped")
    <3>1. d.restarting = FALSE
      BY <2>1, <2>3 DEF ServiceData
    <3>2. svc' = [svc EXCEPT ![o] = e] /\ timers' = TimersAfterExit(d.cmd, FALSE)
      BY <1>3, <3>1 DEF ExitedStopping
    <3>3. f \in ServiceData /\ f.cmd = d.cmd
      BY <2>1, SendStoppedData
    <3> HIDE DEF f
    <3>4. "stopped" \in State
      BY DEF State
    <3>5. e \in ServiceData /\ e.cmd = d.cmd /\ e.st = "stopped"
      BY <3>3, <3>4, MovedData
    <3> HIDE DEF e
    <3> QED BY <2>1, <3>2, <3>5, ExitStep
  <2> QED BY <2>2, <2>3
<1>4. ASSUME ExitedIgnored(p) PROVE TimersInv'
  <2>1. Reaps(p) /\ svc' = svc /\ timers' = TimersAfterExit(d.cmd, FALSE)
        /\ d.st \in {"stopped", "initial", "backoff", "exited"}
    BY <1>4 DEF ExitedIgnored
  <2> QED BY <1>1, <2>1, SameData, ExitStep
<1> QED BY <1>2, <1>3, <1>4 DEF Exited

(***************************************************************************)
(* startInternal starts a new process for object o.                        *)
(***************************************************************************)
LEMMA StartInternalStep ==
  ASSUME TimersInv, NEW o \in Obj, o <= objects,
         NEW s \in {"starting", "running"},
         NEW T \in [Timer -> [Proc -> Nat]], StartInternal(o, s, T),
         \A j \in Timer, q \in Proc :
           /\ owner[q] # o => T[j][q] >= timers[j][q]
           /\ T[j][q] > timers[j][q] => q <= NextProc,
         s = "starting" => T["okay"][NextProc] > 0,
         objects' = objects
  PROVE  /\ Core' /\ Owned'
         /\ procs' \in 0..MaxProcs
         /\ proc' \in [Proc -> {"none", "alive", "exited", "reaped", "lost"}]
         /\ owner' \in [Proc -> Obj \cup {0}]
         /\ \A p \in Proc : p > procs' <=> proc'[p] = "none"
         /\ svc'[o].cmd >= 1
         /\ \A x \in Obj : x # o => svc'[x] = svc[x]
<1> DEFINE n == NextProc
           f == [svc[o] EXCEPT !.cmd = n]
           e == Moved(f, s)
<1>1. TypeOK /\ Core /\ Owned
  BY DEF TimersInv
<1>2. n \in Proc /\ n = procs + 1 /\ procs' = n /\ procs \in 0..MaxProcs /\ procs < n
  BY <1>1, ServiceAssumption DEF ServiceAssumption, TypeOK, StartInternal, NextProc, Proc
<1>3. /\ proc' = [proc EXCEPT ![n] = "alive"] /\ owner' = [owner EXCEPT ![n] = o]
      /\ svc' = [svc EXCEPT ![o] = e]
      /\ timers' = [T EXCEPT !["reset"][n] = @ + 1]
  BY DEF StartInternal
<1>4. s \in State /\ {"okay", "terminate", "kill", "backoff", "reset"} \subseteq Timer
  BY DEF State, Timer
<1>5. f \in ServiceData /\ f.cmd = n
  <2>1. svc[o] \in ServiceData /\ n \in Nat
    BY <1>1, <1>2 DEF TypeOK, Proc
  <2> QED BY <2>1 DEF ServiceData
<1> HIDE DEF f
<1>6. e \in ServiceData /\ e.cmd = n /\ e.st = s
  <2>1. Moved(f, s) \in ServiceData /\ Moved(f, s).cmd = f.cmd /\ Moved(f, s).st = s
    BY <1>4, <1>5, MovedData
  <2> QED BY <1>5, <2>1
<1> HIDE DEF e, n
<1>7. /\ timers' \in [Timer -> [Proc -> Nat]]
      /\ \A j \in Timer, q \in Proc :
           timers'[j][q] = IF j = "reset" /\ q = n THEN T[j][q] + 1 ELSE T[j][q]
  BY <1>2, <1>3, <1>4, ArmedTimers
<1>8. /\ svc' \in [Obj -> ServiceData] /\ svc'[o] = e
      /\ \A x \in Obj : x # o => svc'[x] = svc[x]
  BY <1>1, <1>3, <1>6 DEF TypeOK
<1>9. ASSUME NEW k \in Timer, NEW p \in Proc, timers'[k][p] > 0
      PROVE  p <= procs'
  <2>1. timers[k][p] \in Nat /\ T[k][p] \in Nat /\ p \in Nat
    BY <1>1, ServiceAssumption DEF ServiceAssumption, TypeOK, Proc
  <2>2. p = n \/ T[k][p] > 0
    BY <1>7, <1>9
  <2>3. CASE timers[k][p] > 0
    BY <1>1, <1>2, <2>1, <2>3 DEF Core
  <2>4. CASE ~(timers[k][p] > 0) /\ T[k][p] > 0
    BY <1>2, <2>1, <2>4 DEF n
  <2> QED BY <1>2, <2>1, <2>2, <2>3, <2>4
<1>10. ASSUME NEW x \in Obj
      PROVE  /\ svc'[x].cmd \in 0..procs'
             /\ svc'[x].cmd >= 1 => owner'[svc'[x].cmd] = x /\ x <= objects'
             /\ Placed(svc'[x])
             /\ ArmedFor(svc'[x], timers')
  <2>1. CASE x = o
    <3>1. svc'[x].cmd = n /\ svc'[x].st = s /\ n >= 1 /\ n \in 0..procs' /\ owner'[n] = o
      BY <1>1, <1>2, <1>3, <1>6, <1>8, <2>1 DEF TypeOK, Proc
    <3>2. s = "starting" => timers'["okay"][n] > 0
      BY <1>2, <1>4, <1>7 DEF n
    <3> QED BY <2>1, <3>1, <3>2 DEF Placed, ArmedFor
  <2>2. CASE x # o
    <3>1. /\ svc'[x] = svc[x]
          /\ svc[x].cmd \in 0..procs
          /\ svc[x].cmd >= 1 => owner[svc[x].cmd] = x /\ x <= objects
          /\ Placed(svc[x])
          /\ ArmedFor(svc[x], timers)
      BY <1>1, <1>8, <2>2 DEF Core
    <3>2. CASE svc[x].cmd = 0
      BY <1>2, <3>1, <3>2 DEF Placed, ArmedFor
    <3>3. CASE svc[x].cmd >= 1
      <4> DEFINE c == svc[x].cmd
      <4>1. c \in Proc /\ owner[c] # o /\ c # n /\ owner'[c] = x /\ c \in 0..procs'
        BY <1>1, <1>2, <1>3, <2>2, <3>1, <3>3, ServiceAssumption
        DEF ServiceAssumption, TypeOK, Proc
      <4>2. \A k \in Timer : /\ timers'[k][c] \in Nat /\ timers[k][c] \in Nat
                              /\ timers'[k][c] >= timers[k][c]
        BY <1>1, <1>7, <4>1 DEF TypeOK
      <4>3. ArmedFor(svc[x], timers')
        BY <1>4, <3>1, <4>2 DEF ArmedFor
      <4> QED BY <3>1, <4>1, <4>3
    <3> QED BY <3>1, <3>2, <3>3
  <2> QED BY <2>1, <2>2
<1>11. Core'
  BY <1>7, <1>8, <1>9, <1>10 DEF Core
<1>12. /\ procs' \in 0..MaxProcs
       /\ proc' \in [Proc -> {"none", "alive", "exited", "reaped", "lost"}]
       /\ owner' \in [Proc -> Obj \cup {0}]
       /\ \A p \in Proc : p > procs' <=> proc'[p] = "none"
  BY <1>1, <1>2, <1>3 DEF TypeOK, Proc
<1>13. svc'[o].cmd >= 1
  BY <1>2, <1>6, <1>8 DEF Proc
<1>14. ASSUME NEW p \in Proc
       PROVE  /\ p <= procs' => owner'[p] \in Obj
              /\ Unreaped(p)' => /\ owner'[p] \in Obj
                                 /\ svc'[owner'[p]].cmd >= 1
  <2>1. CASE p = n
    BY <1>1, <1>3, <1>13, <2>1 DEF TypeOK
  <2>2. CASE p # n
    <3>1. owner'[p] = owner[p] /\ proc'[p] = proc[p] /\ (p <= procs' => p <= procs)
      BY <1>1, <1>2, <1>3, <2>2 DEF TypeOK, Proc
    <3> QED BY <1>1, <1>8, <1>13, <3>1 DEF Owned, Unreaped
  <2> QED BY <2>1, <2>2
<1> QED BY <1>8, <1>11, <1>12, <1>13, <1>14 DEF Owned

LEMMA StartTimers ==
  ASSUME TimersInv, NEW t \in StartTask, Start(t)
  PROVE  TimersInv'
<1> DEFINE o == ref[t]
           n == NextProc
           T == Armed("okay", n)
<1>1. t \in Task /\ o \in Obj /\ o <= objects
  BY ServiceAssumption DEF ServiceAssumption, TimersInv, TypeOK, TaskRefs, Task, Obj, Start
<1>2. TypeOK /\ n \in Proc /\ "okay" \in Timer /\ objects' = objects
  <2>1. TypeOK /\ procs < MaxProcs /\ "okay" \in Timer /\ objects' = objects
    BY DEF TimersInv, Start, StartInternal, Timer
  <2>2. procs \in 0..MaxProcs
    BY <2>1 DEF TypeOK
  <2> QED BY <2>1, <2>2, ServiceAssumption DEF ServiceAssumption, NextProc, Proc
<1>3. /\ T \in [Timer -> [Proc -> Nat]]
      /\ \A j \in Timer, q \in Proc :
           T[j][q] = IF j = "okay" /\ q = n THEN timers[j][q] + 1 ELSE timers[j][q]
  <2>1. timers \in [Timer -> [Proc -> Nat]]
    BY <1>2 DEF TypeOK
  <2> QED BY <1>2, <2>1, ArmedTimers DEF Armed
<1>4. StartInternal(o, "starting", T)
  BY DEF Start
<1> HIDE DEF T
<1>5. ASSUME NEW j \in Timer, NEW q \in Proc
      PROVE  /\ T[j][q] >= timers[j][q]
             /\ T[j][q] > timers[j][q] => q <= n
  <2>1. timers[j][q] \in Nat
    BY <1>2 DEF TypeOK
  <2>2. q <= q
    BY DEF Proc
  <2> QED BY <1>3, <2>1, <2>2
<1>6. T["okay"][n] > 0
  BY <1>2, <1>3 DEF TypeOK
<1>7. /\ Core' /\ Owned'
      /\ procs' \in 0..MaxProcs
      /\ proc' \in [Proc -> {"none", "alive", "exited", "reaped", "lost"}]
      /\ owner' \in [Proc -> Obj \cup {0}]
      /\ \A p \in Proc : p > procs' <=> proc'[p] = "none"
      /\ svc'[o].cmd >= 1
      /\ \A x \in Obj : x # o => svc'[x] = svc[x]
  BY <1>1, <1>2, <1>3, <1>4, <1>5, <1>6, StartInternalStep
<1>8. TypeOK'
  <2>1. /\ pc' = [pc EXCEPT ![t] = "waiting"]
        /\ launched' = [launched EXCEPT ![t] = @ + 1]
        /\ UNCHANGED <<objects, current, killed, lock, ref, flag, dying, shutdown,
                       aborts, checks, restarts>>
    BY DEF Start, StartInternal, Goto, boundVars
  <2>2. launched' \in [StartTask -> Nat]
    BY <1>2, <2>1 DEF TypeOK
  <2>3. svc' \in [Obj -> ServiceData] /\ timers' \in [Timer -> [Proc -> Nat]]
        /\ \A x \in Obj : svc'[x].cmd \in 0..procs'
    BY <1>7 DEF Core
  <2> QED BY <1>1, <1>2, <1>7, <2>1, <2>2, <2>3 DEF TypeOK
<1>9. TaskRefs'
  <2>1. \A u \in StartTask : pc[u] = "waiting" => ref[u] \in Obj /\ svc[ref[u]].cmd >= 1
    BY ServiceAssumption DEF ServiceAssumption, TimersInv, TypeOK, TaskRefs, Task, Obj
  <2>2. ref' = ref /\ pc' = [pc EXCEPT ![t] = "waiting"] /\ pc[t] = "flagged"
    BY DEF Start, Goto
  <2> QED BY <1>1, <1>2, <1>7, <2>1, <2>2 DEF TimersInv, TypeOK, TaskRefs, Task
<1> QED BY <1>7, <1>8, <1>9 DEF TimersInv

LEMMA BackoffTimeElapsedTimers ==
  ASSUME TimersInv, NEW p \in Proc, BackoffTimeElapsed(p)
  PROVE  TimersInv'
<1> DEFINE o == owner[p]
           T == Elapsed("backoff", p)
<1>1. "backoff" \in Timer /\ timers["backoff"][p] > 0 /\ TypeOK
  BY DEF TimersInv, BackoffTimeElapsed, Elapses, Timer
<1>2. o \in Obj
  BY <1>1 DEF TimersInv, Core, Owned
<1>3. /\ T \in [Timer -> [Proc -> Nat]]
      /\ \A j \in Timer, q \in Proc :
           T[j][q] = IF j = "backoff" /\ q = p THEN timers[j][q] - 1 ELSE timers[j][q]
  BY <1>1, ElapsedTimers
<1>4. StartInternal(o, "running", T) /\ objects' = objects
  BY DEF BackoffTimeElapsed
<1> HIDE DEF T
<1>5. ASSUME NEW j \in Timer, NEW q \in Proc
      PROVE  /\ owner[q] # o => T[j][q] >= timers[j][q]
             /\ ~(T[j][q] > timers[j][q])
  <2>1. timers[j][q] \in Nat
    BY <1>1 DEF TypeOK
  <2> QED BY <1>3, <2>1
<1>6. o <= objects
  BY <1>2 DEF TimersInv, Core, BackoffTimeElapsed, Placed
<1>7. /\ Core' /\ Owned'
      /\ procs' \in 0..MaxProcs
      /\ proc' \in [Proc -> {"none", "alive", "exited", "reaped", "lost"}]
      /\ owner' \in [Proc -> Obj \cup {0}]
      /\ \A q \in Proc : q > procs' <=> proc'[q] = "none"
      /\ svc'[o].cmd >= 1
      /\ \A x \in Obj : x # o => svc'[x] = svc[x]
  BY <1>2, <1>3, <1>4, <1>5, <1>6, StartInternalStep
<1>8. TypeOK'
  BY <1>1, <1>7 DEF TypeOK, Core, BackoffTimeElapsed, StartInternal, taskVars, boundVars
<1>9. TaskRefs'
  <2>1. \A u \in StartTask : pc[u] = "waiting" => ref[u] \in Obj /\ svc[ref[u]].cmd >= 1
    BY ServiceAssumption DEF ServiceAssumption, TimersInv, TypeOK, TaskRefs, Task, Obj
  <2>2. ref' = ref /\ pc' = pc
    BY DEF BackoffTimeElapsed, taskVars
  <2> QED BY <1>4, <1>7, <2>1, <2>2 DEF TimersInv, TypeOK, TaskRefs, Task
<1> QED BY <1>7, <1>8, <1>9 DEF TimersInv

(***************************************************************************)
(* Steps of tasks: the data of one object changes, its timers do not, or   *)
(* one is armed.                                                           *)
(***************************************************************************)
LEMMA DataStep ==
  ASSUME TimersInv, NEW o \in Obj, NEW e \in ServiceData,
         e.cmd = svc[o].cmd, Placed(e), ArmedFor(e, timers),
         svc' = [svc EXCEPT ![o] = e], timers' = timers,
         owner' = owner, procs' = procs, objects' = objects
  PROVE  /\ Core'
         /\ \A x \in Obj : svc'[x].cmd = svc[x].cmd
<1>1. \A k \in Timer, q \in Proc : timers'[k][q] \in Nat /\ timers'[k][q] = timers[k][q]
  BY DEF TimersInv, TypeOK
<1>2. timers' \in [Timer -> [Proc -> Nat]] /\ ArmedFor(e, timers')
  BY DEF TimersInv, TypeOK
<1>3. \A k \in Timer, q \in Proc :
        timers'[k][q] >= timers[k][q] /\ ~(timers'[k][q] > timers[k][q])
  BY <1>1
<1> QED BY <1>2, <1>3, CoreUpdate

LEMMA ArmStep ==
  ASSUME TimersInv, NEW o \in Obj, NEW e \in ServiceData,
         NEW k \in {"terminate", "backoff"},
         e.cmd = svc[o].cmd, e.cmd >= 1,
         \/ k = "terminate" /\ e.st = "terminating"
         \/ k = "backoff" /\ e.st = "backoff",
         svc' = [svc EXCEPT ![o] = e], timers' = Armed(k, svc[o].cmd),
         owner' = owner, procs' = procs, objects' = objects
  PROVE  /\ Core'
         /\ \A x \in Obj : svc'[x].cmd = svc[x].cmd
<1> DEFINE c == svc[o].cmd
<1>1. c \in Proc /\ owner[c] = o /\ c <= procs
  BY CommandIsProc
<1>2. timers \in [Timer -> [Proc -> Nat]] /\ k \in Timer
  BY DEF TimersInv, TypeOK, Timer
<1>3. /\ timers' \in [Timer -> [Proc -> Nat]]
      /\ \A j \in Timer, q \in Proc :
           timers'[j][q] = IF j = k /\ q = c THEN timers[j][q] + 1 ELSE timers[j][q]
  BY <1>1, <1>2, ArmedTimers DEF Armed
<1>4. ASSUME NEW j \in Timer, NEW q \in Proc
      PROVE  /\ timers'[j][q] >= timers[j][q]
             /\ timers'[j][q] > timers[j][q] => q <= procs
  <2>1. timers[j][q] \in Nat
    BY <1>2
  <2> QED BY <1>1, <1>3, <2>1
<1>5. timers'[k][e.cmd] > 0
  BY <1>1, <1>2, <1>3
<1>6. Placed(e) /\ ArmedFor(e, timers')
  BY <1>5 DEF Placed, ArmedFor
<1> QED BY <1>3, <1>4, <1>6, CoreUpdate

LEMMA TaskMoves ==
  ASSUME TimersInv, NEW t \in Task,
         NEW l \in {"idle", "do", "found", "flagged", "waiting", "done", "error"},
         pc' = [pc EXCEPT ![t] = l],
         l \in {"found", "flagged", "waiting"} => pc[t] \in {"found", "flagged", "waiting"},
         t \in StartTask => l # "waiting",
         UNCHANGED <<ref, objects>>,
         \A x \in Obj : svc'[x].cmd = svc[x].cmd
  PROVE  /\ TaskRefs'
         /\ pc' \in [Task -> {"idle", "do", "found", "flagged", "waiting", "done", "error"}]
<1>1. \A u \in Task : pc[u] \in {"found", "flagged", "waiting"} => ref[u] \in Obj
  BY ServiceAssumption DEF ServiceAssumption, TimersInv, TypeOK, TaskRefs, Obj
<1>2. pc \in [Task -> {"idle", "do", "found", "flagged", "waiting", "done", "error"}]
  BY DEF TimersInv, TypeOK
<1>3. \A u \in Task : pc'[u] = IF u = t THEN l ELSE pc[u]
  BY <1>2
<1>4. ASSUME NEW u \in Task, pc'[u] \in {"found", "flagged", "waiting"}
      PROVE  ref'[u] \in 1..objects'
  BY <1>3, <1>4 DEF TimersInv, TaskRefs
<1>5. ASSUME NEW u \in StartTask, pc'[u] = "waiting"
      PROVE  svc'[ref'[u]].cmd >= 1
  BY <1>1, <1>3, <1>5 DEF TimersInv, TaskRefs, Task
<1> QED BY <1>2, <1>4, <1>5 DEF TaskRefs

LEMMA FoundRef ==
  ASSUME TimersInv, NEW t \in Task, pc[t] \in {"found", "flagged", "waiting"}
  PROVE  ref[t] \in Obj /\ ref[t] <= objects
BY ServiceAssumption DEF ServiceAssumption, TimersInv, TypeOK, TaskRefs, Obj

\* The parts of TypeOK besides Core's, and Owned, for a step of a task.
LEMMA TaskFrame ==
  ASSUME TimersInv, Core', \A x \in Obj : svc'[x].cmd = svc[x].cmd,
         UNCHANGED <<objects, current, proc, owner, procs, ref, launched, shutdown>>,
         UNCHANGED boundVars, UNCHANGED dying,
         flag' \in SUBSET StartTask, killed' \in SUBSET Proc, lock' \in SUBSET Handler,
         pc' \in [Task -> {"idle", "do", "found", "flagged", "waiting", "done", "error"}]
  PROVE  TypeOK' /\ Owned'
BY DEF TimersInv, TypeOK, Core, Owned, Unreaped, boundVars

(***************************************************************************)
(* The steps of the tasks, but Start.                                      *)
(***************************************************************************)
LEMMA QuietStep ==
  ASSUME TimersInv, UNCHANGED <<svc, timers, owner, procs, objects>>
  PROVE  /\ Core'
         /\ \A x \in Obj : svc'[x].cmd = svc[x].cmd
BY DEF TimersInv, Core

LEMMA TaskQuietTimers ==
  ASSUME TimersInv, NEW t \in Task,
         Request(t) \/ (t \in StartTask /\ (DoStartAgain(t) \/ DoStartFlag(t))) \/ StopFails(t)
  PROVE  TimersInv'
<1>1. UNCHANGED <<svc, timers, proc, owner, procs, killed, objects, current, ref, launched,
                  shutdown, lock, dying>> /\ UNCHANGED boundVars
  BY DEF Request, DoStartAgain, DoStartFlag, StopFails, procVars
<1>2. Core' /\ \A x \in Obj : svc'[x].cmd = svc[x].cmd
  BY <1>1, QuietStep
<1>3. flag' \in SUBSET StartTask
  BY DEF Request, DoStartAgain, DoStartFlag, StopFails, SetStarted, TimersInv, TypeOK
<1>4. PICK l \in {"do", "error", "flagged"} :
        /\ pc' = [pc EXCEPT ![t] = l]
        /\ l = "flagged" => pc[t] = "found"
  BY DEF Request, DoStartAgain, DoStartFlag, StopFails, Goto
<1>5. /\ TaskRefs'
      /\ pc' \in [Task -> {"idle", "do", "found", "flagged", "waiting", "done", "error"}]
  BY <1>1, <1>2, <1>4, TaskMoves
<1>6. killed' \in SUBSET Proc /\ lock' \in SUBSET Handler
  BY <1>1 DEF TimersInv, TypeOK
<1>7. TypeOK' /\ Owned'
  BY <1>1, <1>2, <1>3, <1>5, <1>6, TaskFrame
<1> QED BY <1>2, <1>5, <1>7 DEF TimersInv

LEMMA StartFailsTimers ==
  ASSUME TimersInv, NEW t \in StartTask, StartFails(t)
  PROVE  TimersInv'
<1> DEFINE o == ref[t]
<1>1. t \in Task /\ "stopped" \in State
  BY DEF Task, State
<1>2. o \in Obj
  BY <1>1, FoundRef DEF StartFails
<1>3. /\ UNCHANGED <<timers, proc, owner, procs, killed, objects, current, ref, flag,
                     launched, shutdown, lock, dying>>
      /\ UNCHANGED boundVars /\ pc' = [pc EXCEPT ![t] = "error"]
  BY DEF StartFails, procVars, Goto
<1>4. Core' /\ \A x \in Obj : svc'[x].cmd = svc[x].cmd
  <2>1. CASE svc' = svc
    BY <1>3, <2>1, QuietStep
  <2>2. CASE svc' = [svc EXCEPT ![o] = Moved(svc[o], "stopped")]
    <3> DEFINE e == Moved(svc[o], "stopped")
    <3>1. e \in ServiceData /\ e.cmd = svc[o].cmd /\ e.st = "stopped"
      BY <1>1, <1>2, SameData, MovedData
    <3>2. svc' = [svc EXCEPT ![o] = e]
      BY <2>2
    <3> HIDE DEF e
    <3>3. Placed(e) /\ ArmedFor(e, timers)
      BY <3>1 DEF Placed, ArmedFor
    <3> QED BY <1>2, <1>3, <3>1, <3>2, <3>3, DataStep
  <2> QED BY <2>1, <2>2 DEF StartFails
<1>5. /\ TaskRefs'
      /\ pc' \in [Task -> {"idle", "do", "found", "flagged", "waiting", "done", "error"}]
  BY <1>1, <1>3, <1>4, TaskMoves
<1>6. killed' \in SUBSET Proc /\ lock' \in SUBSET Handler /\ flag' \in SUBSET StartTask
  BY <1>3 DEF TimersInv, TypeOK
<1>7. TypeOK' /\ Owned'
  BY <1>3, <1>4, <1>5, <1>6, TaskFrame
<1> QED BY <1>4, <1>5, <1>7 DEF TimersInv

LEMMA ResultData ==
  ASSUME NEW d \in ServiceData
  PROVE  /\ d.started # <<>> => [d EXCEPT !.started = Tail(@)] \in ServiceData
         /\ d.stopped # <<>> => [d EXCEPT !.stopped = Tail(@)] \in ServiceData
<1>1. /\ d.started # <<>> => Tail(d.started) \in Seq({"ok", "err"})
      /\ d.stopped # <<>> => Tail(d.stopped) \in Seq({"ok", "err"})
  BY DEF ServiceData
<1> QED BY <1>1 DEF ServiceData

LEMMA ResultTimers ==
  ASSUME TimersInv, NEW t \in Task,
         (t \in StartTask /\ StartResult(t)) \/ (t \in StopTask /\ StopResult(t))
  PROVE  TimersInv'
<1> DEFINE o == ref[t]
<1>1. o \in Obj
  BY FoundRef DEF StartResult, StopResult
<1>2. /\ UNCHANGED <<timers, proc, owner, procs, killed, objects, current, ref, flag,
                     launched, shutdown, lock, dying>>
      /\ UNCHANGED boundVars
      /\ \E l \in {"done", "error"} : pc' = [pc EXCEPT ![t] = l]
  BY DEF StartResult, StopResult, procVars, Goto
<1>3. Core' /\ \A x \in Obj : svc'[x].cmd = svc[x].cmd
  <2>1. svc[o] \in ServiceData /\ Placed(svc[o]) /\ ArmedFor(svc[o], timers)
    BY <1>1, SameData DEF TimersInv, Core
  <2>2. PICK e \in ServiceData : /\ e.cmd = svc[o].cmd /\ e.st = svc[o].st
                                 /\ svc' = [svc EXCEPT ![o] = e]
    <3>1. CASE t \in StartTask /\ StartResult(t)
      <4> DEFINE e == [svc[o] EXCEPT !.started = Tail(@)]
      <4>1. e \in ServiceData /\ svc' = [svc EXCEPT ![o] = e]
        BY <2>1, <3>1, ResultData DEF StartResult
      <4>2. e.cmd = svc[o].cmd /\ e.st = svc[o].st
        BY <2>1 DEF ServiceData
      <4> QED BY <4>1, <4>2
    <3>2. CASE t \in StopTask /\ StopResult(t)
      <4> DEFINE e == [svc[o] EXCEPT !.stopped = Tail(@)]
      <4>1. e \in ServiceData /\ svc' = [svc EXCEPT ![o] = e]
        BY <2>1, <3>2, ResultData DEF StopResult
      <4>2. e.cmd = svc[o].cmd /\ e.st = svc[o].st
        BY <2>1 DEF ServiceData
      <4> QED BY <4>1, <4>2
    <3> QED BY <3>1, <3>2
  <2>3. Placed(e) /\ ArmedFor(e, timers)
    BY <2>1, <2>2 DEF Placed, ArmedFor
  <2> QED BY <1>1, <1>2, <2>2, <2>3, DataStep
<1>4. /\ TaskRefs'
      /\ pc' \in [Task -> {"idle", "do", "found", "flagged", "waiting", "done", "error"}]
  BY <1>2, <1>3, TaskMoves
<1>5. killed' \in SUBSET Proc /\ lock' \in SUBSET Handler /\ flag' \in SUBSET StartTask
  BY <1>2 DEF TimersInv, TypeOK
<1>6. TypeOK' /\ Owned'
  BY <1>2, <1>3, <1>4, <1>5, TaskFrame
<1> QED BY <1>3, <1>4, <1>6 DEF TimersInv

LEMMA StartDyingTimers ==
  ASSUME TimersInv, NEW t \in StartTask, StartDying(t)
  PROVE  TimersInv'
<1> DEFINE o == ref[t]
           e == Moved(svc[o], "stopped")
<1>1. t \in Task /\ "stopped" \in State
  BY DEF Task, State
<1>2. o \in Obj /\ svc[o].cmd >= 1
  BY <1>1, FoundRef DEF StartDying, TimersInv, TaskRefs
<1>3. /\ UNCHANGED <<timers, proc, owner, procs, objects, current, ref, flag,
                     launched, shutdown, lock, dying>>
      /\ UNCHANGED boundVars /\ pc' = [pc EXCEPT ![t] = "error"]
      /\ svc' = [svc EXCEPT ![o] = e] /\ SendKill(svc[o].cmd)
  BY DEF StartDying, procVars, Goto
<1>4. e \in ServiceData /\ e.cmd = svc[o].cmd /\ e.st = "stopped"
  BY <1>1, <1>2, SameData, MovedData
<1> HIDE DEF e
<1>5. Placed(e) /\ ArmedFor(e, timers)
  BY <1>4 DEF Placed, ArmedFor
<1>6. Core' /\ \A x \in Obj : svc'[x].cmd = svc[x].cmd
  BY <1>2, <1>3, <1>4, <1>5, DataStep
<1>7. /\ TaskRefs'
      /\ pc' \in [Task -> {"idle", "do", "found", "flagged", "waiting", "done", "error"}]
  BY <1>1, <1>3, <1>6, TaskMoves
<1>8. killed' \in SUBSET Proc
  BY <1>2, <1>3, CommandIsProc, KilledType DEF TimersInv
<1>9. lock' \in SUBSET Handler /\ flag' \in SUBSET StartTask
  BY <1>3 DEF TimersInv, TypeOK
<1>10. TypeOK' /\ Owned'
  BY <1>3, <1>6, <1>7, <1>8, <1>9, TaskFrame
<1> QED BY <1>6, <1>7, <1>10 DEF TimersInv

LEMMA StopTimers ==
  ASSUME TimersInv, NEW t \in StopTask, Stop(t) \/ StopBackoff(t)
  PROVE  TimersInv'
<1> DEFINE o == ref[t]
<1>1. t \in Task /\ {"stopped", "terminating"} \subseteq State
  BY DEF Task, State
<1>2. o \in Obj
  BY <1>1, FoundRef DEF Stop, StopBackoff
<1>3. /\ UNCHANGED <<proc, owner, procs, killed, objects, current, ref, flag,
                     launched, shutdown, dying>>
      /\ UNCHANGED boundVars /\ pc[t] = "found" /\ pc' = [pc EXCEPT ![t] = "waiting"]
      /\ lock' = {}
  BY DEF Stop, StopBackoff, procVars, Goto
<1>4. svc[o] \in ServiceData /\ Placed(svc[o])
  BY <1>2, SameData
<1>5. Core' /\ \A x \in Obj : svc'[x].cmd = svc[x].cmd
  <2>1. CASE Stop(t)
    <3>1. PICK d \in ServiceData : /\ d.cmd = svc[o].cmd
                                   /\ svc' = [svc EXCEPT ![o] = Moved(d, "terminating")]
      BY <1>4, <2>1, SendStartedData DEF Stop
    <3> DEFINE e == Moved(d, "terminating")
    <3>2. e \in ServiceData /\ e.cmd = d.cmd /\ e.st = "terminating"
      BY <1>1, MovedData
    <3>3. svc' = [svc EXCEPT ![o] = e]
      BY <3>1
    <3> HIDE DEF e
    <3>4. e.cmd >= 1 /\ timers' = Armed("terminate", svc[o].cmd)
      BY <1>4, <2>1, <3>1, <3>2 DEF Stop, Placed
    <3> QED BY <1>2, <1>3, <3>1, <3>2, <3>3, <3>4, ArmStep
  <2>2. CASE StopBackoff(t)
    <3> DEFINE d == SendStopped(svc[o], "ok")
               e == Moved(d, "stopped")
    <3>1. d \in ServiceData /\ d.cmd = svc[o].cmd
      BY <1>4, SendStoppedData
    <3>2. svc' = [svc EXCEPT ![o] = e] /\ timers' = timers
      BY <2>2 DEF StopBackoff
    <3> HIDE DEF d
    <3>3. e \in ServiceData /\ e.cmd = d.cmd /\ e.st = "stopped"
      BY <1>1, <3>1, MovedData
    <3> HIDE DEF e
    <3>4. Placed(e) /\ ArmedFor(e, timers)
      BY <3>3 DEF Placed, ArmedFor
    <3> QED BY <1>2, <1>3, <3>1, <3>2, <3>3, <3>4, DataStep
  <2> QED BY <2>1, <2>2
<1>6. t \notin StartTask
  BY ServiceAssumption DEF ServiceAssumption
<1>7. /\ TaskRefs'
      /\ pc' \in [Task -> {"idle", "do", "found", "flagged", "waiting", "done", "error"}]
  BY <1>1, <1>3, <1>5, <1>6, TaskMoves
<1>8. killed' \in SUBSET Proc /\ lock' \in SUBSET Handler /\ flag' \in SUBSET StartTask
  BY <1>3 DEF TimersInv, TypeOK
<1>9. TypeOK' /\ Owned'
  BY <1>3, <1>5, <1>7, <1>8, TaskFrame
<1> QED BY <1>5, <1>7, <1>9 DEF TimersInv

(***************************************************************************)
(* serviceForStart and serviceForStop, which give the task its service.    *)
(***************************************************************************)
LEMMA TaskFinds ==
  ASSUME TimersInv, NEW t \in Task, NEW l \in {"done", "found"},
         pc' = [pc EXCEPT ![t] = l], ref' = [ref EXCEPT ![t] = current'],
         current' \in 0..objects', l = "found" => current' # 0,
         objects' \in 0..MaxObjects, objects <= objects',
         \A x \in Obj : x <= objects => svc'[x].cmd = svc[x].cmd
  PROVE  /\ TaskRefs'
         /\ pc' \in [Task -> {"idle", "do", "found", "flagged", "waiting", "done", "error"}]
         /\ ref' \in [Task -> Obj \cup {0}]
<1>1. /\ pc \in [Task -> {"idle", "do", "found", "flagged", "waiting", "done", "error"}]
      /\ ref \in [Task -> Obj \cup {0}]
      /\ objects \in Nat /\ objects' \in Nat /\ current' \in Obj \cup {0}
  BY ServiceAssumption DEF ServiceAssumption, TimersInv, TypeOK, Obj
<1>2. \A u \in Task : /\ pc'[u] = IF u = t THEN l ELSE pc[u]
                      /\ ref'[u] = IF u = t THEN current' ELSE ref[u]
  BY <1>1
<1>3. ASSUME NEW u \in Task, pc'[u] \in {"found", "flagged", "waiting"}
      PROVE  ref'[u] \in 1..objects'
  <2>1. CASE u = t
    BY <1>1, <1>2, <1>3, <2>1
  <2>2. CASE u # t
    <3>1. ref[u] \in 1..objects
      BY <1>2, <1>3, <2>2 DEF TimersInv, TaskRefs
    <3> QED BY <1>1, <1>2, <2>2, <3>1
  <2> QED BY <2>1, <2>2
<1>4. ASSUME NEW u \in StartTask, pc'[u] = "waiting"
      PROVE  svc'[ref'[u]].cmd >= 1
  <2>1. u \in Task /\ u # t /\ pc[u] = "waiting" /\ ref'[u] = ref[u]
    BY <1>2, <1>4 DEF Task
  <2>2. ref[u] \in Obj /\ ref[u] <= objects /\ svc[ref[u]].cmd >= 1
    BY <2>1, FoundRef DEF TimersInv, TaskRefs
  <2> QED BY <2>1, <2>2
<1> QED BY <1>1, <1>3, <1>4 DEF TaskRefs

LEMMA NewObjectStep ==
  ASSUME TimersInv, objects < MaxObjects, objects' = objects + 1,
         svc' = [svc EXCEPT ![objects + 1] = NewService],
         UNCHANGED <<timers, owner, procs, proc>>
  PROVE  /\ Core' /\ Owned'
         /\ \A x \in Obj : x <= objects => svc'[x].cmd = svc[x].cmd
<1> DEFINE n == objects + 1
<1>1. n \in Obj /\ objects \in Nat
  BY ServiceAssumption DEF ServiceAssumption, TimersInv, TypeOK, Obj
<1>2. NewService \in ServiceData /\ NewService.cmd = 0 /\ NewService.st = "initial"
  BY DEF NewService, ServiceData, State
<1>3. /\ svc' \in [Obj -> ServiceData] /\ svc'[n] = NewService
      /\ \A x \in Obj : x # n => svc'[x] = svc[x]
  BY <1>1, <1>2 DEF TimersInv, TypeOK
<1>4. ASSUME NEW x \in Obj
      PROVE  /\ svc'[x].cmd \in 0..procs
             /\ svc'[x].cmd >= 1 => owner[svc'[x].cmd] = x /\ x <= objects'
             /\ Placed(svc'[x])
             /\ ArmedFor(svc'[x], timers)
  <2>1. CASE x = n
    BY <1>2, <1>3, <2>1 DEF TimersInv, TypeOK, Placed, ArmedFor
  <2>2. CASE x # n
    <3>1. svc'[x] = svc[x] /\ x \in Nat
      BY <1>3, <2>2 DEF Obj
    <3> QED BY <1>1, <3>1 DEF TimersInv, Core
  <2> QED BY <2>1, <2>2
<1>5. Core'
  BY <1>3, <1>4 DEF TimersInv, Core
<1>6. ASSUME NEW p \in Proc, Unreaped(p)
      PROVE  owner[p] \in Obj /\ svc'[owner[p]].cmd >= 1
  <2>1. owner[p] \in Obj /\ svc[owner[p]].cmd >= 1
    BY <1>6 DEF TimersInv, Owned
  <2>2. owner[p] # n
    BY <1>1, <2>1 DEF TimersInv, Core
  <2> QED BY <1>3, <2>1, <2>2
<1>7. Owned'
  BY <1>6 DEF TimersInv, Owned, Unreaped
<1>8. \A x \in Obj : x <= objects => svc'[x].cmd = svc[x].cmd
  BY <1>1, <1>3 DEF Obj
<1> QED BY <1>5, <1>7, <1>8

LEMMA ServiceForStartTimers ==
  ASSUME TimersInv, NEW t \in StartTask, ServiceForStart(t)
  PROVE  TimersInv'
<1>1. t \in Task /\ "initial" \in State /\ current \in 0..objects /\ objects \in 0..MaxObjects
  BY DEF Task, State, TimersInv, TypeOK
<1>2. /\ UNCHANGED <<timers, proc, owner, procs, killed, flag, launched, shutdown,
                     lock, dying, aborts, checks, restarts>>
      /\ ref' = [ref EXCEPT ![t] = current']
  BY DEF ServiceForStart, procVars, boundVars
<1>3. /\ Core' /\ Owned'
      /\ objects' \in 0..MaxObjects /\ objects <= objects'
      /\ current' \in 0..objects'
      /\ \A x \in Obj : x <= objects => svc'[x].cmd = svc[x].cmd
      /\ \E l \in {"done", "found"} :
           pc' = [pc EXCEPT ![t] = l] /\ (l = "found" => current' # 0)
  <2>1. CASE current = 0
    <3>1. /\ objects < MaxObjects /\ objects' = objects + 1 /\ current' = objects + 1
          /\ svc' = [svc EXCEPT ![objects + 1] = NewService]
          /\ pc' = [pc EXCEPT ![t] = "found"]
      BY <2>1 DEF ServiceForStart, Goto
    <3>2. Core' /\ Owned' /\ \A x \in Obj : x <= objects => svc'[x].cmd = svc[x].cmd
      BY <1>2, <3>1, NewObjectStep
    <3>3. /\ objects' \in 0..MaxObjects /\ objects <= objects'
          /\ current' \in 0..objects' /\ current' # 0
      BY <1>1, <3>1, ServiceAssumption DEF ServiceAssumption
    <3> QED BY <3>1, <3>2, <3>3
  <2>2. CASE current # 0
    <3>1. current \in Obj
      BY <1>1, <2>2, ServiceAssumption DEF ServiceAssumption, Obj
    <3>2. /\ objects' = objects /\ current' = current
          /\ \E l \in {"done", "found"} : pc' = [pc EXCEPT ![t] = l]
      BY <2>2 DEF ServiceForStart, Goto
    <3>3. Core' /\ \A x \in Obj : svc'[x].cmd = svc[x].cmd
      <4>1. CASE svc' = svc
        BY <1>2, <3>2, <4>1, QuietStep
      <4>2. CASE svc' # svc
        <5> DEFINE d == [svc[current] EXCEPT !.backoffTime = 0]
                   e == Moved(d, "initial")
        <5>1. svc' = [svc EXCEPT ![current] = e]
          BY <2>2, <4>2 DEF ServiceForStart
        <5>2. svc[current] \in ServiceData
          BY <3>1, SameData
        <5>3. d \in ServiceData /\ d.cmd = svc[current].cmd
          BY <5>2 DEF ServiceData
        <5> HIDE DEF d
        <5>4. e \in ServiceData /\ e.cmd = d.cmd /\ e.st = "initial"
          BY <1>1, <5>3, MovedData
        <5> HIDE DEF e
        <5>5. Placed(e) /\ ArmedFor(e, timers)
          BY <5>4 DEF Placed, ArmedFor
        <5> QED BY <1>2, <3>1, <3>2, <5>1, <5>3, <5>4, <5>5, DataStep
      <4> QED BY <4>1, <4>2
    <3>4. Owned'
      BY <1>2, <3>3 DEF TimersInv, Owned, Unreaped
    <3>5. /\ objects' \in 0..MaxObjects /\ objects <= objects'
          /\ current' \in 0..objects' /\ current' # 0
      BY <1>1, <2>2, <3>2, ServiceAssumption DEF ServiceAssumption
    <3> QED BY <3>2, <3>3, <3>4, <3>5
  <2> QED BY <2>1, <2>2
<1>4. /\ TaskRefs'
      /\ pc' \in [Task -> {"idle", "do", "found", "flagged", "waiting", "done", "error"}]
      /\ ref' \in [Task -> Obj \cup {0}]
  BY <1>1, <1>2, <1>3, TaskFinds
<1>5. TypeOK'
  BY <1>2, <1>3, <1>4 DEF TimersInv, TypeOK, Core
<1> QED BY <1>3, <1>4, <1>5 DEF TimersInv

LEMMA ServiceForStopTimers ==
  ASSUME TimersInv, NEW t \in StopTask, ServiceForStop(t)
  PROVE  TimersInv'
<1>1. t \in Task /\ "stopped" \in State /\ current \in 0..objects /\ objects \in 0..MaxObjects
  BY DEF Task, State, TimersInv, TypeOK
<1>2. /\ UNCHANGED <<timers, proc, owner, procs, killed, flag, launched, shutdown,
                     lock, dying, objects, current>>
      /\ UNCHANGED boundVars
      /\ ref' = [ref EXCEPT ![t] = current']
  BY DEF ServiceForStop, procVars
<1>3. \E l \in {"done", "found"} :
        pc' = [pc EXCEPT ![t] = l] /\ (l = "found" => current' # 0)
  BY <1>2 DEF ServiceForStop, Goto
<1>4. Core' /\ \A x \in Obj : svc'[x].cmd = svc[x].cmd
  <2>1. CASE svc' = svc
    BY <1>2, <2>1, QuietStep
  <2>2. CASE svc' # svc
    <3> DEFINE e == Moved(svc[current], "stopped")
    <3>1. svc' = [svc EXCEPT ![current] = e] /\ current # 0
      BY <2>2 DEF ServiceForStop
    <3>2. current \in Obj
      BY <1>1, <3>1, ServiceAssumption DEF ServiceAssumption, Obj
    <3>3. e \in ServiceData /\ e.cmd = svc[current].cmd /\ e.st = "stopped"
      BY <1>1, <3>2, SameData, MovedData
    <3> HIDE DEF e
    <3>4. Placed(e) /\ ArmedFor(e, timers)
      BY <3>3 DEF Placed, ArmedFor
    <3> QED BY <1>2, <3>1, <3>2, <3>3, <3>4, DataStep
  <2> QED BY <2>1, <2>2
<1>5. objects' \in 0..MaxObjects /\ objects <= objects' /\ current' \in 0..objects'
  BY <1>1, <1>2
<1>6. /\ TaskRefs'
      /\ pc' \in [Task -> {"idle", "do", "found", "flagged", "waiting", "done", "error"}]
      /\ ref' \in [Task -> Obj \cup {0}]
  BY <1>1, <1>2, <1>3, <1>4, <1>5, TaskFinds
<1>7. TypeOK' /\ Owned'
  BY <1>2, <1>4, <1>6 DEF TimersInv, TypeOK, Core, Owned, Unreaped, boundVars
<1> QED BY <1>4, <1>6, <1>7 DEF TimersInv

(***************************************************************************)
(* Aborts, exits, blocked handlers, checks, pruning, shutdown and restart. *)
(***************************************************************************)
LEMMA AbortTimers ==
  ASSUME TimersInv, NEW t \in StartTask, Abort(t)
  PROVE  TimersInv'
<1>1. Core' /\ TaskRefs' /\ Owned'
  BY QuietStep, TasksKept DEF Abort, procVars, TimersInv, Owned, Unreaped
<1>2. TypeOK'
  BY ServiceAssumption DEF ServiceAssumption, TimersInv, TypeOK, Abort, procVars
<1> QED BY <1>1, <1>2 DEF TimersInv

LEMMA ProcessExitTimers ==
  ASSUME TimersInv, NEW p \in Proc, ProcessExit(p)
  PROVE  TimersInv'
<1>1. Core' /\ TaskRefs'
  BY QuietStep, TasksKept DEF ProcessExit, taskVars
<1>2. Owned'
  BY DEF ProcessExit, TimersInv, TypeOK, Owned, Unreaped
<1>3. TypeOK'
  BY DEF TimersInv, TypeOK, ProcessExit, taskVars, boundVars
<1> QED BY <1>1, <1>2, <1>3 DEF TimersInv

LEMMA BlockTimers ==
  ASSUME TimersInv, Block
  PROVE  TimersInv'
<1>1. Core' /\ TaskRefs' /\ Owned'
  BY QuietStep, TasksKept DEF Block, procVars, taskVars, TimersInv, Owned, Unreaped
<1>2. lock' \in SUBSET Handler
  <2>1. \/ \E p \in Proc : lock' \in {{<<"okay", p>>}, {<<"exited", p>>}, {<<"kill", p>>}}
        \/ \E t \in StopTask : lock' = {<<"stop", t>>}
    BY DEF Block, Sends
  <2> QED BY <2>1 DEF Handler, Timer
<1>3. TypeOK'
  BY <1>2 DEF TimersInv, TypeOK, Block, procVars, taskVars, boundVars
<1> QED BY <1>1, <1>3 DEF TimersInv

LEMMA CheckFailedTimers ==
  ASSUME TimersInv, CheckFailed
  PROVE  TimersInv'
<1> DEFINE d == svc[current]
<1>1. current \in Obj
  BY ServiceAssumption DEF ServiceAssumption, TimersInv, TypeOK, CheckFailed, Obj
<1>2. d \in ServiceData /\ Placed(d)
  BY <1>1, SameData
<1>3. UNCHANGED <<objects, current, proc, owner, procs, killed, lock, pc, ref, flag, dying,
                  launched, shutdown, aborts, restarts>>
  BY DEF CheckFailed, procVars, taskVars
<1>4. Core' /\ \A x \in Obj : svc'[x].cmd = svc[x].cmd
  <2>1. CASE d.st = "running"
    <3> DEFINE e == [d EXCEPT !.st = "terminating", !.restarting = TRUE]
    <3>1. svc' = [svc EXCEPT ![current] = e] /\ timers' = Armed("terminate", d.cmd)
      BY <2>1 DEF CheckFailed
    <3>2. e \in ServiceData /\ e.cmd = d.cmd /\ e.st = "terminating"
      BY <1>2 DEF ServiceData, State
    <3>3. d.cmd >= 1
      BY <1>2, <2>1 DEF Placed
    <3> HIDE DEF e
    <3> QED BY <1>1, <1>3, <3>1, <3>2, <3>3, ArmStep
  <2>2. CASE d.st = "exited"
    <3> DEFINE e == BackedOff(d)
    <3>1. svc' = [svc EXCEPT ![current] = e] /\ timers' = Armed("backoff", d.cmd)
      BY <2>2 DEF CheckFailed
    <3>2. e \in ServiceData /\ e.cmd = d.cmd /\ e.st = "backoff"
      BY <1>2, BackedOffData
    <3>3. d.cmd >= 1
      BY <1>2, <2>2 DEF Placed
    <3> HIDE DEF e
    <3> QED BY <1>1, <1>3, <3>1, <3>2, <3>3, ArmStep
  <2> QED BY <2>1, <2>2 DEF CheckFailed
<1>5. TaskRefs' /\ Owned'
  BY <1>3, <1>4, TasksKept DEF TimersInv, Owned, Unreaped
<1>6. checks' \in 0..MaxCheckFailures
  BY ServiceAssumption DEF ServiceAssumption, CheckFailed, TimersInv, TypeOK
<1>7. TypeOK'
  BY <1>3, <1>4, <1>6 DEF TimersInv, TypeOK, Core
<1> QED BY <1>4, <1>5, <1>7 DEF TimersInv

LEMMA PruneTimers ==
  ASSUME TimersInv, Prune
  PROVE  TimersInv'
<1>1. Core' /\ TaskRefs' /\ Owned'
  BY QuietStep, TasksKept DEF Prune, procVars, taskVars, TimersInv, Owned, Unreaped
<1>2. TypeOK'
  BY DEF TimersInv, TypeOK, Prune, procVars, taskVars, boundVars
<1> QED BY <1>1, <1>2 DEF TimersInv

LEMMA StopRunningTimers ==
  ASSUME TimersInv, StopRunning
  PROVE  TimersInv'
<1>1. Core' /\ (\A x \in Obj : svc'[x].cmd = svc[x].cmd) /\ Owned'
  BY QuietStep DEF StopRunning, procVars, TimersInv, Owned, Unreaped
<1>2. /\ TaskRefs'
      /\ pc' \in [Task -> {"idle", "do", "found", "flagged", "waiting", "done", "error"}]
  <2>1. ASSUME NEW t \in StopTask, pc' = [pc EXCEPT ![t] = "do"]
        PROVE  <1>2!1 /\ <1>2!2
    <3>1. t \in Task
      BY DEF Task
    <3> QED BY <1>1, <2>1, <3>1, TaskMoves DEF StopRunning
  <2>2. CASE pc' = pc
    BY <1>1, <2>2, TasksKept DEF StopRunning, TimersInv, TypeOK
  <2> QED BY <2>1, <2>2 DEF StopRunning, Goto
<1>3. TypeOK'
  BY <1>2 DEF TimersInv, TypeOK, StopRunning, procVars, boundVars
<1> QED BY <1>1, <1>2, <1>3 DEF TimersInv

LEMMA RestartTimers ==
  ASSUME TimersInv, Restart
  PROVE  TimersInv'
<1>1. NewService \in ServiceData /\ NewService.cmd = 0 /\ NewService.st = "initial"
  BY DEF NewService, ServiceData, State
<1>2. /\ svc' = [o \in Obj |-> NewService]
      /\ timers' = [k \in Timer |-> [p \in Proc |-> 0]]
      /\ objects' = 0 /\ current' = 0 /\ lock' = {} /\ dying' = {} /\ shutdown' = FALSE
      /\ ref' = [t \in Task |-> 0]
      /\ UNCHANGED <<owner, procs, killed, flag, launched, aborts, checks>>
  BY DEF Restart
<1>3. /\ pc' \in [Task -> {"idle", "do", "found", "flagged", "waiting", "done", "error"}]
      /\ \A t \in Task : pc'[t] \notin {"found", "flagged", "waiting"}
  BY DEF Restart, TimersInv, TypeOK
<1>4. /\ proc' \in [Proc -> {"none", "alive", "exited", "reaped", "lost"}]
      /\ \A p \in Proc : proc'[p] # "alive" /\ proc'[p] # "exited"
      /\ \A p \in Proc : (proc'[p] = "none") <=> (proc[p] = "none")
  BY DEF Restart, TimersInv, TypeOK
<1>5. restarts' \in 0..MaxRestarts
  BY ServiceAssumption DEF ServiceAssumption, Restart, TimersInv, TypeOK
<1>6. procs \in 0..MaxProcs /\ 0 \in 0..procs /\ 0 \in 0..MaxObjects /\ 0 \in 0..0
  BY ServiceAssumption DEF ServiceAssumption, TimersInv, TypeOK
<1>7. Core'
  <2>1. /\ svc' \in [Obj -> ServiceData] /\ timers' \in [Timer -> [Proc -> Nat]]
        /\ \A k \in Timer, p \in Proc : timers'[k][p] = 0
        /\ \A o \in Obj : svc'[o].cmd = 0 /\ svc'[o].st = "initial"
    BY <1>1, <1>2
  <2>2. \A o \in Obj : Placed(svc'[o]) /\ ArmedFor(svc'[o], timers')
    BY <2>1 DEF Placed, ArmedFor
  <2> QED BY <1>2, <1>6, <2>1, <2>2 DEF Core
<1>8. Owned'
  <2>1. owner' = owner /\ procs' = procs
    BY <1>2
  <2>2. \A p \in Proc : p <= procs' => owner'[p] \in Obj
    BY <2>1 DEF TimersInv, Owned
  <2>3. ASSUME NEW p \in Proc PROVE ~(Unreaped(p)')
    BY <1>4 DEF Unreaped
  <2> QED BY <2>2, <2>3 DEF Owned
<1>9. TaskRefs'
  BY <1>3 DEF TaskRefs, Task
<1>10. TypeOK'
  BY <1>1, <1>2, <1>3, <1>4, <1>5, <1>6 DEF TimersInv, TypeOK
<1> QED BY <1>7, <1>8, <1>9, <1>10 DEF TimersInv

LEMMA InitTimers == Init => TimersInv
<1> SUFFICES ASSUME Init PROVE TimersInv
  OBVIOUS
<1>1. NewService \in ServiceData /\ NewService.cmd = 0 /\ NewService.st = "initial"
  BY DEF NewService, ServiceData, State
<1>2. 0 \in 0..0 /\ 0 \in 0..MaxObjects /\ 0 \in 0..MaxProcs /\ 0 \in 0..MaxAborts
      /\ 0 \in 0..MaxCheckFailures /\ 0 \in 0..MaxRestarts
  BY ServiceAssumption DEF ServiceAssumption
<1>3. \A p \in Proc : p > 0
  BY DEF Proc
<1>4. TypeOK
  BY <1>1, <1>2, <1>3 DEF Init, TypeOK
<1>5. Core
  BY <1>1, <1>2 DEF Init, Core, Placed, ArmedFor
<1>6. Owned
  BY <1>3 DEF Init, Owned, Unreaped, Proc
<1>7. TaskRefs
  BY DEF Init, TaskRefs, Task
<1> QED BY <1>4, <1>5, <1>6, <1>7 DEF TimersInv

LEMMA NextTimers ==
  ASSUME TimersInv, [Next]_vars
  PROVE  TimersInv'
<1>1. CASE UNCHANGED vars
  <2>1. Core' /\ TaskRefs' /\ Owned'
    BY <1>1, QuietStep, TasksKept DEF vars, procVars, taskVars, TimersInv, Owned, Unreaped
  <2>2. TypeOK'
    BY <1>1 DEF TimersInv, TypeOK, vars, procVars, taskVars, boundVars
  <2> QED BY <2>1, <2>2 DEF TimersInv
<1>2. ASSUME NEW t \in Task, Request(t) PROVE TimersInv'
  BY <1>2, TaskQuietTimers
<1>3. ASSUME NEW t \in StartTask, StartStep(t) PROVE TimersInv'
  <2>1. t \in Task
    BY DEF Task
  <2> QED BY <1>3, <2>1, TaskQuietTimers, ServiceForStartTimers, StartTimers,
             StartFailsTimers, ResultTimers, StartDyingTimers DEF StartStep
<1>4. ASSUME NEW t \in StartTask, Abort(t) PROVE TimersInv'
  BY <1>4, AbortTimers
<1>5. ASSUME NEW t \in StopTask, StopStep(t) PROVE TimersInv'
  <2>1. t \in Task
    BY DEF Task
  <2> QED BY <1>5, <2>1, TaskQuietTimers, ServiceForStopTimers, StopTimers,
             ResultTimers DEF StopStep
<1>6. ASSUME NEW p \in Proc, ProcessExit(p) PROVE TimersInv'
  BY <1>6, ProcessExitTimers
<1>7. ASSUME NEW p \in Proc, Exited(p) PROVE TimersInv'
  BY <1>7, ExitedTimers
<1>8. ASSUME NEW p \in Proc, TimerElapses(p) PROVE TimersInv'
  BY <1>8, OkayWaitElapsedTimers, BackoffTimeElapsedTimers, BackoffTimeIgnoredTimers,
     TerminateTimeElapsedTimers, KillTimeElapsedTimers, BackoffResetElapsedTimers
  DEF TimerElapses
<1>9. CASE Block
  BY <1>9, BlockTimers
<1>10. CASE CheckFailed
  BY <1>10, CheckFailedTimers
<1>11. CASE Prune
  BY <1>11, PruneTimers
<1>12. CASE StopRunning
  BY <1>12, StopRunningTimers
<1>13. CASE Restart
  BY <1>13, RestartTimers
<1> QED BY <1>1, <1>2, <1>3, <1>4, <1>5, <1>6, <1>7, <1>8, <1>9, <1>10, <1>11, <1>12,
           <1>13 DEF Next

(***************************************************************************)
(* Every reachable state of a service has the declared types.              *)
(***************************************************************************)
THEOREM TypeCorrect == Spec => []TypeOK
<1>1. TimersInv => TypeOK
  BY DEF TimersInv
<1> QED BY <1>1, InitTimers, NextTimers, PTL DEF Spec

(***************************************************************************)
(* A state that only a timer leads out of has its timer pending, whatever  *)
(* timers of earlier processes elapse, start tasks are aborted, commands   *)
(* fail to start, processes survive SIGKILL or the daemon is restarted.    *)
(***************************************************************************)
THEOREM AlwaysArmed == Spec => []TimersArmed
<1>1. TimersInv => TimersArmed
  BY CoreArms DEF TimersInv
<1> QED BY <1>1, InitTimers, NextTimers, PTL DEF Spec

(***************************************************************************)
(* The state of a service tells what it runs: a proof of                   *)
(* StateMatchesProcess for every set of tasks and every bound, when no     *)
(* start is aborted and SIGKILL ends a process within failDelay.           *)
(***************************************************************************)

(***************************************************************************)
(* The inductive invariant.  killTimeElapsed gives a service up as stopped *)
(* without having seen its process end, so the invariant needs that the    *)
(* process of a service in killing was sent SIGKILL, or has ended.         *)
(***************************************************************************)
Signalled ==
  \A o \in Obj : svc[o].st = "killing" =>
                   proc[svc[o].cmd] = "exited" \/ svc[o].cmd \in killed

MatchInv ==
  /\ TimersInv
  /\ StateMatchesProcess
  /\ Signalled
  /\ dying = {}

BusyStates == {"starting", "running", "terminating", "killing"}

(***************************************************************************)
(* A step that changes neither which services are busy nor which processes *)
(* are to be reaped.                                                       *)
(***************************************************************************)
LEMMA MatchKept ==
  ASSUME MatchInv, owner' = owner, dying' = dying, TimersInv',
         \A p \in Proc : /\ proc'[p] \in {"alive", "exited"} <=> proc[p] \in {"alive", "exited"}
                         /\ proc[p] = "exited" => proc'[p] = "exited",
         killed \subseteq killed',
         \A x \in Obj : /\ svc'[x].st \in BusyStates <=> svc[x].st \in BusyStates
                        /\ svc[x].st \in BusyStates => svc'[x].cmd = svc[x].cmd
                        /\ svc'[x].st = "killing" => svc[x].st = "killing"
  PROVE  MatchInv'
<1>1. StateMatchesProcess'
  <2>1. ASSUME NEW o \in Obj, Busy(o)'
        PROVE  svc'[o].cmd \in Proc /\ Unreaped(svc[o].cmd)' /\ svc'[o].cmd = svc[o].cmd
    BY <2>1 DEF MatchInv, StateMatchesProcess, Busy, Unreaped, BusyStates
  <2>2. ASSUME NEW o \in Obj, NEW p \in Proc, Unreaped(p)', owner'[p] = o
        PROVE  Busy(o)' /\ p = svc'[o].cmd
    BY <2>2 DEF MatchInv, StateMatchesProcess, Busy, Unreaped, BusyStates
  <2> QED BY <2>1, <2>2 DEF StateMatchesProcess, Unreaped
<1>2. Signalled'
  BY DEF MatchInv, Signalled, BusyStates, StateMatchesProcess, Busy
<1> QED BY <1>1, <1>2 DEF MatchInv

(***************************************************************************)
(* The data of one object becomes e, as busy as it was.                    *)
(***************************************************************************)
LEMMA MatchUpdate ==
  ASSUME MatchInv, TimersInv', NEW o \in Obj, NEW e,
         svc' = [svc EXCEPT ![o] = e],
         owner' = owner, proc' = proc, killed' = killed, dying' = dying,
         e.cmd = svc[o].cmd,
         e.st \in BusyStates <=> svc[o].st \in BusyStates,
         e.st = "killing" => svc[o].st = "killing"
  PROVE  MatchInv'
<1>1. \A x \in Obj : svc'[x] = IF x = o THEN e ELSE svc[x]
  BY DEF MatchInv, TimersInv, TypeOK
<1> QED BY <1>1, MatchKept

LEMMA MatchQuiet ==
  ASSUME MatchInv, TimersInv', UNCHANGED <<svc, proc, owner, killed, dying>>
  PROVE  MatchInv'
BY MatchKept

LEMMA StartFailsMatch ==
  ASSUME MatchInv, TimersInv', NEW t \in StartTask, StartFails(t)
  PROVE  MatchInv'
<1>1. TimersInv /\ t \in Task /\ "stopped" \in State
  BY DEF MatchInv, Task, State
<1>2. ref[t] \in Obj
  BY <1>1, FoundRef DEF StartFails
<1>3. UNCHANGED <<proc, owner, killed, dying>>
  BY DEF StartFails, procVars
<1>4. CASE svc' = svc
  BY <1>3, <1>4, MatchQuiet
<1>5. CASE svc[ref[t]].st = "initial" /\ svc' = [svc EXCEPT ![ref[t]] = Moved(@, "stopped")]
  <2> DEFINE e == Moved(svc[ref[t]], "stopped")
  <2>1. e.cmd = svc[ref[t]].cmd /\ e.st = "stopped"
    BY <1>1, <1>2, SameData, MovedData
  <2>2. svc' = [svc EXCEPT ![ref[t]] = e]
    BY <1>5
  <2> HIDE DEF e
  <2> QED BY <1>2, <1>3, <1>5, <2>1, <2>2, MatchUpdate DEF BusyStates
<1> QED BY <1>4, <1>5 DEF StartFails

LEMMA ResultMatch ==
  ASSUME MatchInv, TimersInv', NEW t \in Task, StartResult(t) \/ StopResult(t)
  PROVE  MatchInv'
<1>1. TimersInv
  BY DEF MatchInv
<1>2. ref[t] \in Obj
  BY <1>1, FoundRef DEF StartResult, StopResult
<1>3. UNCHANGED <<proc, owner, killed, dying>>
  BY DEF StartResult, StopResult, procVars
<1>4. svc[ref[t]] \in ServiceData
  BY <1>1, <1>2, SameData
<1>5. PICK e : /\ svc' = [svc EXCEPT ![ref[t]] = e]
               /\ e = [svc[ref[t]] EXCEPT !.started = Tail(@)]
                    \/ e = [svc[ref[t]] EXCEPT !.stopped = Tail(@)]
  BY DEF StartResult, StopResult
<1>6. e.cmd = svc[ref[t]].cmd /\ e.st = svc[ref[t]].st
  BY <1>4, <1>5 DEF ServiceData
<1> QED BY <1>2, <1>3, <1>5, <1>6, MatchUpdate

LEMMA StopMatch ==
  ASSUME MatchInv, TimersInv', NEW t \in StopTask, Stop(t) \/ StopBackoff(t)
  PROVE  MatchInv'
<1> DEFINE o == ref[t]
<1>1. TimersInv /\ t \in Task /\ "stopped" \in State /\ "terminating" \in State
  BY DEF MatchInv, Task, State
<1>2. o \in Obj
  BY <1>1, FoundRef DEF Stop, StopBackoff
<1>3. UNCHANGED <<proc, owner, killed, dying>>
  BY DEF Stop, StopBackoff, procVars
<1>4. svc[o] \in ServiceData
  BY <1>1, <1>2, SameData
<1>5. CASE Stop(t)
  <2>1. PICK d \in ServiceData : /\ d.cmd = svc[o].cmd
                                 /\ svc' = [svc EXCEPT ![o] = Moved(d, "terminating")]
    BY <1>4, <1>5, SendStartedData DEF Stop
  <2> DEFINE e == Moved(d, "terminating")
  <2>2. e.cmd = d.cmd /\ e.st = "terminating"
    BY <1>1, MovedData
  <2>3. svc' = [svc EXCEPT ![o] = e] /\ svc[o].st \in BusyStates
    BY <1>5, <2>1 DEF Stop, BusyStates
  <2> HIDE DEF e
  <2> QED BY <1>2, <1>3, <2>1, <2>2, <2>3, MatchUpdate DEF BusyStates
<1>6. CASE StopBackoff(t)
  <2> DEFINE d == SendStopped(svc[o], "ok")
             e == Moved(d, "stopped")
  <2>1. d \in ServiceData /\ d.cmd = svc[o].cmd
    BY <1>4, SendStoppedData
  <2>2. svc' = [svc EXCEPT ![o] = e] /\ svc[o].st \notin BusyStates
    BY <1>6 DEF StopBackoff, BusyStates
  <2> HIDE DEF d
  <2>3. e.cmd = d.cmd /\ e.st = "stopped"
    BY <1>1, <2>1, MovedData
  <2> HIDE DEF e
  <2> QED BY <1>2, <1>3, <2>1, <2>2, <2>3, MatchUpdate DEF BusyStates
<1> QED BY <1>5, <1>6

LEMMA ServiceForStopMatch ==
  ASSUME MatchInv, TimersInv', NEW t \in StopTask, ServiceForStop(t)
  PROVE  MatchInv'
<1>1. TimersInv /\ "stopped" \in State
  BY DEF MatchInv, State
<1>2. UNCHANGED <<proc, owner, killed, dying>>
  BY DEF ServiceForStop, procVars
<1>3. CASE svc' = svc
  BY <1>2, <1>3, MatchQuiet
<1>4. CASE svc' # svc
  <2> DEFINE e == Moved(svc[current], "stopped")
  <2>1. svc' = [svc EXCEPT ![current] = e] /\ current # 0 /\ svc[current].st = "exited"
    BY <1>4 DEF ServiceForStop
  <2>2. current \in Obj
    BY <1>1, <2>1, ServiceAssumption DEF ServiceAssumption, TimersInv, TypeOK, Obj
  <2>3. e.cmd = svc[current].cmd /\ e.st = "stopped"
    BY <1>1, <2>2, SameData, MovedData
  <2> HIDE DEF e
  <2> QED BY <1>2, <2>1, <2>2, <2>3, MatchUpdate DEF BusyStates
<1> QED BY <1>3, <1>4

LEMMA ServiceForStartMatch ==
  ASSUME MatchInv, TimersInv', NEW t \in StartTask, ServiceForStart(t)
  PROVE  MatchInv'
<1>1. TimersInv /\ "initial" \in State
  BY DEF MatchInv, State
<1>2. UNCHANGED <<proc, owner, killed, dying>>
  BY DEF ServiceForStart, procVars
<1>3. CASE svc' = svc
  BY <1>2, <1>3, MatchQuiet
<1>4. CASE current # 0 /\ svc' # svc
  <2> DEFINE d == [svc[current] EXCEPT !.backoffTime = 0]
             e == Moved(d, "initial")
  <2>1. svc' = [svc EXCEPT ![current] = e] /\ svc[current].st \in StartAllowed
    BY <1>4 DEF ServiceForStart
  <2>2. current \in Obj
    BY <1>1, <1>4, ServiceAssumption DEF ServiceAssumption, TimersInv, TypeOK, Obj
  <2>3. d \in ServiceData /\ d.cmd = svc[current].cmd
    BY <1>1, <2>2, SameData DEF ServiceData
  <2> HIDE DEF d
  <2>4. e.cmd = svc[current].cmd /\ e.st = "initial"
    BY <1>1, <2>3, MovedData
  <2> HIDE DEF e
  <2> QED BY <1>2, <2>1, <2>2, <2>4, MatchUpdate DEF BusyStates, StartAllowed
<1>5. CASE current = 0
  <2> DEFINE n == objects + 1
  <2>1. objects < MaxObjects /\ svc' = [svc EXCEPT ![n] = NewService]
    BY <1>5 DEF ServiceForStart
  <2>2. n \in Obj /\ objects \in Nat
    BY <1>1, <2>1, ServiceAssumption DEF ServiceAssumption, TimersInv, TypeOK, Obj
  <2>3. NewService.st = "initial"
    BY DEF NewService
  <2>4. svc[n].st \notin BusyStates
    BY <1>1, <2>2 DEF TimersInv, Core, Placed, BusyStates
  <2>5. \A x \in Obj : svc'[x] = IF x = n THEN NewService ELSE svc[x]
    BY <1>1, <2>1, <2>2 DEF TimersInv, TypeOK
  <2> HIDE DEF n
  <2> QED BY <1>2, <2>3, <2>4, <2>5, MatchKept DEF BusyStates
<1> QED BY <1>3, <1>4, <1>5

(***************************************************************************)
(* The exit of a process, the start of one, and a signal to one.           *)
(***************************************************************************)
LEMMA ReapMatch ==
  ASSUME MatchInv, TimersInv', NEW p \in Proc, Reaps(p), NEW e,
         svc' = [svc EXCEPT ![owner[p]] = e], e.st \notin BusyStates
  PROVE  MatchInv'
<1> DEFINE o == owner[p]
<1>1. TimersInv /\ o \in Obj
  BY DEF MatchInv, TimersInv, Owned, Unreaped, Reaps
<1>2. /\ proc[p] = "exited" /\ proc' = [proc EXCEPT ![p] = "reaped"]
      /\ UNCHANGED <<owner, killed, dying>>
  BY DEF Reaps, taskVars
<1>3. \A x \in Obj : svc'[x] = IF x = o THEN e ELSE svc[x]
  BY <1>1 DEF TimersInv, TypeOK
<1>4. \A q \in Proc : proc'[q] = IF q = p THEN "reaped" ELSE proc[q]
  BY <1>1, <1>2 DEF TimersInv, TypeOK
<1>5. p = svc[o].cmd
  BY <1>1, <1>2 DEF MatchInv, StateMatchesProcess, Unreaped
<1>6. ASSUME NEW x \in Obj, Busy(x)'
      PROVE  svc'[x].cmd \in Proc /\ Unreaped(svc[x].cmd)' /\ svc'[x].cmd = svc[x].cmd
  <2>1. x # o /\ svc'[x] = svc[x]
    BY <1>3, <1>6 DEF Busy, BusyStates
  <2>2. svc[x].cmd \in Proc /\ Unreaped(svc[x].cmd)
    BY <1>6, <2>1 DEF MatchInv, StateMatchesProcess, Busy
  <2>3. owner[svc[x].cmd] = x
    BY <1>1, <2>1, <2>2 DEF TimersInv, Core, Proc
  <2> QED BY <1>4, <2>1, <2>2, <2>3 DEF Unreaped
<1>7. ASSUME NEW x \in Obj, NEW q \in Proc, Unreaped(q)', owner[q] = x
      PROVE  Busy(x)' /\ q = svc'[x].cmd
  <2>1. q # p /\ Unreaped(q)
    BY <1>4, <1>7 DEF Unreaped
  <2>2. Busy(x) /\ q = svc[x].cmd
    BY <1>7, <2>1 DEF MatchInv, StateMatchesProcess
  <2>3. x # o
    BY <1>5, <2>1, <2>2
  <2> QED BY <1>3, <2>2, <2>3 DEF Busy
<1>8. StateMatchesProcess'
  BY <1>2, <1>6, <1>7 DEF StateMatchesProcess, Unreaped
<1>9. ASSUME NEW x \in Obj, svc'[x].st = "killing"
      PROVE  proc'[svc'[x].cmd] = "exited" \/ svc'[x].cmd \in killed
  <2>1. x # o /\ svc'[x] = svc[x]
    BY <1>3, <1>9 DEF BusyStates
  <2>2. svc[x].cmd \in Proc
    BY <1>9, <2>1 DEF MatchInv, StateMatchesProcess, Busy
  <2>3. owner[svc[x].cmd] = x
    BY <1>1, <2>1, <2>2 DEF TimersInv, Core, Proc
  <2> QED BY <1>4, <1>9, <2>1, <2>2, <2>3 DEF MatchInv, Signalled
<1> QED BY <1>2, <1>8, <1>9 DEF MatchInv, Signalled

LEMMA ExitedMatch ==
  ASSUME MatchInv, TimersInv', NEW p \in Proc, Exited(p)
  PROVE  MatchInv'
<1> DEFINE o == owner[p]
           d == svc[o]
<1>1. Reaps(p)
  BY DEF Exited, ExitedUnexpectedly, ExitedStopping, ExitedIgnored
<1>2. TimersInv /\ o \in Obj /\ "stopped" \in State
  BY <1>1 DEF MatchInv, TimersInv, Owned, Unreaped, Reaps, State
<1>3. d \in ServiceData
  BY <1>2, SameData
<1>4. PICK e : svc' = [svc EXCEPT ![o] = e] /\ e.st \notin BusyStates
  <2>1. ASSUME NEW action \in ExitActions, NEW success \in BOOLEAN,
               ExitedUnexpectedly(p, action, success)
        PROVE  \E e : svc' = [svc EXCEPT ![o] = e] /\ e.st \notin BusyStates
    <3>1. PICK f \in ServiceData : svc' = [svc EXCEPT ![o] = AfterExit(f, action, success)]
      BY <1>3, <2>1, SendStartedData DEF ExitedUnexpectedly
    <3>2. AfterExit(f, action, success).st \notin BusyStates
      BY AfterExitData DEF BusyStates
    <3> QED BY <3>1, <3>2
  <2>2. ASSUME ExitedStopping(p)
        PROVE  \E e : svc' = [svc EXCEPT ![o] = e] /\ e.st \notin BusyStates
    <3>1. CASE d.restarting
      <4>1. svc' = [svc EXCEPT ![o] = BackedOff(d)]
        BY <2>2, <3>1 DEF ExitedStopping
      <4>2. BackedOff(d).st \notin BusyStates
        BY <1>3, BackedOffData DEF BusyStates
      <4> QED BY <4>1, <4>2
    <3>2. CASE ~d.restarting
      <4> DEFINE f == SendStopped(d, "ok")
      <4>1. svc' = [svc EXCEPT ![o] = Moved(f, "stopped")]
        BY <2>2, <3>2 DEF ExitedStopping
      <4>2. f \in ServiceData
        BY <1>3, SendStoppedData
      <4> HIDE DEF f
      <4>3. Moved(f, "stopped").st \notin BusyStates
        BY <1>2, <4>2, MovedData DEF BusyStates
      <4> QED BY <4>1, <4>3
    <3> QED BY <3>1, <3>2
  <2>3. ~ExitedIgnored(p)
    <3>1. Busy(o)
      BY <1>1, <1>2 DEF MatchInv, StateMatchesProcess, Unreaped, Reaps
    <3> QED BY <3>1 DEF ExitedIgnored, Busy
  <2> QED BY <2>1, <2>2, <2>3 DEF Exited
<1> QED BY <1>1, <1>4, ReapMatch

LEMMA StartInternalMatch ==
  ASSUME MatchInv, TimersInv', NEW o \in Obj, NEW s \in {"starting", "running"},
         NEW T, StartInternal(o, s, T), svc[o].st \notin BusyStates, dying' = dying
  PROVE  MatchInv'
<1> DEFINE n == NextProc
           f == [svc[o] EXCEPT !.cmd = n]
           e == Moved(f, s)
<1>1. TimersInv /\ s \in State /\ TypeOK
  BY DEF MatchInv, State, TimersInv
<1>2. n \in Proc /\ n = procs + 1 /\ procs \in 0..MaxProcs
  <2>1. procs < MaxProcs /\ procs \in 0..MaxProcs
    BY <1>1 DEF TypeOK, StartInternal
  <2> QED BY <2>1, ServiceAssumption DEF ServiceAssumption, NextProc, Proc
<1>3. /\ proc' = [proc EXCEPT ![n] = "alive"] /\ owner' = [owner EXCEPT ![n] = o]
      /\ svc' = [svc EXCEPT ![o] = e] /\ killed' = killed
  BY DEF StartInternal
<1>4. f \in ServiceData /\ f.cmd = n
  <2>1. svc[o] \in ServiceData /\ n \in Nat
    BY <1>1, <1>2 DEF TypeOK, Proc
  <2> QED BY <2>1 DEF ServiceData
<1> HIDE DEF f
<1>5. e.cmd = n /\ e.st = s
  <2>1. Moved(f, s).cmd = f.cmd /\ Moved(f, s).st = s
    BY <1>1, <1>4, MovedData
  <2> QED BY <1>4, <2>1
<1> HIDE DEF e, n
<1>6. /\ \A x \in Obj : svc'[x] = IF x = o THEN e ELSE svc[x]
      /\ \A q \in Proc : proc'[q] = IF q = n THEN "alive" ELSE proc[q]
      /\ \A q \in Proc : owner'[q] = IF q = n THEN o ELSE owner[q]
  BY <1>1, <1>3 DEF TypeOK
<1>7. \A x \in Obj : svc[x].cmd # n
  BY <1>1, <1>2 DEF TypeOK
<1>8. ASSUME NEW x \in Obj, Busy(x)'
      PROVE  svc'[x].cmd \in Proc /\ proc'[svc'[x].cmd] \in {"alive", "exited"}
  <2>1. CASE x = o
    BY <1>2, <1>5, <1>6, <2>1
  <2>2. CASE x # o
    <3>1. svc'[x] = svc[x] /\ Busy(x)
      BY <1>6, <1>8, <2>2 DEF Busy
    <3>2. svc[x].cmd \in Proc /\ proc[svc[x].cmd] \in {"alive", "exited"}
      BY <3>1 DEF MatchInv, StateMatchesProcess, Unreaped
    <3> QED BY <1>6, <1>7, <3>1, <3>2
  <2> QED BY <2>1, <2>2
<1>9. ASSUME NEW x \in Obj, NEW q \in Proc, proc'[q] \in {"alive", "exited"}, owner'[q] = x
      PROVE  Busy(x)' /\ q = svc'[x].cmd
  <2>1. CASE q = n
    BY <1>5, <1>6, <1>9, <2>1 DEF Busy
  <2>2. CASE q # n
    <3>1. Busy(x) /\ q = svc[x].cmd
      BY <1>6, <1>9, <2>2 DEF MatchInv, StateMatchesProcess, Unreaped
    <3>2. x # o
      BY <3>1 DEF Busy, BusyStates
    <3> QED BY <1>6, <3>1, <3>2 DEF Busy
  <2> QED BY <2>1, <2>2
<1>10. StateMatchesProcess'
  BY <1>8, <1>9 DEF StateMatchesProcess, Unreaped
<1>11. Signalled'
  <2>1. ASSUME NEW x \in Obj, svc'[x].st = "killing"
        PROVE  proc'[svc'[x].cmd] = "exited" \/ svc'[x].cmd \in killed
    <3>1. svc'[x] = svc[x]
      BY <1>5, <1>6, <2>1
    <3>2. svc[x].cmd \in Proc
      BY <2>1, <3>1 DEF MatchInv, StateMatchesProcess, Busy
    <3> QED BY <1>6, <1>7, <2>1, <3>1, <3>2 DEF MatchInv, Signalled
  <2> QED BY <1>3, <2>1 DEF Signalled
<1> QED BY <1>10, <1>11 DEF MatchInv

LEMMA TimerOwner ==
  ASSUME TimersInv, NEW k \in Timer, NEW p \in Proc, Elapses(k, p)
  PROVE  owner[p] \in Obj /\ svc[owner[p]] \in ServiceData
<1>1. owner[p] \in Obj
  BY DEF TimersInv, Core, Owned, Elapses
<1> QED BY <1>1, SameData

LEMMA OkayWaitElapsedMatch ==
  ASSUME MatchInv, TimersInv', NEW p \in Proc, OkayWaitElapsed(p)
  PROVE  MatchInv'
<1> DEFINE o == owner[p]
<1>1. TimersInv /\ "okay" \in Timer /\ Elapses("okay", p) /\ "running" \in State
  BY DEF MatchInv, Timer, OkayWaitElapsed, State
<1>2. o \in Obj /\ svc[o] \in ServiceData
  BY <1>1, TimerOwner
<1>3. UNCHANGED <<proc, owner, killed, dying>>
  BY DEF OkayWaitElapsed, procVars, taskVars
<1>4. CASE svc' = svc
  BY <1>3, <1>4, MatchQuiet
<1>5. CASE svc[o].st = "starting" /\ svc' = [svc EXCEPT ![o] = Moved(SendStarted(@, "ok"), "running")]
  <2> DEFINE d == SendStarted(svc[o], "ok")
             e == Moved(d, "running")
  <2>1. svc' = [svc EXCEPT ![o] = e]
    BY <1>5
  <2>2. d \in ServiceData /\ d.cmd = svc[o].cmd
    BY <1>2, SendStartedData
  <2> HIDE DEF d
  <2>3. e.cmd = d.cmd /\ e.st = "running"
    BY <1>1, <2>2, MovedData
  <2> HIDE DEF e
  <2> QED BY <1>2, <1>3, <1>5, <2>1, <2>2, <2>3, MatchUpdate DEF BusyStates
<1> QED BY <1>4, <1>5 DEF OkayWaitElapsed

LEMMA BackoffResetElapsedMatch ==
  ASSUME MatchInv, TimersInv', NEW p \in Proc, BackoffResetElapsed(p)
  PROVE  MatchInv'
<1> DEFINE o == owner[p]
<1>1. TimersInv /\ "reset" \in Timer /\ Elapses("reset", p)
  BY DEF MatchInv, Timer, BackoffResetElapsed
<1>2. o \in Obj /\ svc[o] \in ServiceData
  BY <1>1, TimerOwner
<1>3. UNCHANGED <<proc, owner, killed, dying>>
  BY DEF BackoffResetElapsed, procVars, taskVars
<1>4. CASE svc' = svc
  BY <1>3, <1>4, MatchQuiet
<1>5. CASE svc' # svc
  <2> DEFINE e == [svc[o] EXCEPT !.backoffTime = 0]
  <2>1. svc' = [svc EXCEPT ![o] = e]
    BY <1>5 DEF BackoffResetElapsed
  <2>2. e.cmd = svc[o].cmd /\ e.st = svc[o].st
    BY <1>2 DEF ServiceData
  <2> HIDE DEF e
  <2> QED BY <1>2, <1>3, <2>1, <2>2, MatchUpdate
<1> QED BY <1>4, <1>5

LEMMA CheckFailedMatch ==
  ASSUME MatchInv, TimersInv', CheckFailed
  PROVE  MatchInv'
<1> DEFINE d == svc[current]
<1>1. TimersInv
  BY DEF MatchInv
<1>2. current \in Obj
  BY <1>1, ServiceAssumption DEF ServiceAssumption, TimersInv, TypeOK, CheckFailed, Obj
<1>3. d \in ServiceData
  BY <1>1, <1>2, SameData
<1>4. UNCHANGED <<proc, owner, killed, dying>>
  BY DEF CheckFailed, procVars, taskVars
<1>5. PICK e : /\ svc' = [svc EXCEPT ![current] = e] /\ e.cmd = d.cmd
               /\ \/ d.st = "running" /\ e.st = "terminating"
                  \/ d.st = "exited" /\ e.st = "backoff"
  <2>1. CASE d.st = "running"
    <3> DEFINE e == [d EXCEPT !.st = "terminating", !.restarting = TRUE]
    <3>1. svc' = [svc EXCEPT ![current] = e]
      BY <2>1 DEF CheckFailed
    <3>2. e.cmd = d.cmd /\ e.st = "terminating"
      BY <1>3 DEF ServiceData
    <3> HIDE DEF e
    <3> QED BY <2>1, <3>1, <3>2
  <2>2. CASE d.st = "exited"
    <3>1. svc' = [svc EXCEPT ![current] = BackedOff(d)]
      BY <2>2 DEF CheckFailed
    <3>2. BackedOff(d).cmd = d.cmd /\ BackedOff(d).st = "backoff"
      BY <1>3, BackedOffData
    <3> QED BY <2>2, <3>1, <3>2
  <2> QED BY <2>1, <2>2 DEF CheckFailed
<1> QED BY <1>2, <1>4, <1>5, MatchUpdate DEF BusyStates

LEMMA TerminateTimeElapsedMatch ==
  ASSUME MatchInv, TimersInv', NEW p \in Proc, TerminateTimeElapsed(p)
  PROVE  MatchInv'
<1> DEFINE o == owner[p]
           c == svc[o].cmd
<1>1. TimersInv /\ "terminate" \in Timer /\ Elapses("terminate", p)
  BY DEF MatchInv, Timer, TerminateTimeElapsed
<1>2. o \in Obj /\ svc[o] \in ServiceData
  BY <1>1, TimerOwner
<1>3. UNCHANGED <<proc, owner, dying>>
  BY DEF TerminateTimeElapsed, taskVars
<1>4. CASE svc[o].st # "terminating"
  BY <1>3, <1>4, MatchQuiet DEF TerminateTimeElapsed
<1>5. CASE svc[o].st = "terminating"
  <2>1. svc' = [svc EXCEPT ![o] = [svc[o] EXCEPT !.st = "killing"]] /\ SendKill(c)
    BY <1>5 DEF TerminateTimeElapsed
  <2>2. [svc[o] EXCEPT !.st = "killing"].cmd = c /\ [svc[o] EXCEPT !.st = "killing"].st = "killing"
    BY <1>2 DEF ServiceData
  <2>3. \A x \in Obj : /\ svc'[x].cmd = svc[x].cmd
                        /\ svc'[x].st = IF x = o THEN "killing" ELSE svc[x].st
    BY <1>1, <1>2, <2>1, <2>2 DEF TimersInv, TypeOK
  <2>4. killed \subseteq killed' /\ (proc[c] = "alive" => c \in killed')
    BY <2>1 DEF SendKill
  <2>5. c \in Proc /\ proc[c] \in {"alive", "exited"}
    BY <1>2, <1>5 DEF MatchInv, StateMatchesProcess, Busy, Unreaped
  <2>6. StateMatchesProcess'
    <3>1. \A x \in Obj : svc'[x].st \in BusyStates <=> svc[x].st \in BusyStates
      BY <1>5, <2>3 DEF BusyStates
    <3>2. ASSUME NEW x \in Obj
          PROVE  /\ Busy(x)' => svc'[x].cmd \in Proc /\ proc'[svc'[x].cmd] \in {"alive", "exited"}
                 /\ \A q \in Proc : proc'[q] \in {"alive", "exited"} /\ owner'[q] = x
                                      => Busy(x)' /\ q = svc'[x].cmd
      BY <1>3, <2>3, <3>1 DEF MatchInv, StateMatchesProcess, Busy, Unreaped, BusyStates
    <3> QED BY <3>2 DEF StateMatchesProcess, Unreaped
  <2>7. Signalled'
    BY <1>3, <2>3, <2>4, <2>5 DEF MatchInv, Signalled
  <2> QED BY <1>3, <2>6, <2>7 DEF MatchInv
<1> QED BY <1>4, <1>5

(***************************************************************************)
(* With processes that end when they are killed, killTimeElapsed never     *)
(* finds its service still in killing.                                     *)
(***************************************************************************)
LEMMA KillTimeElapsedMatch ==
  ASSUME Killable, MatchInv, TimersInv', NEW p \in Proc, KillTimeElapsed(p)
  PROVE  MatchInv'
<1> DEFINE o == owner[p]
           c == svc[o].cmd
<1>1. TimersInv /\ "kill" \in Timer /\ Elapses("kill", p)
  BY DEF MatchInv, Timer, KillTimeElapsed
<1>2. o \in Obj
  BY <1>1, TimerOwner
<1>3. UNCHANGED <<proc, owner, killed, dying>>
  BY DEF KillTimeElapsed, procVars, taskVars
<1>4. svc[o].st # "killing"
  <2> SUFFICES ASSUME svc[o].st = "killing" PROVE FALSE
    OBVIOUS
  <2>1. c \in Proc /\ proc[c] \in {"alive", "exited"}
    BY <1>2 DEF MatchInv, StateMatchesProcess, Busy, Unreaped
  <2>2. proc[c] = "exited" \/ c \in killed
    BY <1>2 DEF MatchInv, Signalled
  <2>3. \A q \in Proc : proc[q] # "exited" /\ (q \in killed => proc[q] # "alive")
    BY DEF KillTimeElapsed, KillDue
  <2> QED BY <2>1, <2>2, <2>3
<1>5. svc' = svc
  BY <1>4 DEF KillTimeElapsed
<1> QED BY <1>3, <1>5, MatchQuiet

LEMMA ProcessExitMatch ==
  ASSUME MatchInv, TimersInv', NEW p \in Proc, ProcessExit(p)
  PROVE  MatchInv'
<1>1. UNCHANGED <<svc, owner, killed, dying>> /\ proc[p] = "alive"
  BY DEF ProcessExit, taskVars
<1>2. \A q \in Proc : proc'[q] = IF q = p THEN "exited" ELSE proc[q]
  BY DEF ProcessExit, MatchInv, TimersInv, TypeOK
<1> QED BY <1>1, <1>2, MatchKept

LEMMA RestartMatch ==
  ASSUME TimersInv, TimersInv', Restart
  PROVE  MatchInv'
<1>1. \A o \in Obj : svc'[o].st = "initial"
  BY DEF Restart, NewService
<1>2. \A q \in Proc : proc'[q] # "alive" /\ proc'[q] # "exited"
  BY DEF Restart
<1>3. StateMatchesProcess' /\ Signalled' /\ dying' = {}
  BY <1>1, <1>2 DEF StateMatchesProcess, Busy, Unreaped, Signalled, Restart
<1> QED BY <1>3 DEF MatchInv

LEMMA InitMatch == Init => MatchInv
<1> SUFFICES ASSUME Init PROVE MatchInv
  OBVIOUS
<1>1. TimersInv
  BY InitTimers
<1>2. \A o \in Obj : svc[o].st = "initial"
  BY DEF Init, NewService
<1>3. \A q \in Proc : proc[q] = "none"
  BY DEF Init
<1> QED BY <1>1, <1>2, <1>3 DEF MatchInv, StateMatchesProcess, Busy, Unreaped, Signalled, Init

LEMMA NextMatch ==
  ASSUME MaxAborts = 0, Killable, MatchInv, [Next]_vars
  PROVE  MatchInv'
<1>1. TimersInv /\ TimersInv' /\ dying = {}
  BY NextTimers DEF MatchInv
<1>2. CASE UNCHANGED vars
  BY <1>1, <1>2, MatchQuiet DEF vars, procVars, taskVars
<1>3. ASSUME NEW t \in Task, Request(t) PROVE MatchInv'
  BY <1>1, <1>3, MatchQuiet DEF Request, procVars
<1>4. ASSUME NEW t \in StartTask, StartStep(t) PROVE MatchInv'
  <2>1. t \in Task /\ t \notin dying
    BY <1>1 DEF Task
  <2>2. CASE DoStartAgain(t) \/ DoStartFlag(t)
    BY <1>1, <2>2, MatchQuiet DEF DoStartAgain, DoStartFlag, procVars
  <2>3. CASE ServiceForStart(t)
    BY <1>1, <2>3, ServiceForStartMatch
  <2>4. CASE Start(t)
    <3>1. ref[t] \in Obj
      BY <1>1, <2>1, <2>4, FoundRef DEF Start
    <3>2. /\ StartInternal(ref[t], "starting", Armed("okay", NextProc))
          /\ svc[ref[t]].st = "initial" /\ dying' = dying
      BY <2>4 DEF Start
    <3> QED BY <1>1, <3>1, <3>2, StartInternalMatch DEF BusyStates
  <2>5. CASE StartFails(t)
    BY <1>1, <2>5, StartFailsMatch
  <2>6. CASE StartResult(t)
    BY <1>1, <2>1, <2>6, ResultMatch
  <2>7. CASE StartDying(t)
    BY <2>1, <2>7 DEF StartDying
  <2> QED BY <1>4, <2>2, <2>3, <2>4, <2>5, <2>6, <2>7 DEF StartStep
<1>5. ASSUME NEW t \in StartTask, Abort(t) PROVE MatchInv'
  <2>1. aborts \in 0..0 /\ aborts < 0
    BY <1>1, <1>5 DEF TimersInv, TypeOK, Abort
  <2> QED BY <2>1
<1>6. ASSUME NEW t \in StopTask, StopStep(t) PROVE MatchInv'
  <2>1. t \in Task
    BY DEF Task
  <2>2. CASE StopFails(t)
    BY <1>1, <2>2, MatchQuiet DEF StopFails, procVars
  <2> QED BY <1>1, <1>6, <2>1, <2>2, ServiceForStopMatch, StopMatch, ResultMatch DEF StopStep
<1>7. ASSUME NEW p \in Proc, ProcessExit(p) PROVE MatchInv'
  BY <1>1, <1>7, ProcessExitMatch
<1>8. ASSUME NEW p \in Proc, Exited(p) PROVE MatchInv'
  BY <1>1, <1>8, ExitedMatch
<1>9. ASSUME NEW p \in Proc, TimerElapses(p) PROVE MatchInv'
  <2>1. CASE BackoffTimeElapsed(p)
    <3>1. "backoff" \in Timer /\ Elapses("backoff", p)
      BY <2>1 DEF Timer, BackoffTimeElapsed
    <3>2. owner[p] \in Obj
      BY <1>1, <3>1, TimerOwner
    <3>3. /\ StartInternal(owner[p], "running", Elapsed("backoff", p))
          /\ svc[owner[p]].st = "backoff" /\ dying' = dying
      BY <2>1 DEF BackoffTimeElapsed, taskVars
    <3> QED BY <1>1, <3>2, <3>3, StartInternalMatch DEF BusyStates
  <2>2. CASE BackoffTimeIgnored(p)
    BY <1>1, <2>2, MatchQuiet DEF BackoffTimeIgnored, procVars, taskVars
  <2> QED BY <1>1, <1>9, <2>1, <2>2, OkayWaitElapsedMatch, TerminateTimeElapsedMatch,
             KillTimeElapsedMatch, BackoffResetElapsedMatch DEF TimerElapses
<1>10. CASE Block \/ Prune \/ StopRunning
  BY <1>1, <1>10, MatchQuiet DEF Block, Prune, StopRunning, procVars, taskVars
<1>11. CASE CheckFailed
  BY <1>1, <1>11, CheckFailedMatch
<1>12. CASE Restart
  BY <1>1, <1>12, RestartMatch
<1> QED BY <1>2, <1>3, <1>4, <1>5, <1>6, <1>7, <1>8, <1>9, <1>10, <1>11, <1>12 DEF Next

(***************************************************************************)
(* If no start is aborted and SIGKILL ends a process in time, a service    *)
(* has exactly one process while it is starting, running, terminating or   *)
(* killing, its current command, and none otherwise.                       *)
(***************************************************************************)
THEOREM OneProcess ==
  ASSUME MaxAborts = 0, Killable
  PROVE  Spec => []StateMatchesProcess
<1>1. MatchInv /\ [Next]_vars => MatchInv'
  BY NextMatch
<1>2. MatchInv => StateMatchesProcess
  BY DEF MatchInv
<1> QED BY <1>1, <1>2, InitMatch, PTL DEF Spec

-----------------------------------------------------------------------------
(***************************************************************************)
(* Results: a proof of ResultsSound for every set of tasks and every bound.*)
(***************************************************************************)
\* What the data of a service owes those that wait for it: what was sent and not read yet,
\* and what its state will send.
StartsDue(d) == Len(d.started) + Owed(d.st = "starting")
StopsDue(d) ==
  Len(d.stopped) + Owed(d.st \in {"terminating", "killing"} /\ ~d.restarting)

Awaited(T, o, n) == IsFiniteSet(Waiting(T, o)) /\ Cardinality(Waiting(T, o)) = n
Balanced(o) ==
  Awaited(StartTask, o, StartsDue(svc[o])) /\ Awaited(StopTask, o, StopsDue(svc[o]))

\* The balance needs that no start was aborted, and then that none is about to be; that a
\* task was started once needs the flag that it sets before.
BalanceInv == aborts = 0 => dying = {} /\ \A o \in Obj : Balanced(o)
OnceInv ==
  \A t \in StartTask :
    /\ pc[t] = "found" => t \notin flag
    /\ pc[t] = "flagged" => t \in flag
    /\ launched[t] # 0 => launched[t] = 1 /\ t \in flag /\ pc[t] \notin {"found", "flagged"}

ResultsInv == TimersInv /\ BalanceInv /\ OnceInv

LEMMA MovedDue ==
  ASSUME NEW d \in ServiceData, NEW s \in State
  PROVE  /\ StartsDue(Moved(d, s)) = Len(d.started) + Owed(s = "starting")
         /\ StopsDue(Moved(d, s)) = Len(d.stopped) + Owed(s \in {"terminating", "killing"})
BY DEF Moved, ServiceData, StartsDue, StopsDue

LEMMA SentDue ==
  ASSUME NEW d \in ServiceData, NEW r \in {"ok", "err"}
  PROVE  /\ Len(SendStarted(d, r).started) = Len(d.started) + 1
         /\ SendStarted(d, r).stopped = d.stopped
         /\ Len(SendStopped(d, r).stopped) = Len(d.stopped) + 1
         /\ SendStopped(d, r).started = d.started
<1>1. d.started \in Seq({"ok", "err"}) /\ d.stopped \in Seq({"ok", "err"})
  BY DEF ServiceData
<1>2. /\ SendStarted(d, r).started = Append(d.started, r)
      /\ SendStarted(d, r).stopped = d.stopped
      /\ SendStopped(d, r).stopped = Append(d.stopped, r)
      /\ SendStopped(d, r).started = d.started
  BY DEF SendStarted, SendStopped, ServiceData
<1> QED BY <1>1, <1>2

LEMMA BackedOffDue ==
  ASSUME NEW d \in ServiceData
  PROVE  StartsDue(BackedOff(d)) = Len(d.started) /\ StopsDue(BackedOff(d)) = Len(d.stopped)
<1>1. /\ BackedOff(d).started = d.started /\ BackedOff(d).stopped = d.stopped
      /\ BackedOff(d).st = "backoff"
  BY DEF BackedOff, Moved, ServiceData
<1>2. Len(d.started) \in Nat /\ Len(d.stopped) \in Nat
  BY DEF ServiceData
<1> QED BY <1>1, <1>2 DEF StartsDue, StopsDue, Owed

LEMMA AfterExitDue ==
  ASSUME NEW d \in ServiceData, NEW action, NEW success
  PROVE  /\ StartsDue(AfterExit(d, action, success)) = Len(d.started)
         /\ StopsDue(AfterExit(d, action, success)) = Len(d.stopped)
<1>1. {"stopped", "exited"} \subseteq State
  BY DEF State
<1>2. Len(d.started) \in Nat /\ Len(d.stopped) \in Nat
  BY DEF ServiceData
<1>3. ASSUME NEW s \in {"stopped", "exited"}
      PROVE  StartsDue(Moved(d, s)) = Len(d.started) /\ StopsDue(Moved(d, s)) = Len(d.stopped)
  <2>1. /\ StartsDue(Moved(d, s)) = Len(d.started) + Owed(s = "starting")
        /\ StopsDue(Moved(d, s)) = Len(d.stopped) + Owed(s \in {"terminating", "killing"})
    BY <1>1, MovedDue
  <2>2. Owed(s = "starting") = 0 /\ Owed(s \in {"terminating", "killing"}) = 0
    BY DEF Owed
  <2> QED BY <1>2, <2>1, <2>2
<1>4. CASE action = "restart"
  BY <1>4, BackedOffDue DEF AfterExit
<1>5. CASE action # "restart" /\ action = "ignore" /\ success
  BY <1>3, <1>5 DEF AfterExit
<1>6. CASE action # "restart" /\ ~(action = "ignore" /\ success)
  BY <1>3, <1>6 DEF AfterExit
<1> QED BY <1>4, <1>5, <1>6

LEMMA DueTypes ==
  ASSUME TimersInv, NEW o \in Obj
  PROVE  /\ svc[o] \in ServiceData /\ StartsDue(svc[o]) \in Nat /\ StopsDue(svc[o]) \in Nat
         /\ Len(svc[o].started) \in Nat /\ Len(svc[o].stopped) \in Nat
<1>1. svc[o] \in ServiceData
  BY SameData
<1>2. svc[o].started \in Seq({"ok", "err"}) /\ svc[o].stopped \in Seq({"ok", "err"})
  BY <1>1 DEF ServiceData
<1>3. Len(svc[o].started) \in Nat /\ Len(svc[o].stopped) \in Nat
  BY <1>2
<1>4. \A b : Owed(b) \in {0, 1}
  BY DEF Owed
<1>5. StartsDue(svc[o]) \in Nat /\ StopsDue(svc[o]) \in Nat
  <2>1. /\ Owed(svc[o].st = "starting") \in {0, 1}
        /\ Owed(svc[o].st \in {"terminating", "killing"} /\ ~svc[o].restarting) \in {0, 1}
    BY <1>4
  <2> QED BY <1>3, <2>1 DEF StartsDue, StopsDue
<1> QED BY <1>1, <1>3, <1>5

\* What is due in each state.
LEMMA DueIs ==
  ASSUME TimersInv, NEW o \in Obj
  PROVE  /\ StartsDue(svc[o]) = IF svc[o].st = "starting" THEN Len(svc[o].started) + 1
                               ELSE Len(svc[o].started)
         /\ svc[o].st \in {"terminating", "killing"} /\ ~svc[o].restarting =>
              StopsDue(svc[o]) = Len(svc[o].stopped) + 1
         /\ svc[o].st \notin {"terminating", "killing"} \/ svc[o].restarting =>
              StopsDue(svc[o]) = Len(svc[o].stopped)
<1> DEFINE a == svc[o].st = "starting"
           b == svc[o].st \in {"terminating", "killing"} /\ ~svc[o].restarting
<1>1. Len(svc[o].started) \in Nat /\ Len(svc[o].stopped) \in Nat
  BY DueTypes
<1>2. StartsDue(svc[o]) = Len(svc[o].started) + Owed(a)
      /\ StopsDue(svc[o]) = Len(svc[o].stopped) + Owed(b)
  BY DEF StartsDue, StopsDue
<1>3. (a => Owed(a) = 1) /\ (~a => Owed(a) = 0) /\ (b => Owed(b) = 1) /\ (~b => Owed(b) = 0)
  BY DEF Owed
<1>4. (~b <=> svc[o].st \notin {"terminating", "killing"} \/ svc[o].restarting)
      /\ (b <=> svc[o].st \in {"terminating", "killing"} /\ ~svc[o].restarting)
  OBVIOUS
<1>5. StartsDue(svc[o]) = IF a THEN Len(svc[o].started) + 1 ELSE Len(svc[o].started)
  BY <1>1, <1>2, <1>3
<1>6. (b => StopsDue(svc[o]) = Len(svc[o].stopped) + 1)
      /\ (~b => StopsDue(svc[o]) = Len(svc[o].stopped))
  <2> HIDE DEF b
  <2> QED BY <1>1, <1>2, <1>3
<1> QED BY <1>4, <1>5, <1>6

(***************************************************************************)
(* A step in which nobody starts or ends to wait, and none of the results  *)
(* that are due changes its number.                                        *)
(***************************************************************************)
LEMMA BalanceKept ==
  ASSUME TimersInv, BalanceInv, UNCHANGED <<dying, aborts>>,
         \A t \in Task : /\ pc'[t] = "waiting" <=> pc[t] = "waiting"
                         /\ pc[t] = "waiting" => ref'[t] = ref[t],
         aborts = 0 => \A o \in Obj : /\ StartsDue(svc'[o]) = StartsDue(svc[o])
                                      /\ StopsDue(svc'[o]) = StopsDue(svc[o])
  PROVE  BalanceInv'
<1>1. \A o \in Obj : /\ Waiting(StartTask, o)' = Waiting(StartTask, o)
                     /\ Waiting(StopTask, o)' = Waiting(StopTask, o)
  BY DEF Waiting, Task
<1>2. \A o \in Obj : /\ StartsDue(svc[o])' = StartsDue(svc'[o])
                     /\ StopsDue(svc[o])' = StopsDue(svc'[o])
  BY DEF StartsDue, StopsDue
<1> QED BY <1>1, <1>2 DEF BalanceInv, Balanced, Awaited

\* The data of one object becomes e.
LEMMA BalanceUpdate ==
  ASSUME TimersInv, BalanceInv, UNCHANGED <<dying, aborts>>,
         \A t \in Task : /\ pc'[t] = "waiting" <=> pc[t] = "waiting"
                         /\ pc[t] = "waiting" => ref'[t] = ref[t],
         NEW o \in Obj, NEW e, svc' = [svc EXCEPT ![o] = e],
         aborts = 0 => StartsDue(e) = StartsDue(svc[o]) /\ StopsDue(e) = StopsDue(svc[o])
  PROVE  BalanceInv'
<1>1. \A x \in Obj : svc'[x] = IF x = o THEN e ELSE svc[x]
  BY DEF TimersInv, TypeOK
<1> QED BY <1>1, BalanceKept

\* A task starts to wait, or has its result.
LEMMA Joins ==
  ASSUME NEW T \in {StartTask, StopTask}, NEW t \in T, NEW n \in Nat, NEW o, ref[t] = o,
         pc[t] # "waiting", pc' = [pc EXCEPT ![t] = "waiting"], UNCHANGED ref, TypeOK,
         Awaited(T, o, n)
  PROVE  Awaited(T, o, n + 1)'
<1>1. T \subseteq Task
  BY DEF Task
<1>2. Waiting(T, o)' = Waiting(T, o) \cup {t} /\ t \notin Waiting(T, o)
  BY <1>1 DEF Waiting, TypeOK
<1> QED BY <1>2, FS_AddElement DEF Awaited

LEMMA Leaves ==
  ASSUME NEW T \in {StartTask, StopTask}, NEW t \in T, NEW n \in Nat, NEW o, ref[t] = o,
         NEW l, l # "waiting", pc[t] = "waiting", pc' = [pc EXCEPT ![t] = l], UNCHANGED ref,
         TypeOK, Awaited(T, o, n)
  PROVE  Awaited(T, o, n - 1)'
<1>1. T \subseteq Task
  BY DEF Task
<1>2. Waiting(T, o)' = Waiting(T, o) \ {t} /\ t \in Waiting(T, o)
  BY <1>1 DEF Waiting, TypeOK
<1> QED BY <1>2, FS_RemoveElement DEF Awaited

\* A task moves, and the data of its object becomes e.
LEMMA BalanceMoves ==
  ASSUME TimersInv, BalanceInv, UNCHANGED <<dying, aborts, ref>>,
         NEW t \in Task, NEW l, pc' = [pc EXCEPT ![t] = l], NEW o \in Obj, ref[t] = o,
         NEW e, svc' = [svc EXCEPT ![o] = e],
         aborts = 0 =>
           \/ /\ t \in StartTask /\ Awaited(StartTask, o, StartsDue(e))'
              /\ StopsDue(e) = StopsDue(svc[o])
           \/ /\ t \in StopTask /\ Awaited(StopTask, o, StopsDue(e))'
              /\ StartsDue(e) = StartsDue(svc[o])
  PROVE  BalanceInv'
<1> SUFFICES ASSUME aborts = 0 PROVE \A x \in Obj : Balanced(x)'
  BY DEF BalanceInv
<1>1. StartTask \cap StopTask = {}
  BY ServiceAssumption DEF ServiceAssumption
<1>2. \A T \in {StartTask, StopTask}, x \in Obj :
        t \notin T \/ x # o => Waiting(T, x)' = Waiting(T, x)
  BY DEF Waiting, TimersInv, TypeOK, Task
<1>3. \A x \in Obj : svc'[x] = IF x = o THEN e ELSE svc[x]
  BY DEF TimersInv, TypeOK
<1>4. ASSUME NEW x \in Obj, x # o PROVE Balanced(x)'
  <2>1. svc'[x] = svc[x] /\ Balanced(x)
    BY <1>3, <1>4 DEF BalanceInv
  <2>2. /\ Waiting(StartTask, x)' = Waiting(StartTask, x)
        /\ Waiting(StopTask, x)' = Waiting(StopTask, x)
    BY <1>2, <1>4
  <2>3. StartsDue(svc[x])' = StartsDue(svc[x]) /\ StopsDue(svc[x])' = StopsDue(svc[x])
    BY <2>1 DEF StartsDue, StopsDue
  <2> QED BY <2>1, <2>2, <2>3 DEF Balanced, Awaited
<1>5. svc'[o] = e /\ Balanced(o)
  BY <1>3 DEF BalanceInv
<1>6. StartsDue(svc[o])' = StartsDue(e) /\ StopsDue(svc[o])' = StopsDue(e)
  BY <1>5 DEF StartsDue, StopsDue
<1>7. ASSUME t \in StartTask, Awaited(StartTask, o, StartsDue(e))', StopsDue(e) = StopsDue(svc[o])
      PROVE  Balanced(o)'
  <2>1. Waiting(StopTask, o)' = Waiting(StopTask, o)
    BY <1>1, <1>2, <1>7
  <2> QED BY <1>5, <1>6, <1>7, <2>1 DEF Balanced, Awaited
<1>8. ASSUME t \in StopTask, Awaited(StopTask, o, StopsDue(e))', StartsDue(e) = StartsDue(svc[o])
      PROVE  Balanced(o)'
  <2>1. Waiting(StartTask, o)' = Waiting(StartTask, o)
    BY <1>1, <1>2, <1>8
  <2> QED BY <1>5, <1>6, <1>8, <2>1 DEF Balanced, Awaited
<1> QED BY <1>4, <1>7, <1>8 DEF Task

(***************************************************************************)
(* The actions, while no start was aborted.                                *)
(***************************************************************************)
LEMMA ServiceForStartBalance ==
  ASSUME ResultsInv, NEW t \in StartTask, ServiceForStart(t)
  PROVE  BalanceInv'
<1>1. TimersInv /\ BalanceInv /\ t \in Task /\ UNCHANGED <<dying, aborts>>
  BY DEF ResultsInv, Task, ServiceForStart, boundVars
<1>2. \A s \in Task : /\ pc'[s] = "waiting" <=> pc[s] = "waiting"
                      /\ pc[s] = "waiting" => ref'[s] = ref[s]
  BY <1>1 DEF ServiceForStart, Goto, TimersInv, TypeOK
<1>3. CASE current = 0
  <2> DEFINE o == objects + 1
  <2>1. svc' = [svc EXCEPT ![o] = NewService] /\ o \in Obj
    BY <1>1, <1>3, ServiceAssumption
    DEF ServiceForStart, ServiceAssumption, TimersInv, TypeOK, Obj
  <2>2. Waiting(StartTask, o) = {} /\ Waiting(StopTask, o) = {}
    BY <1>1 DEF TimersInv, TaskRefs, TypeOK, Waiting, Task
  <2>3. aborts = 0 => StartsDue(svc[o]) = 0 /\ StopsDue(svc[o]) = 0
    BY <1>1, <2>1, <2>2, FS_EmptySet DEF BalanceInv, Balanced, Awaited
  <2>4. StartsDue(NewService) = 0 /\ StopsDue(NewService) = 0
    BY DEF NewService, StartsDue, StopsDue, Owed
  <2> HIDE DEF o
  <2> QED BY <1>1, <1>2, <2>1, <2>3, <2>4, BalanceUpdate
<1>4. CASE current # 0 /\ svc[current].st \notin StartAllowed
  <2>1. svc' = svc
    BY <1>4 DEF ServiceForStart
  <2> QED BY <1>1, <1>2, <2>1, BalanceKept
<1>5. CASE current # 0 /\ svc[current].st \in StartAllowed
  <2> DEFINE d == [svc[current] EXCEPT !.backoffTime = 0]
  <2>1. current \in Obj /\ svc' = [svc EXCEPT ![current] = Moved(d, "initial")]
    BY <1>1, <1>5, ServiceAssumption
    DEF ServiceForStart, ServiceAssumption, TimersInv, TypeOK, Obj
  <2>2. /\ svc[current] \in ServiceData
        /\ Len(svc[current].started) \in Nat /\ Len(svc[current].stopped) \in Nat
    BY <1>1, <2>1, DueTypes
  <2>3. /\ d \in ServiceData /\ d.started = svc[current].started
        /\ d.stopped = svc[current].stopped
    BY <2>2 DEF ServiceData
  <2> HIDE DEF d
  <2>4. StartsDue(Moved(d, "initial")) = Len(d.started)
        /\ StopsDue(Moved(d, "initial")) = Len(d.stopped)
    <3>1. "initial" \in State
      BY DEF State
    <3>2. Owed("initial" = "starting") = 0 /\ Owed("initial" \in {"terminating", "killing"}) = 0
      BY DEF Owed
    <3> QED BY <2>2, <2>3, <3>1, <3>2, MovedDue
  <2>5. StartsDue(svc[current]) = Len(svc[current].started)
        /\ StopsDue(svc[current]) = Len(svc[current].stopped)
    BY <1>1, <1>5, <2>1, DueIs DEF StartAllowed
  <2> QED BY <1>1, <1>2, <2>1, <2>3, <2>4, <2>5, BalanceUpdate
<1> QED BY <1>3, <1>4, <1>5

\* What StartInternal makes of the data: nothing is sent, and the state is s.
LEMMA StartInternalDue ==
  ASSUME TimersInv, NEW o \in Obj, NEW s \in {"starting", "running"}, NEW T,
         StartInternal(o, s, T), svc[o].st \in {"initial", "backoff"}
  PROVE  \E e : /\ svc' = [svc EXCEPT ![o] = e]
                /\ StartsDue(e) = StartsDue(svc[o]) + Owed(s = "starting")
                /\ StopsDue(e) = StopsDue(svc[o])
<1> DEFINE d == [svc[o] EXCEPT !.cmd = NextProc]
<1>1. svc' = [svc EXCEPT ![o] = Moved(d, s)]
  BY DEF StartInternal
<1>2. /\ svc[o] \in ServiceData
      /\ Len(svc[o].started) \in Nat /\ Len(svc[o].stopped) \in Nat
  BY DueTypes
<1>3. d \in ServiceData /\ d.started = svc[o].started /\ d.stopped = svc[o].stopped
  <2>1. NextProc \in Nat
    BY ServiceAssumption DEF ServiceAssumption, NextProc, TimersInv, TypeOK
  <2> QED BY <1>2, <2>1 DEF ServiceData
<1> HIDE DEF d
<1>4. s \in State /\ Owed(s \in {"terminating", "killing"}) = 0
  BY DEF State, Owed
<1>5. /\ StartsDue(Moved(d, s)) = Len(d.started) + Owed(s = "starting")
      /\ StopsDue(Moved(d, s)) = Len(d.stopped) + Owed(s \in {"terminating", "killing"})
  BY <1>3, <1>4, MovedDue
<1>6. StartsDue(svc[o]) = Len(svc[o].started) /\ StopsDue(svc[o]) = Len(svc[o].stopped)
  BY DueIs
<1>7. StartsDue(Moved(d, s)) = StartsDue(svc[o]) + Owed(s = "starting")
      /\ StopsDue(Moved(d, s)) = StopsDue(svc[o])
  BY <1>2, <1>3, <1>4, <1>5, <1>6
<1> QED BY <1>1, <1>7

LEMMA StartBalance ==
  ASSUME ResultsInv, NEW t \in StartTask, Start(t)
  PROVE  BalanceInv'
<1>1. TimersInv /\ BalanceInv /\ t \in Task /\ UNCHANGED <<dying, aborts, ref>>
  BY DEF ResultsInv, Task, Start, boundVars
<1>2. PICK o \in Obj : ref[t] = o
  BY <1>1, FoundRef DEF Start
<1>3. /\ pc[t] # "waiting" /\ pc' = [pc EXCEPT ![t] = "waiting"]
      /\ StartInternal(o, "starting", Armed("okay", NextProc))
      /\ svc[o].st = "initial"
  BY <1>2 DEF Start, Goto
<1>4. PICK e : /\ svc' = [svc EXCEPT ![o] = e]
               /\ StartsDue(e) = StartsDue(svc[o]) + Owed("starting" = "starting")
               /\ StopsDue(e) = StopsDue(svc[o])
  BY <1>1, <1>3, StartInternalDue
<1>5. PICK n \in Nat : n = StartsDue(svc[o])
  BY <1>1, DueTypes
<1>6. StartsDue(e) = n + 1
  <2>1. Owed("starting" = "starting") = 1
    BY DEF Owed
  <2> QED BY <1>4, <1>5, <2>1
<1>7. aborts = 0 => Awaited(StartTask, o, n + 1)'
  BY <1>1, <1>2, <1>3, <1>5, Joins DEF TimersInv, BalanceInv, Balanced
<1>8. aborts = 0 => Awaited(StartTask, o, StartsDue(e))'
  BY <1>6, <1>7
<1> QED BY <1>1, <1>2, <1>3, <1>4, <1>8, BalanceMoves

LEMMA StartFailsBalance ==
  ASSUME ResultsInv, NEW t \in StartTask, StartFails(t)
  PROVE  BalanceInv'
<1>1. TimersInv /\ BalanceInv /\ t \in Task /\ UNCHANGED <<dying, aborts, ref>>
  BY DEF ResultsInv, Task, StartFails, boundVars
<1>2. PICK o \in Obj : ref[t] = o
  BY <1>1, FoundRef DEF StartFails
<1>3. \A s \in Task : /\ pc'[s] = "waiting" <=> pc[s] = "waiting"
                      /\ pc[s] = "waiting" => ref'[s] = ref[s]
  BY <1>1 DEF StartFails, Goto, TimersInv, TypeOK
<1>4. CASE svc' = svc
  BY <1>1, <1>3, <1>4, BalanceKept
<1>5. CASE svc[o].st = "initial" /\ svc' = [svc EXCEPT ![o] = Moved(@, "stopped")]
  <2>1. /\ StartsDue(svc[o]) = Len(svc[o].started) /\ Len(svc[o].started) \in Nat
        /\ StopsDue(svc[o]) = Len(svc[o].stopped) /\ Len(svc[o].stopped) \in Nat
        /\ svc[o] \in ServiceData
    BY <1>1, <1>5, DueIs, DueTypes
  <2>2. StartsDue(Moved(svc[o], "stopped")) = Len(svc[o].started)
        /\ StopsDue(Moved(svc[o], "stopped")) = Len(svc[o].stopped)
    <3>1. /\ "stopped" \in State /\ Owed("stopped" = "starting") = 0
          /\ Owed("stopped" \in {"terminating", "killing"}) = 0
      BY DEF State, Owed
    <3> QED BY <2>1, <3>1, MovedDue
  <2> QED BY <1>1, <1>3, <1>5, <2>1, <2>2, BalanceUpdate
<1> QED BY <1>2, <1>4, <1>5 DEF StartFails

LEMMA StartDyingBalance ==
  ASSUME ResultsInv, NEW t \in StartTask, StartDying(t)
  PROVE  BalanceInv'
<1>1. aborts # 0 /\ aborts' = aborts
  BY DEF ResultsInv, BalanceInv, StartDying, boundVars
<1> QED BY <1>1 DEF BalanceInv

LEMMA StartResultBalance ==
  ASSUME ResultsInv, NEW t \in StartTask, StartResult(t)
  PROVE  BalanceInv'
<1>1. TimersInv /\ BalanceInv /\ t \in Task /\ UNCHANGED <<dying, aborts, ref>>
  BY DEF ResultsInv, Task, StartResult, boundVars
<1>2. PICK o \in Obj : ref[t] = o
  BY <1>1, FoundRef DEF StartResult
<1>3. PICK l \in {"done", "error"} : pc' = [pc EXCEPT ![t] = l]
  BY DEF StartResult, Goto
<1>4. PICK e : e = [svc[o] EXCEPT !.started = Tail(@)]
  OBVIOUS
<1>5. svc' = [svc EXCEPT ![o] = e] /\ pc[t] = "waiting" /\ svc[o].started # <<>>
  BY <1>2, <1>4 DEF StartResult
<1>6. PICK n \in Nat : n = StartsDue(svc[o])
  BY <1>1, DueTypes
<1>7. /\ StartsDue(e) = n - 1 /\ StopsDue(e) = StopsDue(svc[o])
  <2>1. svc[o] \in ServiceData /\ svc[o].started \in Seq({"ok", "err"})
    BY <1>1, DueTypes DEF ServiceData
  <2>2. /\ e.started = Tail(svc[o].started) /\ e.stopped = svc[o].stopped
        /\ e.st = svc[o].st /\ e.restarting = svc[o].restarting
    BY <1>4, <2>1 DEF ServiceData
  <2>3. Len(e.started) = Len(svc[o].started) - 1 /\ Len(svc[o].started) \in Nat
    BY <1>5, <2>1, <2>2
  <2>4. Owed(svc[o].st = "starting") \in {0, 1}
    BY DEF Owed
  <2> QED BY <1>6, <2>2, <2>3, <2>4 DEF StartsDue, StopsDue
<1>8. aborts = 0 => Awaited(StartTask, o, n - 1)'
  BY <1>1, <1>2, <1>3, <1>5, <1>6, Leaves DEF TimersInv, BalanceInv, Balanced
<1>9. aborts = 0 => Awaited(StartTask, o, StartsDue(e))'
  BY <1>7, <1>8
<1> QED BY <1>1, <1>2, <1>3, <1>5, <1>7, <1>9, BalanceMoves

LEMMA StopResultBalance ==
  ASSUME ResultsInv, NEW t \in StopTask, StopResult(t)
  PROVE  BalanceInv'
<1>1. TimersInv /\ BalanceInv /\ t \in Task /\ UNCHANGED <<dying, aborts, ref>>
  BY DEF ResultsInv, Task, StopResult, boundVars
<1>2. PICK o \in Obj : ref[t] = o
  BY <1>1, FoundRef DEF StopResult
<1>3. PICK l \in {"done", "error"} : pc' = [pc EXCEPT ![t] = l]
  BY DEF StopResult, Goto
<1>4. PICK e : e = [svc[o] EXCEPT !.stopped = Tail(@)]
  OBVIOUS
<1>5. svc' = [svc EXCEPT ![o] = e] /\ pc[t] = "waiting" /\ svc[o].stopped # <<>>
  BY <1>2, <1>4 DEF StopResult
<1>6. PICK n \in Nat : n = StopsDue(svc[o])
  BY <1>1, DueTypes
<1>7. /\ StopsDue(e) = n - 1 /\ StartsDue(e) = StartsDue(svc[o])
  <2>1. svc[o] \in ServiceData /\ svc[o].stopped \in Seq({"ok", "err"})
    BY <1>1, DueTypes DEF ServiceData
  <2>2. /\ e.stopped = Tail(svc[o].stopped) /\ e.started = svc[o].started
        /\ e.st = svc[o].st /\ e.restarting = svc[o].restarting
    BY <1>4, <2>1 DEF ServiceData
  <2>3. Len(e.stopped) = Len(svc[o].stopped) - 1 /\ Len(svc[o].stopped) \in Nat
    BY <1>5, <2>1, <2>2
  <2>4. Owed(svc[o].st \in {"terminating", "killing"} /\ ~svc[o].restarting) \in {0, 1}
    BY DEF Owed
  <2> QED BY <1>6, <2>2, <2>3, <2>4 DEF StartsDue, StopsDue
<1>8. aborts = 0 => Awaited(StopTask, o, n - 1)'
  BY <1>1, <1>2, <1>3, <1>5, <1>6, Leaves DEF TimersInv, BalanceInv, Balanced
<1>9. aborts = 0 => Awaited(StopTask, o, StopsDue(e))'
  BY <1>7, <1>8
<1> QED BY <1>1, <1>2, <1>3, <1>5, <1>7, <1>9, BalanceMoves

LEMMA ServiceForStopBalance ==
  ASSUME ResultsInv, NEW t \in StopTask, ServiceForStop(t)
  PROVE  BalanceInv'
<1>1. TimersInv /\ BalanceInv /\ t \in Task /\ UNCHANGED <<dying, aborts>>
  BY DEF ResultsInv, Task, ServiceForStop, boundVars
<1>2. \A s \in Task : /\ pc'[s] = "waiting" <=> pc[s] = "waiting"
                      /\ pc[s] = "waiting" => ref'[s] = ref[s]
  BY <1>1 DEF ServiceForStop, Goto, TimersInv, TypeOK
<1>3. CASE svc' = svc
  BY <1>1, <1>2, <1>3, BalanceKept
<1>4. CASE /\ current # 0 /\ svc[current].st = "exited"
           /\ svc' = [svc EXCEPT ![current] = Moved(@, "stopped")]
  <2>1. current \in Obj
    BY <1>1, <1>4, ServiceAssumption DEF ServiceAssumption, TimersInv, TypeOK, Obj
  <2>2. /\ StartsDue(svc[current]) = Len(svc[current].started)
        /\ StopsDue(svc[current]) = Len(svc[current].stopped)
        /\ Len(svc[current].started) \in Nat /\ Len(svc[current].stopped) \in Nat
        /\ svc[current] \in ServiceData
    BY <1>1, <1>4, <2>1, DueIs, DueTypes
  <2>3. StartsDue(Moved(svc[current], "stopped")) = Len(svc[current].started)
        /\ StopsDue(Moved(svc[current], "stopped")) = Len(svc[current].stopped)
    <3>1. /\ "stopped" \in State /\ Owed("stopped" = "starting") = 0
          /\ Owed("stopped" \in {"terminating", "killing"}) = 0
      BY DEF State, Owed
    <3> QED BY <2>2, <3>1, MovedDue
  <2> QED BY <1>1, <1>2, <1>4, <2>1, <2>2, <2>3, BalanceUpdate
<1> QED BY <1>3, <1>4 DEF ServiceForStop

LEMMA StopBalance ==
  ASSUME ResultsInv, NEW t \in StopTask, Stop(t) \/ StopBackoff(t)
  PROVE  BalanceInv'
<1>1. TimersInv /\ BalanceInv /\ t \in Task /\ UNCHANGED <<dying, aborts, ref>>
  BY DEF ResultsInv, Task, Stop, StopBackoff, boundVars
<1>2. PICK o \in Obj : ref[t] = o
  BY <1>1, FoundRef DEF Stop, StopBackoff
<1>3. pc[t] # "waiting" /\ pc' = [pc EXCEPT ![t] = "waiting"]
  BY DEF Stop, StopBackoff, Goto
<1>4. /\ svc[o] \in ServiceData
      /\ Len(svc[o].started) \in Nat /\ Len(svc[o].stopped) \in Nat
  BY <1>1, DueTypes
<1>5. PICK n \in Nat : n = StopsDue(svc[o])
  BY <1>1, DueTypes
<1>6. /\ Owed("terminating" = "starting") = 0 /\ Owed("stopped" = "starting") = 0
      /\ Owed("terminating" \in {"terminating", "killing"}) = 1
      /\ Owed("stopped" \in {"terminating", "killing"}) = 0
      /\ "terminating" \in State /\ "stopped" \in State
  BY DEF Owed, State
<1>7. \E e : /\ svc' = [svc EXCEPT ![o] = e] /\ StopsDue(e) = n + 1
             /\ StartsDue(e) = StartsDue(svc[o])
  <2>1. CASE svc[o].st = "running" /\ svc' = [svc EXCEPT ![o] = Moved(@, "terminating")]
    <3>1. /\ StartsDue(svc[o]) = Len(svc[o].started)
          /\ StopsDue(svc[o]) = Len(svc[o].stopped)
      BY <1>1, <2>1, DueIs
    <3>2. /\ StartsDue(Moved(svc[o], "terminating")) = Len(svc[o].started)
          /\ StopsDue(Moved(svc[o], "terminating")) = Len(svc[o].stopped) + 1
      BY <1>4, <1>6, MovedDue
    <3> QED BY <1>5, <2>1, <3>1, <3>2
  <2>2. CASE /\ svc[o].st = "starting"
             /\ svc' = [svc EXCEPT ![o] = Moved(SendStarted(@, "err"), "terminating")]
    <3> DEFINE d == SendStarted(svc[o], "err")
    <3>1. /\ StartsDue(svc[o]) = Len(svc[o].started) + 1
          /\ StopsDue(svc[o]) = Len(svc[o].stopped)
      BY <1>1, <2>2, DueIs
    <3>2. /\ d \in ServiceData /\ Len(d.started) = Len(svc[o].started) + 1
          /\ d.stopped = svc[o].stopped
      BY <1>4, SendStartedData, SentDue
    <3> HIDE DEF d
    <3>3. /\ StartsDue(Moved(d, "terminating")) = Len(svc[o].started) + 1
          /\ StopsDue(Moved(d, "terminating")) = Len(svc[o].stopped) + 1
      BY <1>4, <1>6, <3>2, MovedDue
    <3>4. svc' = [svc EXCEPT ![o] = Moved(d, "terminating")]
      BY <2>2 DEF d
    <3> QED BY <1>5, <3>1, <3>3, <3>4
  <2>3. CASE /\ svc[o].st = "backoff"
             /\ svc' = [svc EXCEPT ![o] = Moved(SendStopped(@, "ok"), "stopped")]
    <3> DEFINE d == SendStopped(svc[o], "ok")
    <3>1. /\ StartsDue(svc[o]) = Len(svc[o].started)
          /\ StopsDue(svc[o]) = Len(svc[o].stopped)
      BY <1>1, <2>3, DueIs
    <3>2. /\ d \in ServiceData /\ Len(d.stopped) = Len(svc[o].stopped) + 1
          /\ d.started = svc[o].started
      BY <1>4, SendStoppedData, SentDue
    <3> HIDE DEF d
    <3>3. /\ StartsDue(Moved(d, "stopped")) = Len(svc[o].started)
          /\ StopsDue(Moved(d, "stopped")) = Len(svc[o].stopped) + 1
      BY <1>4, <1>6, <3>2, MovedDue
    <3>4. svc' = [svc EXCEPT ![o] = Moved(d, "stopped")]
      BY <2>3 DEF d
    <3> QED BY <1>5, <3>1, <3>3, <3>4
  <2> QED BY <1>2, <2>1, <2>2, <2>3 DEF Stop, StopBackoff
<1>8. PICK e : /\ svc' = [svc EXCEPT ![o] = e] /\ StopsDue(e) = n + 1
               /\ StartsDue(e) = StartsDue(svc[o])
  BY <1>7
<1>9. aborts = 0 => Awaited(StopTask, o, n + 1)'
  BY <1>1, <1>2, <1>3, <1>5, Joins DEF TimersInv, BalanceInv, Balanced
<1>10. aborts = 0 => Awaited(StopTask, o, StopsDue(e))'
  BY <1>8, <1>9
<1> QED BY <1>1, <1>2, <1>3, <1>8, <1>10, BalanceMoves

(***************************************************************************)
(* Exits, timers and checks: what was owed is sent, or stays owed.         *)
(***************************************************************************)
LEMMA QuietBalance ==
  ASSUME ResultsInv, UNCHANGED <<dying, aborts, pc, ref>>, NEW o \in Obj, NEW e,
         svc' = [svc EXCEPT ![o] = e],
         StartsDue(e) = StartsDue(svc[o]), StopsDue(e) = StopsDue(svc[o])
  PROVE  BalanceInv'
BY BalanceUpdate DEF ResultsInv

LEMMA StartSent ==
  ASSUME TimersInv, NEW o \in Obj, svc[o].st = "starting", NEW r \in {"ok", "err"}, NEW d,
         d = SendStarted(svc[o], r)
  PROVE  /\ d \in ServiceData
         /\ Len(d.started) \in Nat /\ Len(d.stopped) \in Nat
         /\ StartsDue(svc[o]) = Len(d.started) /\ StopsDue(svc[o]) = Len(d.stopped)
<1>1. /\ StartsDue(svc[o]) = Len(svc[o].started) + 1
      /\ StopsDue(svc[o]) = Len(svc[o].stopped)
      /\ svc[o] \in ServiceData
      /\ Len(svc[o].started) \in Nat /\ Len(svc[o].stopped) \in Nat
  BY DueIs, DueTypes
<1> QED BY <1>1, SendStartedData, SentDue

LEMMA StopSent ==
  ASSUME TimersInv, NEW o \in Obj, svc[o].st \in {"terminating", "killing"},
         ~svc[o].restarting, NEW r \in {"ok", "err"}, NEW d, d = SendStopped(svc[o], r)
  PROVE  /\ d \in ServiceData
         /\ StartsDue(Moved(d, "stopped")) = StartsDue(svc[o])
         /\ StopsDue(Moved(d, "stopped")) = StopsDue(svc[o])
<1>1. /\ StartsDue(svc[o]) = Len(svc[o].started)
      /\ StopsDue(svc[o]) = Len(svc[o].stopped) + 1
      /\ svc[o] \in ServiceData
      /\ Len(svc[o].started) \in Nat /\ Len(svc[o].stopped) \in Nat
  BY DueIs, DueTypes
<1>2. d \in ServiceData /\ Len(d.stopped) = Len(svc[o].stopped) + 1 /\ d.started = svc[o].started
  BY <1>1, SendStoppedData, SentDue
<1>3. /\ "stopped" \in State /\ Owed("stopped" = "starting") = 0
      /\ Owed("stopped" \in {"terminating", "killing"}) = 0
  BY DEF Owed, State
<1>4. /\ StartsDue(Moved(d, "stopped")) = Len(d.started) + Owed("stopped" = "starting")
      /\ StopsDue(Moved(d, "stopped")) =
           Len(d.stopped) + Owed("stopped" \in {"terminating", "killing"})
  BY <1>2, <1>3, MovedDue
<1> QED BY <1>1, <1>2, <1>3, <1>4

LEMMA ExitedBalance ==
  ASSUME ResultsInv, NEW p \in Proc, Exited(p)
  PROVE  BalanceInv'
<1>1. TimersInv /\ BalanceInv /\ UNCHANGED <<dying, aborts, pc, ref>> /\ proc[p] = "exited"
  BY DEF ResultsInv, Exited, ExitedUnexpectedly, ExitedStopping, ExitedIgnored, Reaps, taskVars,
         boundVars
<1>2. PICK o \in Obj : o = owner[p]
  BY <1>1 DEF TimersInv, Owned, Unreaped
<1>3. svc[o] \in ServiceData /\ Len(svc[o].started) \in Nat /\ Len(svc[o].stopped) \in Nat
  BY <1>1, DueTypes
<1>4. ASSUME NEW action \in ExitActions, NEW success \in BOOLEAN,
             ExitedUnexpectedly(p, action, success)
      PROVE  BalanceInv'
  <2>1. CASE /\ svc[o].st = "starting"
             /\ svc' = [svc EXCEPT ![o] = AfterExit(SendStarted(svc[o], "err"), action, success)]
    <3>1. PICK d : d = SendStarted(svc[o], "err")
      OBVIOUS
    <3>2. /\ d \in ServiceData
          /\ StartsDue(svc[o]) = Len(d.started) /\ StopsDue(svc[o]) = Len(d.stopped)
      BY <1>1, <2>1, <3>1, StartSent
    <3>3. /\ StartsDue(AfterExit(d, action, success)) = Len(d.started)
          /\ StopsDue(AfterExit(d, action, success)) = Len(d.stopped)
      BY <3>2, AfterExitDue
    <3> QED BY <1>1, <2>1, <3>1, <3>2, <3>3, QuietBalance
  <2>2. CASE /\ svc[o].st = "running"
             /\ svc' = [svc EXCEPT ![o] = AfterExit(svc[o], action, success)]
    <3>1. StartsDue(svc[o]) = Len(svc[o].started) /\ StopsDue(svc[o]) = Len(svc[o].stopped)
      BY <1>1, <2>2, DueIs
    <3>2. /\ StartsDue(AfterExit(svc[o], action, success)) = Len(svc[o].started)
          /\ StopsDue(AfterExit(svc[o], action, success)) = Len(svc[o].stopped)
      BY <1>3, AfterExitDue
    <3> QED BY <1>1, <2>2, <3>1, <3>2, QuietBalance
  <2> QED BY <1>2, <1>4, <2>1, <2>2 DEF ExitedUnexpectedly
<1>5. CASE ExitedStopping(p)
  <2>1. CASE svc[o].restarting /\ svc' = [svc EXCEPT ![o] = BackedOff(svc[o])]
    <3>1. svc[o].st \in {"terminating", "killing"}
      BY <1>2, <1>5 DEF ExitedStopping
    <3>2. StartsDue(svc[o]) = Len(svc[o].started) /\ StopsDue(svc[o]) = Len(svc[o].stopped)
      BY <1>1, <2>1, <3>1, DueIs
    <3> QED BY <1>1, <1>3, <2>1, <3>2, BackedOffDue, QuietBalance
  <2>2. CASE /\ ~svc[o].restarting
             /\ svc' = [svc EXCEPT ![o] = Moved(SendStopped(svc[o], "ok"), "stopped")]
    <3>1. svc[o].st \in {"terminating", "killing"}
      BY <1>2, <1>5 DEF ExitedStopping
    <3> QED BY <1>1, <2>2, <3>1, StopSent, QuietBalance
  <2> QED BY <1>2, <1>5, <2>1, <2>2 DEF ExitedStopping
<1>6. CASE ExitedIgnored(p)
  BY <1>1, <1>6, BalanceKept DEF ExitedIgnored
<1> QED BY <1>4, <1>5, <1>6 DEF Exited

LEMMA TimerBalance ==
  ASSUME ResultsInv, NEW p \in Proc, TimerElapses(p)
  PROVE  BalanceInv'
<1>1. TimersInv /\ BalanceInv /\ UNCHANGED <<dying, aborts, pc, ref>>
  BY DEF ResultsInv, TimerElapses, OkayWaitElapsed, BackoffTimeElapsed, BackoffTimeIgnored,
         TerminateTimeElapsed, KillTimeElapsed, BackoffResetElapsed, taskVars, boundVars
<1>2. CASE svc' = svc
  BY <1>1, <1>2, BalanceKept
<1>3. PICK o \in Obj : o = owner[p]
  <2>1. \E k \in Timer : Elapses(k, p)
    BY DEF TimerElapses, OkayWaitElapsed, BackoffTimeElapsed, BackoffTimeIgnored,
           TerminateTimeElapsed, KillTimeElapsed, BackoffResetElapsed, Timer
  <2> QED BY <1>1, <2>1, TimerOwner
<1>4. svc[o] \in ServiceData /\ Len(svc[o].started) \in Nat /\ Len(svc[o].stopped) \in Nat
  BY <1>1, DueTypes
<1>5. CASE OkayWaitElapsed(p) /\ svc' # svc
  <2>1. PICK d : d = SendStarted(svc[o], "ok")
    OBVIOUS
  <2>2. svc[o].st = "starting" /\ svc' = [svc EXCEPT ![o] = Moved(d, "running")]
    BY <1>3, <1>5, <2>1 DEF OkayWaitElapsed
  <2>3. /\ d \in ServiceData
        /\ Len(d.started) \in Nat /\ Len(d.stopped) \in Nat
        /\ StartsDue(svc[o]) = Len(d.started) /\ StopsDue(svc[o]) = Len(d.stopped)
    BY <1>1, <2>1, <2>2, StartSent
  <2>4. /\ "running" \in State /\ Owed("running" = "starting") = 0
        /\ Owed("running" \in {"terminating", "killing"}) = 0
    BY DEF Owed, State
  <2>5. /\ StartsDue(Moved(d, "running")) = Len(d.started)
        /\ StopsDue(Moved(d, "running")) = Len(d.stopped)
    BY <2>3, <2>4, MovedDue
  <2> QED BY <1>1, <2>2, <2>3, <2>5, QuietBalance
<1>6. CASE BackoffTimeElapsed(p)
  <2>1. StartInternal(o, "running", Elapsed("backoff", p)) /\ svc[o].st = "backoff"
    BY <1>3, <1>6 DEF BackoffTimeElapsed
  <2>2. PICK e : /\ svc' = [svc EXCEPT ![o] = e]
                 /\ StartsDue(e) = StartsDue(svc[o]) + Owed("running" = "starting")
                 /\ StopsDue(e) = StopsDue(svc[o])
    BY <1>1, <2>1, StartInternalDue
  <2>3. StartsDue(e) = StartsDue(svc[o])
    <3>1. Owed("running" = "starting") = 0 /\ StartsDue(svc[o]) \in Nat
      BY <1>1, DueTypes DEF Owed
    <3> QED BY <2>2, <3>1
  <2> QED BY <1>1, <2>2, <2>3, QuietBalance
<1>7. CASE TerminateTimeElapsed(p) /\ svc' # svc
  <2>1. PICK e : e = [svc[o] EXCEPT !.st = "killing"]
    OBVIOUS
  <2>2. svc[o].st = "terminating" /\ svc' = [svc EXCEPT ![o] = e]
    BY <1>3, <1>7, <2>1 DEF TerminateTimeElapsed
  <2>3. /\ e.st = "killing" /\ e.restarting = svc[o].restarting
        /\ e.started = svc[o].started /\ e.stopped = svc[o].stopped
    BY <1>4, <2>1 DEF ServiceData
  <2>4. StartsDue(e) = StartsDue(svc[o])
    BY <2>2, <2>3 DEF StartsDue, Owed
  <2>5. StopsDue(e) = StopsDue(svc[o])
    BY <2>2, <2>3 DEF StopsDue, Owed
  <2> QED BY <1>1, <2>2, <2>4, <2>5, QuietBalance
<1>8. CASE KillTimeElapsed(p) /\ svc' # svc
  <2>1. svc[o].st = "killing"
    BY <1>3, <1>8 DEF KillTimeElapsed
  <2>2. CASE svc[o].restarting
    <3>1. svc' = [svc EXCEPT ![o] = Moved(svc[o], "stopped")]
      BY <1>3, <1>8, <2>2 DEF KillTimeElapsed
    <3>2. StartsDue(svc[o]) = Len(svc[o].started) /\ StopsDue(svc[o]) = Len(svc[o].stopped)
      BY <1>1, <2>1, <2>2, DueIs
    <3>3. /\ "stopped" \in State /\ Owed("stopped" = "starting") = 0
          /\ Owed("stopped" \in {"terminating", "killing"}) = 0
      BY DEF Owed, State
    <3>4. /\ StartsDue(Moved(svc[o], "stopped")) = Len(svc[o].started)
          /\ StopsDue(Moved(svc[o], "stopped")) = Len(svc[o].stopped)
      BY <1>4, <3>3, MovedDue
    <3> QED BY <1>1, <3>1, <3>2, <3>4, QuietBalance
  <2>3. CASE ~svc[o].restarting
    <3>1. svc' = [svc EXCEPT ![o] = Moved(SendStopped(svc[o], "err"), "stopped")]
      BY <1>3, <1>8, <2>3 DEF KillTimeElapsed
    <3> QED BY <1>1, <2>1, <2>3, <3>1, StopSent, QuietBalance
  <2> QED BY <2>2, <2>3
<1>9. CASE BackoffResetElapsed(p) /\ svc' # svc
  <2>1. PICK e : e = [svc[o] EXCEPT !.backoffTime = 0]
    OBVIOUS
  <2>2. svc' = [svc EXCEPT ![o] = e]
    BY <1>3, <1>9, <2>1 DEF BackoffResetElapsed
  <2>3. /\ e.st = svc[o].st /\ e.restarting = svc[o].restarting
        /\ e.started = svc[o].started /\ e.stopped = svc[o].stopped
    BY <1>4, <2>1 DEF ServiceData
  <2>4. StartsDue(e) = StartsDue(svc[o]) /\ StopsDue(e) = StopsDue(svc[o])
    BY <2>3 DEF StartsDue, StopsDue
  <2> QED BY <1>1, <2>2, <2>4, QuietBalance
<1>10. BackoffTimeIgnored(p) => svc' = svc
  BY DEF BackoffTimeIgnored
<1> QED BY <1>2, <1>5, <1>6, <1>7, <1>8, <1>9, <1>10 DEF TimerElapses

LEMMA CheckFailedBalance ==
  ASSUME ResultsInv, CheckFailed
  PROVE  BalanceInv'
<1>1. TimersInv /\ UNCHANGED <<dying, aborts, pc, ref>>
  BY DEF ResultsInv, CheckFailed, taskVars
<1>2. PICK o \in Obj : o = current
  BY <1>1, ServiceAssumption DEF CheckFailed, ServiceAssumption, TimersInv, TypeOK, Obj
<1>3. svc[o] \in ServiceData /\ Len(svc[o].started) \in Nat /\ Len(svc[o].stopped) \in Nat
  BY <1>1, DueTypes
<1>4. CASE svc[o].st = "running"
  <2>1. PICK e : e = [svc[o] EXCEPT !.st = "terminating", !.restarting = TRUE]
    OBVIOUS
  <2>2. svc' = [svc EXCEPT ![o] = e]
    BY <1>2, <1>4, <2>1 DEF CheckFailed
  <2>3. /\ e.st = "terminating" /\ e.restarting = TRUE
        /\ e.started = svc[o].started /\ e.stopped = svc[o].stopped
    BY <1>3, <2>1 DEF ServiceData
  <2>4. StartsDue(e) = StartsDue(svc[o]) /\ StopsDue(e) = StopsDue(svc[o])
    <3>1. StartsDue(e) = StartsDue(svc[o])
      BY <1>4, <2>3 DEF StartsDue, Owed
    <3>2. StopsDue(e) = StopsDue(svc[o])
      BY <1>4, <2>3 DEF StopsDue, Owed
    <3> QED BY <3>1, <3>2
  <2> QED BY <1>1, <2>2, <2>4, QuietBalance
<1>5. CASE svc[o].st = "exited"
  <2>1. svc' = [svc EXCEPT ![o] = BackedOff(svc[o])]
    BY <1>2, <1>5 DEF CheckFailed
  <2>2. StartsDue(svc[o]) = Len(svc[o].started) /\ StopsDue(svc[o]) = Len(svc[o].stopped)
    BY <1>1, <1>5, DueIs
  <2> QED BY <1>1, <1>3, <2>1, <2>2, BackedOffDue, QuietBalance
<1> QED BY <1>2, <1>4, <1>5 DEF CheckFailed

LEMMA RestartBalance ==
  ASSUME ResultsInv, Restart
  PROVE  BalanceInv'
<1>1. /\ svc' = [o \in Obj |-> NewService] /\ dying' = {} /\ TypeOK
      /\ \A t \in Task : pc'[t] # "waiting"
  BY DEF ResultsInv, TimersInv, Restart
<1>2. \A o \in Obj : Waiting(StartTask, o)' = {} /\ Waiting(StopTask, o)' = {}
  BY <1>1 DEF Waiting, Task
<1>3. StartsDue(NewService) = 0 /\ StopsDue(NewService) = 0
  BY DEF NewService, StartsDue, StopsDue, Owed
<1>4. \A o \in Obj : StartsDue(svc[o])' = 0 /\ StopsDue(svc[o])' = 0
  BY <1>1, <1>3 DEF StartsDue, StopsDue
<1> QED BY <1>1, <1>2, <1>4, FS_EmptySet DEF BalanceInv, Balanced, Awaited

(***************************************************************************)
(* The flag that a start task sets before it starts its service.           *)
(***************************************************************************)
\* A task moves, and is not about to start its service.
LEMMA OnceKept ==
  ASSUME OnceInv, TypeOK, UNCHANGED <<flag, launched>>,
         \A t \in StartTask : \/ pc'[t] = pc[t]
                              \/ pc'[t] \notin {"found", "flagged"}
                              \/ pc'[t] = "found" /\ t \notin flag
  PROVE  OnceInv'
BY DEF OnceInv

LEMMA OnceGoto ==
  ASSUME ResultsInv, UNCHANGED <<flag, launched>>, NEW t \in Task, NEW l, Goto(t, l),
         t \in StartTask => l \notin {"found", "flagged"} \/ (l = "found" /\ t \notin flag)
  PROVE  OnceInv'
<1>1. \A s \in Task : pc'[s] = IF s = t THEN l ELSE pc[s]
  BY DEF ResultsInv, TimersInv, TypeOK, Goto
<1> QED BY <1>1, OnceKept DEF Task, ResultsInv, TimersInv

LEMMA StartOnce ==
  ASSUME ResultsInv, NEW t \in StartTask, StartStep(t)
  PROVE  OnceInv'
<1>1. TypeOK /\ OnceInv /\ t \in Task
  BY DEF ResultsInv, TimersInv, Task
<1>2. CASE DoStartAgain(t)
  BY <1>1, <1>2, OnceGoto DEF DoStartAgain
<1>3. CASE ServiceForStart(t)
  BY <1>1, <1>3, OnceGoto DEF ServiceForStart
<1>4. CASE DoStartFlag(t)
  <2>1. /\ pc[t] = "found" /\ pc' = [pc EXCEPT ![t] = "flagged"]
        /\ flag' = flag \cup {t} /\ launched' = launched
    BY <1>4 DEF DoStartFlag, SetStarted, Goto
  <2>2. launched[t] = 0
    BY <1>1, <2>1 DEF OnceInv
  <2>3. \A s \in StartTask : pc'[s] = IF s = t THEN "flagged" ELSE pc[s]
    BY <1>1, <2>1 DEF TypeOK, Task
  <2> QED BY <1>1, <2>1, <2>2, <2>3 DEF OnceInv
<1>5. CASE Start(t)
  <2>1. /\ pc[t] = "flagged" /\ pc' = [pc EXCEPT ![t] = "waiting"] /\ flag' = flag
        /\ launched' = [launched EXCEPT ![t] = @ + 1]
    BY <1>5 DEF Start, Goto
  <2>2. launched[t] = 0 /\ t \in flag
    BY <1>1, <2>1 DEF OnceInv
  <2>3. \A s \in StartTask : /\ pc'[s] = IF s = t THEN "waiting" ELSE pc[s]
                             /\ launched'[s] = IF s = t THEN 1 ELSE launched[s]
    BY <1>1, <2>1, <2>2 DEF TypeOK, Task
  <2> QED BY <1>1, <2>1, <2>2, <2>3 DEF OnceInv
<1>6. CASE StartFails(t)
  BY <1>1, <1>6, OnceGoto DEF StartFails
<1>7. CASE StartResult(t)
  BY <1>1, <1>7, OnceGoto DEF StartResult
<1>8. CASE StartDying(t)
  BY <1>1, <1>8, OnceGoto DEF StartDying
<1> QED BY <1>2, <1>3, <1>4, <1>5, <1>6, <1>7, <1>8 DEF StartStep

LEMMA StopOnce ==
  ASSUME ResultsInv, NEW t \in StopTask, StopStep(t)
  PROVE  OnceInv'
<1>1. t \in Task /\ t \notin StartTask
  BY ServiceAssumption DEF ServiceAssumption, Task
<1>2. UNCHANGED <<flag, launched>> /\ \E l : Goto(t, l)
  BY DEF StopStep, ServiceForStop, Stop, StopBackoff, StopFails, StopResult
<1> QED BY <1>1, <1>2, OnceGoto

LEMMA RestartOnce ==
  ASSUME ResultsInv, Restart
  PROVE  OnceInv'
<1>1. \A t \in StartTask : pc'[t] = pc[t] \/ pc'[t] \in {"do", "error"}
  BY DEF Restart, Task
<1>2. \A t \in StartTask : pc'[t] \notin {"found", "flagged"}
  BY DEF ResultsInv, TimersInv, TypeOK, Restart, Task
<1> QED BY <1>2, OnceKept DEF ResultsInv, TimersInv, Restart

LEMMA InitResults == Init => ResultsInv
<1> SUFFICES ASSUME Init PROVE ResultsInv
  OBVIOUS
<1>1. TimersInv
  BY InitTimers
<1>2. /\ \A o \in Obj : svc[o] = NewService
      /\ \A t \in Task : pc[t] = "idle"
      /\ dying = {} /\ \A t \in StartTask : launched[t] = 0
  BY DEF Init
<1>3. \A o \in Obj : Waiting(StartTask, o) = {} /\ Waiting(StopTask, o) = {}
  BY <1>2 DEF Waiting, Task
<1>4. StartsDue(NewService) = 0 /\ StopsDue(NewService) = 0
  BY DEF NewService, StartsDue, StopsDue, Owed
<1>5. BalanceInv
  BY <1>2, <1>3, <1>4, FS_EmptySet DEF BalanceInv, Balanced, Awaited
<1>6. OnceInv
  BY <1>2 DEF OnceInv, Task
<1> QED BY <1>1, <1>5, <1>6 DEF ResultsInv

LEMMA NextResults ==
  ASSUME ResultsInv, [Next]_vars
  PROVE  ResultsInv'
<1>1. TimersInv /\ TimersInv' /\ BalanceInv /\ OnceInv /\ TypeOK
  BY NextTimers DEF ResultsInv, TimersInv
<1>2. CASE UNCHANGED vars
  <2>1. UNCHANGED <<svc, dying, aborts, pc, ref, flag, launched>>
    BY <1>2 DEF vars, taskVars, boundVars
  <2> QED BY <1>1, <2>1, BalanceKept, OnceKept DEF ResultsInv
<1>3. ASSUME NEW t \in Task, Request(t) PROVE ResultsInv'
  <2>1. /\ UNCHANGED <<svc, dying, aborts, ref, flag, launched>>
        /\ pc[t] = "idle" /\ Goto(t, "do")
    BY <1>3 DEF Request, boundVars
  <2>2. \A s \in Task : pc'[s] = "waiting" <=> pc[s] = "waiting"
    BY <1>1, <2>1 DEF Goto, TypeOK
  <2> QED BY <1>1, <2>1, <2>2, BalanceKept, OnceGoto DEF ResultsInv
<1>4. ASSUME NEW t \in StartTask, StartStep(t) PROVE ResultsInv'
  <2>1. CASE DoStartAgain(t) \/ DoStartFlag(t)
    <3>1. /\ UNCHANGED <<svc, dying, aborts, ref>> /\ pc[t] # "waiting"
          /\ \E l \in {"error", "flagged"} : Goto(t, l)
      BY <2>1 DEF DoStartAgain, DoStartFlag, boundVars
    <3>2. \A s \in Task : pc'[s] = "waiting" <=> pc[s] = "waiting"
      BY <1>1, <3>1 DEF Goto, TypeOK
    <3>3. BalanceInv'
      BY <1>1, <3>1, <3>2, BalanceKept
    <3> QED BY <1>1, <1>4, <3>3, StartOnce DEF ResultsInv
  <2>2. BalanceInv'
    BY <1>4, <2>1, ServiceForStartBalance, StartBalance, StartFailsBalance, StartResultBalance,
       StartDyingBalance
    DEF StartStep, ResultsInv
  <2> QED BY <1>1, <1>4, <2>2, StartOnce DEF ResultsInv
<1>5. ASSUME NEW t \in StartTask, Abort(t) PROVE ResultsInv'
  <2>1. aborts' # 0 /\ UNCHANGED <<pc, flag, launched>>
    BY <1>1, <1>5 DEF Abort, TypeOK
  <2> QED BY <1>1, <2>1, OnceKept DEF ResultsInv, BalanceInv
<1>6. ASSUME NEW t \in StopTask, StopStep(t) PROVE ResultsInv'
  <2>1. CASE StopFails(t)
    <3>1. /\ UNCHANGED <<svc, dying, aborts, ref>> /\ pc[t] = "found" /\ Goto(t, "error")
      BY <2>1 DEF StopFails, boundVars
    <3>2. \A s \in Task : pc'[s] = "waiting" <=> pc[s] = "waiting"
      BY <1>1, <3>1 DEF Goto, TypeOK
    <3>3. BalanceInv'
      BY <1>1, <3>1, <3>2, BalanceKept
    <3> QED BY <1>1, <1>6, <3>3, StopOnce DEF ResultsInv
  <2>2. BalanceInv'
    BY <1>6, <2>1, ServiceForStopBalance, StopBalance, StopResultBalance DEF StopStep, ResultsInv
  <2> QED BY <1>1, <1>6, <2>2, StopOnce DEF ResultsInv
<1>7. ASSUME NEW p \in Proc, ProcessExit(p) PROVE ResultsInv'
  <2>1. UNCHANGED <<svc, dying, aborts, pc, ref, flag, launched>>
    BY <1>7 DEF ProcessExit, taskVars, boundVars
  <2> QED BY <1>1, <2>1, BalanceKept, OnceKept DEF ResultsInv
<1>8. ASSUME NEW p \in Proc, Exited(p) PROVE ResultsInv'
  <2>1. UNCHANGED <<pc, flag, launched>>
    BY <1>8 DEF Exited, ExitedUnexpectedly, ExitedStopping, ExitedIgnored, Reaps, taskVars
  <2> QED BY <1>1, <1>8, <2>1, ExitedBalance, OnceKept DEF ResultsInv
<1>9. ASSUME NEW p \in Proc, TimerElapses(p) PROVE ResultsInv'
  <2>1. UNCHANGED <<pc, flag, launched>>
    BY <1>9 DEF TimerElapses, OkayWaitElapsed, BackoffTimeElapsed, BackoffTimeIgnored,
                TerminateTimeElapsed, KillTimeElapsed, BackoffResetElapsed, taskVars
  <2> QED BY <1>1, <1>9, <2>1, TimerBalance, OnceKept DEF ResultsInv
<1>10. CASE Block \/ Prune
  <2>1. UNCHANGED <<svc, dying, aborts, pc, ref, flag, launched>>
    BY <1>10 DEF Block, Prune, taskVars, boundVars
  <2> QED BY <1>1, <2>1, BalanceKept, OnceKept DEF ResultsInv
<1>11. CASE CheckFailed
  <2>1. UNCHANGED <<pc, flag, launched>>
    BY <1>11 DEF CheckFailed, taskVars
  <2> QED BY <1>1, <1>11, <2>1, CheckFailedBalance, OnceKept DEF ResultsInv
<1>12. CASE StopRunning
  <2>1. UNCHANGED <<svc, dying, aborts, ref, flag, launched>>
    BY <1>12 DEF StopRunning, boundVars
  <2>2. UNCHANGED pc \/ \E t \in StopTask : pc[t] = "idle" /\ Goto(t, "do")
    BY <1>12 DEF StopRunning
  <2>3. \A s \in Task : pc'[s] = "waiting" <=> pc[s] = "waiting"
    BY <1>1, <2>2 DEF Goto, TypeOK
  <2>4. OnceInv'
    BY <1>1, <2>1, <2>2, OnceKept, OnceGoto DEF Task, ResultsInv
  <2> QED BY <1>1, <2>1, <2>3, <2>4, BalanceKept DEF ResultsInv
<1>13. CASE Restart
  BY <1>1, <1>13, RestartBalance, RestartOnce DEF ResultsInv
<1> QED BY <1>2, <1>3, <1>4, <1>5, <1>6, <1>7, <1>8, <1>9, <1>10, <1>11, <1>12, <1>13 DEF Next

(***************************************************************************)
(* Each start and each stop that waits in doStart or doStop is owed        *)
(* exactly one result, sent already or to be sent by the state the service *)
(* is in, as long as no start was aborted; and a start task starts its     *)
(* service once, also when the daemon is killed and runs the task again.   *)
(***************************************************************************)
THEOREM ResultsDelivered == Spec => []ResultsSound
<1>1. ASSUME ResultsInv PROVE ResultsSound
  <2>1. ResultsBalance
    BY <1>1 DEF ResultsInv, BalanceInv, ResultsBalance, Balanced, Awaited, StartsDue, StopsDue
  <2>2. StartedOnce
    BY <1>1 DEF ResultsInv, OnceInv, StartedOnce
  <2> QED BY <2>1, <2>2 DEF ResultsSound
<1> QED BY <1>1, InitResults, NextResults, PTL DEF Spec
=============================================================================
