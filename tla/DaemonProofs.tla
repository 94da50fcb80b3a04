---------------------------- MODULE DaemonProofs ----------------------------
(***************************************************************************)
(* Proofs about Daemon, for every set of changes, every number of boots    *)
(* and attempts, every interval and delay, and every scene of the          *)
(* environment: first its state file, then the ensure loop, the standby    *)
(* and the exit codes.                                                     *)
(***************************************************************************)
EXTENDS Daemon, TLAPS

\* A file that is whole, or not there, whatever the machine does next.
Kept(c) == c = Missing \/ (c.is = "whole" /\ c.synced)

\* Until the daemon is started, only runDaemon itself does anything, and before the state
\* is read nobody has locked it.
BeforeStart == {"off", "exited", "load", "failed", "restart", "restart of a new state",
                "restart in memory", "patch.Init", "patch.Apply", "loaded", "reboot is missing",
                "init", "init without overlord"}
NobodyWorks ==
  /\ main \in BeforeStart =>
       /\ lock \in {NoOne, "main"} /\ loop = "gate" /\ engine = "made"
       /\ standby = "none" /\ conn = "none" /\ serving = "no"
  /\ main \in {"off", "exited", "load"} => lock = NoOne

\* How far the checkpoint of the lock's holder is, step by step.
CheckpointInv ==
  /\ phase = "idle" <=> lock = NoOne
  /\ phase = "sync" => tmp = Unsynced(Marshal(mem))
  /\ phase = "rename" => tmp = Whole(Marshal(mem))
  /\ phase = "dirsync" => file = Whole(Marshal(mem))
  /\ Kept(file) /\ Kept(durable)

\* While the lock is free, what is on the disk, and would be after a loss of power, is what
\* is in memory.
FileAgrees ==
  Loaded /\ persist /\ lock = NoOne =>
    Marshal(file.s) = Marshal(mem) /\ Marshal(durable.s) = Marshal(mem)

FileInv == NobodyWorks /\ CheckpointInv /\ FileAgrees

(***************************************************************************)
(* The actions by what they do with the state and its lock: they write or  *)
(* read it in a critical section, leave it alone while runDaemon goes on,  *)
(* end the process, or have nothing to do with it.                         *)
(***************************************************************************)
Goroutines == {"main", "loop", "task", "standby", "api"}

Working ==
  \/ AutoStart \/ StopServices \/ Decide \/ ScheduleReboot
  \/ LoopEnsure \/ LoopPrune \/ StandbyLook \/ StandbyAsk \/ MakeChange
  \/ \E c \in Changes : TaskDone(c)
  \/ \E t \in RestartTypes : AskRestart(t)
GoingOn ==
  \/ NewDaemon \/ StartDaemon \/ AutoStartUnanswered \/ LeaveRun \/ ServicesStopped \/ KillTomb
  \/ StandbyGone \/ ShutdownEnds \/ EngineStops \/ StartFails \/ StartProcess
Ending == RunReturns \/ Panics \/ Crash \/ Cut \/ SystemReboots
Elsewhere ==
  \/ LoopReset \/ LoopEnsured \/ LoopTimer \/ LoopDies \/ Tick \/ Waiter \/ Enter \/ Signal
  \/ Connect \/ ConnState \/ ServeFails \/ StandbyTimer \/ StandbyStopped
  \/ \E t \in RestartTypes : KeepRestart(t)
  \/ UNCHANGED vars

LEMMA NextCases ==
  ASSUME [Next]_vars
  PROVE  \/ Starting /\ OfState
         \/ Checkpoint /\ OfState
         \/ Working \/ GoingOn \/ Ending \/ Elsewhere
<1>1. CASE Main
  BY <1>1 DEF Main, Working, GoingOn, Ending
<1>2. CASE Loop
  BY <1>2 DEF Loop, Working, Elsewhere
<1>3. CASE StandbyLoop
  BY <1>3 DEF StandbyLoop, Working, Elsewhere
<1>4. CASE Saving
  BY <1>4 DEF Saving, Ending
<1>5. CASE Environment
  BY <1>5 DEF Environment, Working, GoingOn, Ending, Elsewhere
<1> QED BY <1>1, <1>2, <1>3, <1>4, <1>5 DEF Next, Working, Elsewhere

LEMMA WorkingLocks ==
  ASSUME Working
  PROVE  \/ SameState
         \/ \E who \in Goroutines : Look(who) \/ Update(who, mem')
<1>1. CASE AutoStart \/ StopServices \/ Decide \/ ScheduleReboot
  <2>1. SameState \/ Look("main") \/ Update("main", mem')
    BY <1>1 DEF AutoStart, StopServices, Decide, ScheduleReboot, Update
  <2> QED BY <2>1 DEF Goroutines
<1>2. CASE LoopEnsure \/ LoopPrune
  <2>1. Look("loop") \/ Update("loop", mem')
    BY <1>2 DEF LoopEnsure, LoopPrune, Update
  <2> QED BY <2>1 DEF Goroutines
<1>3. CASE StandbyLook \/ StandbyAsk
  BY <1>3 DEF StandbyLook, StandbyAsk, Goroutines
<1>4. CASE MakeChange
  <2>1. Update("api", mem')
    BY <1>4 DEF MakeChange, Update
  <2> QED BY <2>1 DEF Goroutines
<1>5. ASSUME NEW c \in Changes, TaskDone(c)
      PROVE  Update("task", mem')
  BY <1>5 DEF TaskDone, Update
<1>6. ASSUME NEW t \in RestartTypes, AskRestart(t)
      PROVE  SameState \/ Update("task", mem')
  BY <1>6 DEF AskRestart, Update, SameState
<1> QED BY <1>1, <1>2, <1>3, <1>4, <1>5, <1>6 DEF Working, Goroutines

LEMMA GoroutinesHold == NoOne \notin Goroutines
BY DEF NoOne, Goroutines

\* Where runDaemon gets to.
LEMMA WorkingMain ==
  ASSUME FileInv, Working
  PROVE  main \notin BeforeStart /\ main' \notin BeforeStart /\ (Loaded' => Loaded)
<1>1. CASE AutoStart \/ StopServices \/ Decide \/ ScheduleReboot
  BY <1>1 DEF AutoStart, StopServices, Decide, ScheduleReboot, BeforeStart, Loaded
<1>2. CASE LoopEnsure \/ LoopPrune \/ StandbyLook \/ StandbyAsk \/ MakeChange
             \/ (\E c \in Changes : TaskDone(c)) \/ \E t \in RestartTypes : AskRestart(t)
  <2>1. UNCHANGED main
    BY <1>2 DEF LoopEnsure, LoopPrune, TaskDone, AskRestart, StandbyLook, StandbyAsk, MakeChange
  <2>2. main \notin BeforeStart
    BY <1>2
    DEF FileInv, NobodyWorks, LoopEnsure, LoopPrune, TaskDone, AskRestart, StandbyLook,
        StandbyAsk, MakeChange
  <2> QED BY <2>1, <2>2 DEF Loaded
<1> QED BY <1>1, <1>2 DEF Working

LEMMA GoingOnSame ==
  ASSUME FileInv, GoingOn
  PROVE  SameState /\ (Loaded' => Loaded) /\ NobodyWorks'
<1>1. CASE StartProcess
  <2>1. SameState /\ ~Loaded' /\ main \in {"off", "exited"} /\ main' = "load"
    BY <1>1 DEF StartProcess, SameState, Loaded
  <2>2. NobodyWorks'
    BY <1>1, <2>1 DEF FileInv, NobodyWorks, BeforeStart, StartProcess, SameState, loopVars,
                      standbyVars
  <2> QED BY <2>1, <2>2
<1>2. CASE NewDaemon \/ StartFails
  <2>1. SameState /\ (Loaded' => Loaded)
    BY <1>2 DEF NewDaemon, StartFails, Loaded
  <2>2. /\ main \in BeforeStart /\ main' \notin {"off", "exited", "load"}
        /\ UNCHANGED <<loop, engine, standby, conn, serving>>
    BY <1>2 DEF NewDaemon, StartFails, BeforeStart, RestOfMain, loopVars, httpVars, standbyVars
  <2>3. NobodyWorks'
    BY <2>1, <2>2 DEF FileInv, NobodyWorks, SameState
  <2> QED BY <2>1, <2>3
<1>3. CASE StartDaemon \/ AutoStartUnanswered \/ LeaveRun \/ ServicesStopped \/ KillTomb
             \/ StandbyGone \/ ShutdownEnds \/ EngineStops
  <2>1. SameState /\ (Loaded' => Loaded)
    BY <1>3 DEF StartDaemon, AutoStartUnanswered, LeaveRun, ServicesStopped, KillTomb,
                StandbyGone, ShutdownEnds, EngineStops, Loaded
  <2>2. main' \notin BeforeStart
    BY <1>3 DEF StartDaemon, AutoStartUnanswered, LeaveRun, ServicesStopped, KillTomb,
                StandbyGone, ShutdownEnds, EngineStops, BeforeStart
  <2>3. NobodyWorks'
    BY <2>2 DEF NobodyWorks, BeforeStart
  <2> QED BY <2>1, <2>3
<1> QED BY <1>1, <1>2, <1>3 DEF GoingOn

LEMMA ElsewhereSame ==
  ASSUME FileInv, Elsewhere
  PROVE  UNCHANGED stateVars /\ NobodyWorks'
<1>1. CASE LoopReset \/ LoopEnsured \/ LoopTimer \/ LoopDies \/ Tick \/ Waiter
  <2>1. UNCHANGED stateVars
    BY <1>1 DEF LoopReset, LoopEnsured, LoopTimer, LoopDies, Tick, Waiter
  <2>2. NobodyWorks'
    BY <1>1, <2>1
    DEF FileInv, NobodyWorks, LoopReset, LoopEnsured, LoopTimer, LoopDies, Tick, Waiter,
        EnsureBefore, BeforeStart, stateVars, httpVars, standbyVars
  <2> QED BY <2>1, <2>2
<1>2. CASE Enter \/ Signal \/ Connect \/ ConnState \/ ServeFails \/ StandbyTimer
             \/ StandbyStopped \/ (\E t \in RestartTypes : KeepRestart(t)) \/ UNCHANGED vars
  <2>1. UNCHANGED stateVars
    BY <1>2 DEF KeepRestart, Enter, AutoStarted, EnterCommand, RestOfEnter, Signal, Connect,
                ConnState, ServeFails, StandbyTimer, StandbyStopped, vars
  <2>2. NobodyWorks'
    BY <1>2, <2>1
    DEF FileInv, NobodyWorks, KeepRestart, Enter, AutoStarted, EnterCommand, RestOfEnter,
        Signal, Connect, ConnState, ServeFails, StandbyTimer, StandbyStopped, RestOfHttp,
        BeforeStart, stateVars, loopVars, httpVars, standbyVars, vars
  <2> QED BY <2>1, <2>2
<1> QED BY <1>1, <1>2 DEF Elsewhere

(***************************************************************************)
(* What is written and read again is written the same.                     *)
(***************************************************************************)
LEMMA MarshalTwice ==
  ASSUME NEW s
  PROVE  Marshal(Marshal(s)) = Marshal(s)
BY DEF Marshal

LEMMA WholeKept ==
  ASSUME NEW s
  PROVE  Kept(Whole(s)) /\ Whole(s).s = s
BY DEF Kept, Whole

LEMMA FileInit == Init => FileInv
<1> SUFFICES ASSUME Init PROVE FileInv
  OBVIOUS
<1>1. Kept(scene.file)
  BY DaemonAssumption DEF DaemonAssumption, Init, Kept
<1>2. CheckpointInv
  BY <1>1 DEF Init, CheckpointInv
<1>3. NobodyWorks
  BY DEF Init, NobodyWorks
<1>4. FileAgrees
  BY DEF Init, FileAgrees, Loaded
<1> QED BY <1>2, <1>3, <1>4 DEF FileInv

(***************************************************************************)
(* The steps of Unlock and of the atomic file.                             *)
(***************************************************************************)

\* A section that changes the state ends with a checkpoint that is to come, or there is no
\* file to write.
LEMMA UpdateKeeps ==
  ASSUME FileInv, NEW who, who # NoOne, NEW new, Update(who, new), NobodyWorks'
  PROVE  FileInv'
<1>1. CASE persist
  <2>1. lock' = who /\ phase' = "create"
    BY <1>1 DEF Update, Unlock
  <2>2. CheckpointInv'
    BY <2>1 DEF FileInv, CheckpointInv, Update
  <2>3. FileAgrees'
    BY <2>1 DEF FileAgrees
  <2> QED BY <2>2, <2>3 DEF FileInv
<1>2. CASE ~persist
  <2>1. lock' = NoOne /\ phase' = phase /\ ~persist' /\ lock = NoOne
    BY <1>2 DEF Update, Unlock
  <2>2. CheckpointInv'
    BY <2>1 DEF FileInv, CheckpointInv, Update
  <2>3. FileAgrees'
    BY <2>1 DEF FileAgrees
  <2> QED BY <2>2, <2>3 DEF FileInv
<1> QED BY <1>1, <1>2

\* A section that reads writes what another has changed since.
LEMMA LookKeeps ==
  ASSUME FileInv, NEW who, who # NoOne, Look(who), NobodyWorks', Loaded' => Loaded
  PROVE  FileInv'
<1>1. CASE modified /\ persist
  <2>1. lock' = who /\ phase' = "create"
    BY <1>1 DEF Look, Unlock
  <2>2. CheckpointInv'
    BY <2>1 DEF FileInv, CheckpointInv, Look
  <2>3. FileAgrees'
    BY <2>1 DEF FileAgrees
  <2> QED BY <2>2, <2>3 DEF FileInv
<1>2. CASE ~(modified /\ persist)
  <2>1. lock' = NoOne /\ phase' = phase /\ lock = NoOne
    BY <1>2 DEF Look, Unlock
  <2>2. CheckpointInv'
    BY <2>1 DEF FileInv, CheckpointInv, Look
  <2>3. FileAgrees'
    BY <1>2, <2>1 DEF FileInv, FileAgrees, Look
  <2> QED BY <2>2, <2>3 DEF FileInv
<1> QED BY <1>1, <1>2

LEMMA SameKeeps ==
  ASSUME FileInv, SameState, NobodyWorks', Loaded' => Loaded
  PROVE  FileInv'
<1>1. CheckpointInv'
  BY DEF FileInv, CheckpointInv, SameState, fileVars
<1>2. FileAgrees'
  BY DEF FileInv, FileAgrees, SameState, fileVars
<1> QED BY <1>1, <1>2 DEF FileInv

\* Each step of the atomic file, which is made with the lock held.
LEMMA CheckpointKeeps ==
  ASSUME FileInv, Checkpoint, OfState
  PROVE  FileInv'
<1>0. /\ UNCHANGED <<main, mem, persist>>
      /\ UNCHANGED <<loop, engine, standby, conn, serving>>
      /\ lock' \in {lock, NoOne}
  BY DEF Checkpoint, CreateTemp, CopyData, SyncTemp, Rename, SyncDirectory, Cancel,
         RetryCheckpoint, Writing, OfState, loopVars, standbyVars, httpVars
<1>1. phase # "idle" /\ lock # NoOne
  BY DEF FileInv, CheckpointInv, Checkpoint, CreateTemp, CopyData, SyncTemp, Rename,
         SyncDirectory, Cancel, RetryCheckpoint
<1>2. NobodyWorks'
  BY <1>0, <1>1 DEF FileInv, NobodyWorks, BeforeStart
<1>3. CASE CreateTemp \/ CopyData \/ Cancel \/ RetryCheckpoint
  <2>1. phase' # "idle" /\ lock' = lock
    BY <1>3 DEF CreateTemp, CopyData, Cancel, RetryCheckpoint
  <2>2. CheckpointInv'
    BY <1>1, <1>3, <2>1
    DEF FileInv, CheckpointInv, CreateTemp, CopyData, Cancel, RetryCheckpoint, Writing
  <2>3. FileAgrees'
    BY <1>1, <2>1 DEF FileAgrees
  <2> QED BY <1>2, <2>2, <2>3 DEF FileInv
<1>4. CASE SyncTemp
  <2>1. tmp' = Whole(Marshal(mem))
    BY <1>4 DEF FileInv, CheckpointInv, SyncTemp, Unsynced
  <2>2. CheckpointInv'
    BY <1>1, <1>4, <2>1 DEF FileInv, CheckpointInv, SyncTemp, Writing
  <2>3. FileAgrees'
    BY <1>1, <1>4 DEF FileAgrees, SyncTemp
  <2> QED BY <1>2, <2>2, <2>3 DEF FileInv
<1>5. CASE Rename
  <2>1. file' = Whole(Marshal(mem))
    BY <1>5 DEF FileInv, CheckpointInv, Rename
  <2>2. CheckpointInv'
    BY <1>1, <1>5, <2>1, WholeKept DEF FileInv, CheckpointInv, Rename, Writing
  <2>3. FileAgrees'
    BY <1>1, <1>5 DEF FileAgrees, Rename
  <2> QED BY <1>2, <2>2, <2>3 DEF FileInv
<1>6. CASE SyncDirectory
  <2>1. /\ file' = Whole(Marshal(mem)) /\ durable' = Whole(Marshal(mem))
        /\ lock' = NoOne /\ phase' = "idle"
    BY <1>6 DEF FileInv, CheckpointInv, SyncDirectory
  <2>2. CheckpointInv'
    BY <1>6, <2>1, WholeKept DEF FileInv, CheckpointInv, SyncDirectory, Writing
  <2>3. file'.s = Marshal(mem) /\ durable'.s = Marshal(mem) /\ mem' = mem
    BY <1>0, <2>1, WholeKept
  <2>4. FileAgrees'
    BY <2>3, MarshalTwice DEF FileAgrees
  <2> QED BY <1>2, <2>2, <2>4 DEF FileInv
<1> QED BY <1>3, <1>4, <1>5, <1>6 DEF Checkpoint

(***************************************************************************)
(* The end of a process, in whatever way it comes.                         *)
(***************************************************************************)
LEMMA EndsKeeps ==
  ASSUME FileInv, NEW next \in {"off", "exited"}, NEW code, Ends(next, code),
         Kept(file'), Kept(durable')
  PROVE  FileInv'
<1>1. main' \in {"off", "exited"} /\ lock' = NoOne /\ phase' = "idle"
  BY DEF Ends, ProcessEnds
<1>2. NobodyWorks'
  BY <1>1 DEF NobodyWorks, Ends
<1>3. CheckpointInv'
  BY <1>1 DEF CheckpointInv
<1>4. FileAgrees'
  BY <1>1 DEF FileAgrees, Loaded
<1> QED BY <1>2, <1>3, <1>4 DEF FileInv

LEMMA ProcessGone ==
  ASSUME FileInv, RunReturns \/ Panics \/ Crash \/ Cut \/ SystemReboots
  PROVE  FileInv'
<1>1. Kept(file) /\ Kept(durable)
  BY DEF FileInv, CheckpointInv
<1>2. CASE RunReturns \/ Panics \/ Crash
  <2>1. UNCHANGED <<file, durable>>
    BY <1>2 DEF RunReturns, Panics, Crash
  <2>2. PICK next \in {"off", "exited"}, code \in {0, 1, 2, 10, 11, 42} : Ends(next, code)
    BY <1>2 DEF RunReturns, Panics, Crash, EarlyExit, ExitCode
  <2> QED BY <1>1, <2>1, <2>2, EndsKeeps
<1>3. CASE Cut
  <2>1. PICK c \in {file, durable} :
          file' = AfterPowerLoss(c) /\ durable' = AfterPowerLoss(c)
    BY <1>3 DEF Cut, PowerIsLost
  <2>2. Missing.synced
    BY DEF Missing
  <2>3. Kept(c) /\ c.synced
    BY <1>1, <2>1, <2>2, Zenon DEF Kept
  <2>4. Kept(file') /\ Kept(durable')
    BY <2>1, <2>3, Zenon DEF AfterPowerLoss
  <2> QED BY <1>3, <2>4, EndsKeeps DEF Cut
<1>4. CASE SystemReboots
  BY <1>1, <1>4, EndsKeeps DEF SystemReboots
<1> QED BY <1>2, <1>3, <1>4

(***************************************************************************)
(* A start: nobody else has the state until it is read.                    *)
(***************************************************************************)
LEMMA StartingLocks ==
  ASSUME Starting
  PROVE  \/ LoadState
         \/ Look("main") /\ main = "patch.Apply"
         \/ Update("main", mem')
BY DEF Starting, InitRestart, RebootAsExpected, RebootDidNotHappen, PatchInit, ApplyOne,
       LowerSublevel, PatchApplied, Update

LEMMA StartingKeeps ==
  ASSUME FileInv, Starting, OfState
  PROVE  FileInv'
<1>1. /\ main \in BeforeStart /\ main' \notin {"off", "exited", "load"}
      /\ UNCHANGED <<loop, engine, standby, conn, serving>>
  BY DEF Starting, LoadState, InitRestart, RebootAsExpected, RebootDidNotHappen, PatchInit,
         ApplyOne, LowerSublevel, PatchApplied, OfState, loopVars, standbyVars, httpVars,
         BeforeStart
<1>2. "main" # NoOne
  BY DEF NoOne
<1>3. CASE LoadState
  <2>1. lock = NoOne /\ phase = "idle" /\ lock' = lock
    BY <1>3 DEF LoadState, FileInv, NobodyWorks, CheckpointInv
  <2>2. NobodyWorks'
    BY <1>1, <2>1 DEF FileInv, NobodyWorks
  <2>3. CheckpointInv'
    BY <1>3, <2>1 DEF LoadState, FileInv, CheckpointInv, fileVars
  <2>4. FileAgrees'
    BY <1>3 DEF LoadState, FileAgrees, Loaded
  <2> QED BY <2>2, <2>3, <2>4 DEF FileInv
<1>4. CASE Look("main") /\ main = "patch.Apply"
  <2>1. NobodyWorks' /\ (Loaded' => Loaded)
    BY <1>1, <1>4 DEF FileInv, NobodyWorks, Look, Unlock, Loaded
  <2> QED BY <1>2, <1>4, <2>1, LookKeeps
<1>5. CASE Update("main", mem')
  <2>1. NobodyWorks'
    BY <1>1, <1>5 DEF FileInv, NobodyWorks, Update, Unlock
  <2> QED BY <1>2, <1>5, <2>1, UpdateKeeps
<1> QED BY <1>3, <1>4, <1>5, StartingLocks

LEMMA FileStep == FileInv /\ [Next]_vars => FileInv'
<1> SUFFICES ASSUME FileInv, [Next]_vars PROVE FileInv'
  OBVIOUS
<1>1. CASE Working
  <2>1. NobodyWorks' /\ (Loaded' => Loaded)
    BY <1>1, WorkingMain DEF NobodyWorks, BeforeStart
  <2> QED BY <1>1, <2>1, WorkingLocks, GoroutinesHold, SameKeeps, LookKeeps, UpdateKeeps
<1>2. CASE GoingOn
  BY <1>2, GoingOnSame, SameKeeps
<1>3. CASE Elsewhere
  <2>1. SameState /\ (Loaded' => Loaded) /\ NobodyWorks'
    BY <1>3, ElsewhereSame DEF stateVars, SameState, Loaded
  <2> QED BY <2>1, SameKeeps
<1> QED BY <1>1, <1>2, <1>3, NextCases, StartingKeeps, CheckpointKeeps, ProcessGone DEF Ending

(***************************************************************************)
(* Types.                                                                  *)
(***************************************************************************)
StoreTyped ==
  /\ file \in Contents /\ durable \in Contents /\ tmp \in Contents
  /\ mem \in Snapshots /\ phase \in Phases /\ boot \in 1..Boots
LoopTyped == timer \in {Off, Taken} \cup 0..Interval /\ due \in {Never} \cup 0..Interval
RestartTyped ==
  wanted \in RestartTypes /\ stopping \in RestartTypes /\ handler \subseteq RestartTypes

\* What a start and the end of a process make of a snapshot.
LEMMA BlankType == Blank \in Snapshots /\ Missing \in Contents /\ Partial \in Contents
<1>1. Blank \in Snapshots
  BY FileAssumption DEF FileAssumption, Blank, Snapshots, Statuses, NoBoot
<1> QED BY <1>1 DEF Missing, Partial, Contents

LEMMA WholeType ==
  ASSUME NEW s \in Snapshots
  PROVE  /\ Marshal(s) \in Snapshots
         /\ Whole(s) \in Contents /\ Unsynced(s) \in Contents
<1>1. Marshal(s) \in Snapshots
  BY DEF Marshal, Snapshots
<1> QED BY <1>1 DEF Whole, Unsynced, Contents

\* What the restart manager and the patches look at.
SameStart(s, t) ==
  /\ t.from = s.from /\ t.tent = s.tent
  /\ t.legacy = s.legacy /\ t.idents = s.idents /\ t.level = s.level

LEMMA ChangeSet ==
  ASSUME NEW s \in Snapshots, NEW f \in [Changes -> Statuses]
  PROVE  [s EXCEPT !.chg = f] \in Snapshots /\ SameStart(s, [s EXCEPT !.chg = f])
BY DEF Snapshots, SameStart

LEMMA OneChangeSet ==
  ASSUME NEW s \in Snapshots, NEW c \in Changes, NEW x \in Statuses
  PROVE  [s EXCEPT !.chg[c] = x] \in Snapshots /\ SameStart(s, [s EXCEPT !.chg[c] = x])
BY DEF Snapshots, SameStart

LEMMA RebootSet ==
  ASSUME NEW s \in Snapshots
  PROVE  [s EXCEPT !.at = TRUE] \in Snapshots /\ SameStart(s, [s EXCEPT !.at = TRUE])
BY DEF Snapshots, SameStart

\* AskRestart of a reboot keeps the boot it is to end.
AskedIn(s, t) ==
  /\ t.from = boot /\ t.tent = s.tent
  /\ t.legacy = s.legacy /\ t.idents = s.idents /\ t.level = s.level

LEMMA BootSet ==
  ASSUME NEW s \in Snapshots, boot \in 1..Boots
  PROVE  [s EXCEPT !.from = boot] \in Snapshots /\ AskedIn(s, [s EXCEPT !.from = boot])
<1>1. boot \in 0..Boots
  BY FileAssumption DEF FileAssumption
<1> QED BY <1>1, Zenon DEF Snapshots, AskedIn

LEMMA WorkingState ==
  ASSUME StoreTyped, Working
  PROVE  /\ mem' \in Snapshots
         /\ SameStart(mem, mem') \/ (engine = "started" /\ AskedIn(mem, mem'))
<1>0. mem \in Snapshots /\ boot \in 1..Boots /\ {"api", "auto", "stop"} \subseteq Changes
  BY DaemonAssumption DEF StoreTyped, DaemonAssumption
<1>1. {"none", "Do", "Doing", "Ready", "Clean"} \subseteq Statuses
  BY DEF Statuses
<1>2. ASSUME mem' = mem PROVE SameStart(mem, mem') /\ mem' \in Snapshots
  BY <1>0, <1>2 DEF SameStart
<1>3. ASSUME NEW c \in Changes, NEW x \in Statuses, mem' = [mem EXCEPT !.chg[c] = x]
      PROVE  SameStart(mem, mem') /\ mem' \in Snapshots
  BY <1>0, <1>3, OneChangeSet
<1>4. CASE AutoStart \/ StopServices \/ MakeChange
  <2>1. \/ mem' = mem
        \/ \E c \in {"api", "auto", "stop"} : mem' = [mem EXCEPT !.chg[c] = "Do"]
    BY <1>4 DEF AutoStart, StopServices, MakeChange, SameState, Look, Update
  <2> QED BY <1>0, <1>1, <1>2, <1>3, <2>1
<1>5. CASE Decide \/ StandbyLook \/ StandbyAsk
  <2>1. mem' = mem
    BY <1>5 DEF Decide, StandbyLook, StandbyAsk, Look, SameState
  <2> QED BY <1>2, <2>1
<1>6. CASE ScheduleReboot
  <2>1. mem' = mem \/ mem' = [mem EXCEPT !.at = TRUE]
    BY <1>6 DEF ScheduleReboot, Look, Update
  <2> QED BY <1>0, <1>2, <2>1, RebootSet
<1>7. CASE LoopEnsure
  <2>1. mem' = mem \/ mem' = Ensured(mem)
    BY <1>7 DEF LoopEnsure, Look, Update
  <2>2. [c \in Changes |-> CASE mem.chg[c] = "Do" -> "Doing"
                             [] mem.chg[c] = "Ready" -> "Clean"
                             [] OTHER -> mem.chg[c]] \in [Changes -> Statuses]
    BY <1>0, <1>1 DEF Snapshots
  <2>3. Ensured(mem) \in Snapshots /\ SameStart(mem, Ensured(mem))
    BY <1>0, <2>2, ChangeSet DEF Ensured
  <2> QED BY <1>2, <2>1, <2>3
<1>8. CASE LoopPrune
  <2>1. \E c \in Changes : mem' = [mem EXCEPT !.chg[c] = "none"]
    BY <1>8 DEF LoopPrune, Update
  <2> QED BY <1>1, <1>3, <2>1
<1>9. ASSUME NEW c \in Changes, TaskDone(c)
      PROVE  SameStart(mem, mem') /\ mem' \in Snapshots
  <2>1. mem' = [mem EXCEPT !.chg[c] = "Ready"]
    BY <1>9 DEF TaskDone, Update
  <2> QED BY <1>1, <1>3, <2>1
<1>10. ASSUME NEW t \in RestartTypes, AskRestart(t)
       PROVE  /\ mem' \in Snapshots
              /\ SameStart(mem, mem') \/ (engine = "started" /\ AskedIn(mem, mem'))
  <2>1. engine = "started" /\ (mem' = mem \/ mem' = [mem EXCEPT !.from = boot])
    BY <1>10 DEF AskRestart, Update
  <2> QED BY <1>0, <1>2, <2>1, BootSet
<1> QED BY <1>4, <1>5, <1>6, <1>7, <1>8, <1>9, <1>10 DEF Working

\* What a start makes of the state: it reads it, clears the reboot, counts an attempt, or
\* patches it.
Cleared(s, t) ==
  t.from = NoBoot /\ t.legacy = s.legacy /\ t.idents = s.idents /\ t.level = s.level
Counted(s, t) ==
  /\ t.from = s.from /\ t.tent = s.tent + 1
  /\ t.legacy = s.legacy /\ t.idents = s.idents /\ t.level = s.level
Stamped(s, t) ==
  t.from = s.from /\ t.tent = s.tent /\ t.legacy = s.legacy /\ t.idents = s.idents
Patched(s, t) ==
  /\ t.from = s.from /\ t.tent = s.tent /\ t.level = s.level + 1 /\ t.legacy = s.legacy
  /\ s.idents => t.idents
  /\ s.level + 1 = 2 /\ s.legacy => t.idents

LEMMA ClearSet ==
  ASSUME NEW s \in Snapshots
  PROVE  LET t == ClearReboot([s EXCEPT !.from = NoBoot])
         IN t \in Snapshots /\ Cleared(s, t)
<1>1. NoBoot \in 0..Boots /\ 0 \in 0..MaxTentatives
  BY FileAssumption DEF FileAssumption, NoBoot
<1> QED BY <1>1, Zenon DEF Snapshots, ClearReboot, Cleared

LEMMA CountSet ==
  ASSUME NEW s \in Snapshots, s.tent + 1 <= MaxTentatives
  PROVE  [s EXCEPT !.tent = @ + 1] \in Snapshots /\ Counted(s, [s EXCEPT !.tent = @ + 1])
<1>1. s.tent + 1 \in 0..MaxTentatives
  BY FileAssumption DEF FileAssumption, Snapshots
<1> QED BY <1>1, Zenon DEF Snapshots, Counted

LEMMA StampSet ==
  ASSUME NEW s \in Snapshots
  PROVE  LET t == [s EXCEPT !.level = Level, !.sub = 0]
         IN t \in Snapshots /\ Stamped(s, t)
<1>1. Level \in 0..(Level + 1) /\ 0 \in 0..1
  BY FileAssumption DEF FileAssumption
<1> QED BY <1>1, Zenon DEF Snapshots, Stamped

LEMMA SubSet ==
  ASSUME NEW s \in Snapshots
  PROVE  [s EXCEPT !.sub = 0] \in Snapshots /\ SameStart(s, [s EXCEPT !.sub = 0])
<1>1. 0 \in 0..1
  OBVIOUS
<1> QED BY <1>1, Zenon DEF Snapshots, SameStart

LEMMA PatchSet ==
  ASSUME NEW s \in Snapshots, s.level < Level
  PROVE  LET t == [Patch(s.level + 1, s) EXCEPT !.level = s.level + 1, !.sub = 0]
         IN t \in Snapshots /\ Patched(s, t)
<1>1. s.level + 1 \in 0..(Level + 1) /\ 0 \in 0..1
  BY FileAssumption DEF FileAssumption, Snapshots
<1>2. CASE s.level + 1 = 2 /\ s.legacy /\ ~s.idents
  <2>1. Patch(s.level + 1, s) = [s EXCEPT !.idents = TRUE]
    BY <1>2, Zenon DEF Patch
  <2> QED BY <1>1, <2>1, Zenon DEF Snapshots, Patched
<1>3. CASE ~(s.level + 1 = 2 /\ s.legacy /\ ~s.idents)
  <2>1. Patch(s.level + 1, s) = s
    BY <1>3, Zenon DEF Patch
  <2> QED BY <1>1, <1>3, <2>1, Zenon DEF Snapshots, Patched
<1> QED BY <1>2, <1>3

LEMMA StoreStep == FileInv /\ StoreTyped /\ [Next]_vars => StoreTyped'
<1> SUFFICES ASSUME FileInv, StoreTyped, [Next]_vars PROVE StoreTyped'
  OBVIOUS
<1>0. mem \in Snapshots /\ boot \in 1..Boots
  BY DEF StoreTyped
<1>1. ASSUME NEW who, Look(who) \/ Update(who, mem'), mem' \in Snapshots
      PROVE  StoreTyped'
  BY <1>1 DEF StoreTyped, Look, Update, Unlock, Phases
<1>2. ASSUME SameState
      PROVE  StoreTyped'
  BY <1>2 DEF StoreTyped, SameState, fileVars
<1>3. CASE Working
  BY <1>1, <1>2, <1>3, WorkingState, WorkingLocks
<1>4. CASE GoingOn
  BY <1>2, <1>4, GoingOnSame
<1>5. CASE Elsewhere
  BY <1>2, <1>5, ElsewhereSame DEF stateVars, SameState
<1>6. CASE Starting /\ OfState
  <2>1. CASE LoadState
    <3>1. mem' = Blank \/ mem' = file.s
      BY <2>1 DEF LoadState
    <3>2. mem' \in Snapshots
      BY <3>1, BlankType DEF StoreTyped, Contents
    <3> QED BY <2>1, <3>2 DEF LoadState, StoreTyped, fileVars
  <2>2. CASE Look("main")
    BY <1>0, <1>1, <2>2 DEF Look
  <2>3. CASE Update("main", mem') /\ ~LoadState
    <3>1. CASE InitRestart
      <4>1. \/ mem' = ClearReboot([mem EXCEPT !.from = NoBoot])
            \/ mem.tent + 1 <= MaxTentatives /\ mem' = [mem EXCEPT !.tent = @ + 1]
        <5>1. mem.tent + 1 > MaxTentatives \/ mem.tent + 1 <= MaxTentatives
          BY <1>0, FileAssumption DEF FileAssumption, Snapshots
        <5> QED BY <3>1, <5>1, Zenon DEF InitRestart, RebootAsExpected, RebootDidNotHappen, Update
      <4>2. mem' \in Snapshots
        BY <1>0, <4>1, ClearSet, CountSet
      <4> QED BY <1>1, <2>3, <4>2
    <3>2. CASE PatchInit \/ ApplyOne \/ LowerSublevel
      <4>1. \/ mem' = [mem EXCEPT !.level = Level, !.sub = 0]
            \/ mem.level < Level
               /\ mem' = [Patch(mem.level + 1, mem) EXCEPT !.level = mem.level + 1, !.sub = 0]
            \/ mem' = [mem EXCEPT !.sub = 0]
        BY <3>2 DEF PatchInit, ApplyOne, LowerSublevel, Update
      <4>2. mem' \in Snapshots
        BY <1>0, <4>1, StampSet, PatchSet, SubSet
      <4> QED BY <1>1, <2>3, <4>2
    <3>3. CASE PatchApplied
      <4>1. mem' = mem
        BY <3>3 DEF PatchApplied, Look
      <4> QED BY <1>0, <1>1, <2>3, <4>1
    <3> QED BY <1>6, <2>3, <3>1, <3>2, <3>3 DEF Starting
  <2> QED BY <1>6, <2>1, <2>2, <2>3, StartingLocks
<1>7. CASE Checkpoint /\ OfState
  <2>1. UNCHANGED <<mem, boot>>
    BY <1>7 DEF Checkpoint, CreateTemp, CopyData, SyncTemp, Rename, SyncDirectory, Cancel,
                RetryCheckpoint, Writing
  <2>2. phase' \in Phases
    BY <1>7 DEF Checkpoint, CreateTemp, CopyData, SyncTemp, Rename, SyncDirectory, Cancel,
                RetryCheckpoint, Phases
  <2>3. tmp' \in {tmp, Partial, Missing, Unsynced(Marshal(mem)), Whole(tmp.s)}
    BY <1>7 DEF Checkpoint, CreateTemp, CopyData, SyncTemp, Rename, SyncDirectory, Cancel,
                RetryCheckpoint, Writing
  <2>4. tmp.s \in Snapshots
    BY DEF StoreTyped, Contents
  <2>5. tmp' \in Contents
    BY <1>0, <2>3, <2>4, BlankType, WholeType DEF StoreTyped
  <2>6. file' \in {file, tmp} /\ durable' \in {durable, file}
    BY <1>7 DEF Checkpoint, CreateTemp, CopyData, SyncTemp, Rename, SyncDirectory, Cancel,
                RetryCheckpoint, Writing
  <2> QED BY <2>1, <2>2, <2>5, <2>6 DEF StoreTyped
<1>8. CASE Ending
  <2>1. mem' = Blank /\ tmp' = Missing /\ phase' = "idle"
    BY <1>8 DEF Ending, RunReturns, Panics, Crash, Cut, SystemReboots, Ends, ProcessEnds
  <2>2. boot' \in {boot, boot + 1} /\ (boot' # boot => boot < Boots)
    BY <1>8 DEF Ending, RunReturns, Panics, Crash, Cut, SystemReboots
  <2>3. boot' \in 1..Boots
    BY <1>0, <2>2, FileAssumption DEF FileAssumption
  <2>4. file' \in {file, durable, Partial} /\ durable' \in {file, durable, Partial}
    BY <1>8 DEF Ending, RunReturns, Panics, Crash, Cut, SystemReboots, PowerIsLost,
                AfterPowerLoss
  <2> QED BY <2>1, <2>3, <2>4, BlankType DEF StoreTyped, Phases
<1> QED BY <1>3, <1>4, <1>5, <1>6, <1>7, <1>8, NextCases

LEMMA EnsureBeforeType ==
  ASSUME LoopTyped, NEW d \in 0..Interval, EnsureBefore(d)
  PROVE  LoopTyped'
BY DEF LoopTyped, EnsureBefore, Least, Off, Taken, Never

LEMMA LoopTypeStep == LoopTyped /\ [Next]_vars => LoopTyped'
<1> SUFFICES ASSUME LoopTyped, [Next]_vars PROVE LoopTyped'
  OBVIOUS
<1>0. Interval \in Nat /\ 0 \in 0..Interval /\ Interval \in 0..Interval /\ Delays \subseteq 0..Interval
  BY DaemonAssumption DEF DaemonAssumption
<1>1. ASSUME UNCHANGED <<timer, due>> PROVE LoopTyped'
  BY <1>1 DEF LoopTyped
<1>2. CASE (Starting \/ Checkpoint) /\ OfState
  BY <1>1, <1>2 DEF OfState, loopVars
<1>3. CASE GoingOn
  <2>1. CASE StartDaemon
    BY <1>0, <2>1 DEF LoopTyped, StartDaemon, loopVars
  <2>2. CASE ~StartDaemon
    BY <1>1, <1>3, <2>2
    DEF GoingOn, NewDaemon, AutoStartUnanswered, LeaveRun, ServicesStopped, KillTomb, StandbyGone,
        ShutdownEnds, EngineStops, StartFails, StartProcess, loopVars
  <2> QED BY <2>1, <2>2
<1>4. CASE Ending
  <2>1. timer' = Off /\ due' = Never
    BY <1>4 DEF Ending, RunReturns, Panics, Crash, Cut, SystemReboots, Ends
  <2> QED BY <2>1 DEF LoopTyped
<1>5. CASE Working
  <2>1. CASE LoopEnsure \/ LoopPrune
    BY <2>1 DEF LoopTyped, LoopEnsure, LoopPrune
  <2>2. CASE Decide \/ ScheduleReboot \/ StandbyLook \/ StandbyAsk
               \/ \E t \in RestartTypes : AskRestart(t)
    BY <1>1, <2>2 DEF Decide, ScheduleReboot, StandbyLook, StandbyAsk, AskRestart, loopVars
  <2>3. CASE AutoStart \/ StopServices \/ MakeChange \/ \E c \in Changes : TaskDone(c)
    <3>1. EnsureBefore(0) \/ UNCHANGED <<timer, due>>
      BY <2>3 DEF AutoStart, StopServices, MakeChange, TaskDone, loopVars
    <3> QED BY <1>0, <1>1, <3>1, EnsureBeforeType
  <2> QED BY <1>5, <2>1, <2>2, <2>3 DEF Working
<1>6. CASE Elsewhere
  <2>1. CASE LoopReset \/ LoopEnsured \/ LoopTimer \/ LoopDies
    BY <1>0, <2>1 DEF LoopTyped, LoopReset, LoopEnsured, LoopTimer, LoopDies
  <2>2. CASE Tick
    BY <1>0, <2>2 DEF LoopTyped, Tick, Off, Taken, Never
  <2>3. CASE Waiter
    BY <1>0, <2>3, EnsureBeforeType DEF Waiter
  <2>4. CASE Enter \/ Signal \/ Connect \/ ConnState \/ ServeFails \/ StandbyTimer
               \/ StandbyStopped \/ (\E t \in RestartTypes : KeepRestart(t)) \/ UNCHANGED vars
    BY <1>1, <2>4
    DEF Enter, AutoStarted, EnterCommand, RestOfEnter, Signal, Connect, ConnState, ServeFails,
        StandbyTimer, StandbyStopped, KeepRestart, vars, loopVars
  <2> QED BY <1>6, <2>1, <2>2, <2>3, <2>4 DEF Elsewhere
<1> QED BY <1>2, <1>3, <1>4, <1>5, <1>6, NextCases

LEMMA RestartTypeStep == RestartTyped /\ [Next]_vars => RestartTyped'
<1> SUFFICES ASSUME RestartTyped, [Next]_vars PROVE RestartTyped'
  OBVIOUS
<1>1. ASSUME UNCHANGED <<wanted, handler, stopping>> PROVE RestartTyped'
  BY <1>1 DEF RestartTyped
<1>2. CASE (Starting \/ Checkpoint) /\ OfState
  BY <1>1, <1>2 DEF OfState, restartVars
<1>3. CASE GoingOn
  <2>1. CASE KillTomb
    BY <2>1 DEF RestartTyped, KillTomb
  <2>2. CASE ~KillTomb
    BY <1>1, <1>3, <2>2
    DEF GoingOn, NewDaemon, StartDaemon, AutoStartUnanswered, LeaveRun, ServicesStopped,
        StandbyGone, ShutdownEnds, EngineStops, StartFails, StartProcess, restartVars
  <2> QED BY <2>1, <2>2
<1>4. CASE Ending
  <2>1. wanted' = "unset" /\ handler' = {} /\ stopping' = "unset"
    BY <1>4 DEF Ending, RunReturns, Panics, Crash, Cut, SystemReboots, Ends
  <2> QED BY <2>1 DEF RestartTyped, RestartTypes
<1>5. CASE Working
  <2>1. CASE Decide
    BY <2>1 DEF RestartTyped, RestartTypes, Decide
  <2>2. CASE StandbyAsk
    BY <2>2 DEF RestartTyped, RestartTypes, StandbyAsk, HandleRestart
  <2>3. CASE \E t \in RestartTypes : AskRestart(t)
    BY <2>3 DEF RestartTyped, AskRestart, HandleRestart
  <2>4. CASE AutoStart \/ StopServices \/ ScheduleReboot \/ LoopEnsure \/ LoopPrune
               \/ StandbyLook \/ MakeChange \/ \E c \in Changes : TaskDone(c)
    BY <1>1, <2>4
    DEF AutoStart, StopServices, ScheduleReboot, LoopEnsure, LoopPrune, StandbyLook, MakeChange,
        TaskDone, RestOfHttp, restartVars
  <2> QED BY <1>5, <2>1, <2>2, <2>3, <2>4 DEF Working
<1>6. CASE Elsewhere
  <2>1. CASE \E t \in RestartTypes : KeepRestart(t)
    BY <2>1 DEF RestartTyped, KeepRestart
  <2>2. CASE LoopReset \/ LoopEnsured \/ LoopTimer \/ LoopDies \/ Tick \/ Waiter
    BY <1>1, <2>2 DEF LoopReset, LoopEnsured, LoopTimer, LoopDies, Tick, Waiter, restartVars
  <2>3. CASE Enter \/ Signal \/ Connect \/ ConnState \/ ServeFails \/ StandbyTimer
               \/ StandbyStopped \/ UNCHANGED vars
    BY <1>1, <2>3
    DEF Enter, AutoStarted, EnterCommand, RestOfEnter, Signal, Connect, ConnState, ServeFails,
        RestOfHttp, StandbyTimer, StandbyStopped, vars, restartVars
  <2> QED BY <1>6, <2>1, <2>2, <2>3 DEF Elsewhere
<1> QED BY <1>2, <1>3, <1>4, <1>5, <1>6, NextCases

(***************************************************************************)
(* The reboot that is waited for, and the accounts.                        *)
(***************************************************************************)

\* Accounts under the old key alone are of a program before patch2.
Sane(s) == s.legacy /\ ~s.idents => s.level < 2

\* Each start that waits has counted itself in whatever snapshot the next start may find.
AttemptsInv ==
  /\ missed \in 0..MaxTentatives
  /\ \A s \in {mem, file.s, durable.s} : s.from # NoBoot => missed <= s.tent
  /\ loop # "gate" => engine # "made"
  /\ main = "init" \/ engine # "made" => missed = 0
  /\ main \in {"restart", "restart of a new state"} => persist
  /\ main = "reboot is missing" => persist /\ missed < mem.tent /\ mem.from = boot
  /\ main = "init without overlord" => mem.from = boot

\* The accounts are in memory under one key or the other, and under the new one once the
\* patches are applied.
AccountsInv ==
  /\ \A s \in {file.s, durable.s} : Sane(s)
  /\ main = "load" /\ legacy => file.s.legacy \/ file.s.idents
  /\ main \notin {"off", "exited", "load"} /\ persist /\ legacy =>
       mem.idents \/ (mem.legacy /\ mem.level < 2)
  /\ main \in {"restart of a new state", "patch.Init"} /\ persist => ~legacy
  /\ (main \in {"loaded", "init"} \/ engine # "made") /\ persist /\ legacy => mem.idents

LEMMA MarshalFields ==
  ASSUME NEW s \in Snapshots
  PROVE  LET t == Marshal(s)
         IN t.from = s.from /\ t.tent = s.tent /\ t.idents = s.idents /\ Sane(t)
BY Zenon DEF Marshal, Snapshots, Sane

LEMMA AgreeFields ==
  ASSUME NEW s \in Snapshots, NEW t \in Snapshots, Marshal(s) = Marshal(t)
  PROVE  s.from = t.from /\ s.tent = t.tent
BY MarshalFields

LEMMA SnapshotFields ==
  ASSUME NEW s \in Snapshots
  PROVE  /\ s.from \in Int /\ s.tent \in Nat /\ s.level \in Nat
         /\ s.legacy \in BOOLEAN /\ s.idents \in BOOLEAN
BY FileAssumption DEF FileAssumption, Snapshots

LEMMA ContentsFields == StoreTyped => file.s \in Snapshots /\ durable.s \in Snapshots
BY DEF StoreTyped, Contents

LEMMA BlankFields ==
  /\ Blank.from = NoBoot /\ Sane(Blank) /\ ~Blank.legacy /\ ~Blank.idents
  /\ Missing.s = Blank /\ Missing.is = "missing"
BY DEF Blank, Sane, Missing

StartInv == AttemptsInv /\ AccountsInv

LEMMA WorkingStart ==
  ASSUME FileInv, StoreTyped, StartInv, Working
  PROVE  StartInv'
<1>1. main \notin BeforeStart /\ main' \notin BeforeStart
  BY WorkingMain
<1>2. UNCHANGED <<file, durable, missed, legacy, engine, persist, boot>>
  <2>1. UNCHANGED <<file, durable, persist, boot>>
    BY WorkingLocks DEF SameState, Look, Update, fileVars
  <2>2. UNCHANGED <<missed, legacy, engine>>
    BY DEF Working, AutoStart, StopServices, Decide, ScheduleReboot, LoopEnsure, LoopPrune,
           StandbyLook, StandbyAsk, MakeChange, TaskDone, AskRestart, EnsureBefore, RestOfMain,
           RestOfStop, RestOfHttp, loopVars, otherVars
  <2> QED BY <2>1, <2>2
<1>3. loop' # "gate" => loop # "gate"
  BY DEF Working, AutoStart, StopServices, Decide, ScheduleReboot, LoopEnsure, LoopPrune,
         StandbyLook, StandbyAsk, MakeChange, TaskDone, AskRestart, EnsureBefore, loopVars
<1>4. SameStart(mem, mem') \/ (engine = "started" /\ AskedIn(mem, mem'))
  BY WorkingState
<1>5. mem.tent \in Nat
  BY SnapshotFields DEF StoreTyped
<1>6. mem'.from # NoBoot => missed <= mem'.tent
  <2>1. CASE SameStart(mem, mem')
    BY <2>1 DEF StartInv, AttemptsInv, SameStart
  <2>2. CASE engine = "started" /\ AskedIn(mem, mem')
    <3>1. missed = 0 /\ mem'.tent = mem.tent
      BY <2>2 DEF StartInv, AttemptsInv, AskedIn
    <3> QED BY <1>5, <3>1
  <2> QED BY <1>4, <2>1, <2>2
<1>7. AttemptsInv'
  BY <1>1, <1>2, <1>3, <1>6 DEF StartInv, AttemptsInv, BeforeStart
<1>8. mem'.legacy = mem.legacy /\ mem'.idents = mem.idents /\ mem'.level = mem.level
  BY <1>4 DEF SameStart, AskedIn
<1>9. AccountsInv'
  BY <1>1, <1>2, <1>8 DEF StartInv, AccountsInv, BeforeStart
<1> QED BY <1>7, <1>9 DEF StartInv

LEMMA ElsewhereStart ==
  ASSUME FileInv, StartInv, Elsewhere
  PROVE  StartInv'
<1>1. UNCHANGED <<main, boot, persist, mem, file, durable>>
  BY ElsewhereSame DEF stateVars, fileVars
<1>2. UNCHANGED <<missed, legacy, engine>> /\ (loop' # "gate" => loop # "gate")
  <2>1. CASE LoopReset \/ LoopEnsured \/ LoopTimer \/ LoopDies \/ Tick \/ Waiter
    BY <2>1 DEF LoopReset, LoopEnsured, LoopTimer, LoopDies, Tick, Waiter, EnsureBefore, otherVars
  <2>2. CASE Enter \/ Signal \/ Connect \/ ConnState \/ ServeFails \/ StandbyTimer
               \/ StandbyStopped \/ (\E t \in RestartTypes : KeepRestart(t)) \/ UNCHANGED vars
    BY <2>2
    DEF Enter, AutoStarted, EnterCommand, RestOfEnter, Signal, Connect, ConnState, ServeFails,
        StandbyTimer, StandbyStopped, KeepRestart, RestOfHttp, vars, loopVars, otherVars
  <2> QED BY <2>1, <2>2 DEF Elsewhere
<1>3. AttemptsInv'
  BY <1>1, <1>2 DEF StartInv, AttemptsInv
<1>4. AccountsInv'
  BY <1>1, <1>2 DEF StartInv, AccountsInv, Sane
<1> QED BY <1>3, <1>4 DEF StartInv

LEMMA CheckpointStart ==
  ASSUME FileInv, StoreTyped, StartInv, Checkpoint, OfState
  PROVE  StartInv'
<1>1. UNCHANGED <<main, boot, persist, mem, missed, legacy, engine, loop>>
  BY DEF Checkpoint, CreateTemp, CopyData, SyncTemp, Rename, SyncDirectory, Cancel,
         RetryCheckpoint, Writing, OfState, loopVars, otherVars
<1>2. /\ file'.s \in {file.s, Marshal(mem)}
      /\ durable'.s \in {file.s, durable.s}
  <2>1. CASE Rename
    <3>1. file' = Whole(Marshal(mem)) /\ durable' = durable
      BY <2>1 DEF Rename, FileInv, CheckpointInv
    <3> QED BY <3>1, WholeKept
  <2>2. CASE ~Rename
    BY <2>2 DEF Checkpoint, CreateTemp, CopyData, SyncTemp, SyncDirectory, Cancel,
                RetryCheckpoint
  <2> QED BY <2>1, <2>2
<1>3. /\ Marshal(mem).from = mem.from /\ Marshal(mem).tent = mem.tent
      /\ Marshal(mem).idents = mem.idents /\ Sane(Marshal(mem))
  BY MarshalFields DEF StoreTyped
<1>4. AttemptsInv'
  BY <1>1, <1>2, <1>3 DEF StartInv, AttemptsInv
<1>5. main # "load"
  BY DEF FileInv, NobodyWorks, CheckpointInv, Checkpoint, CreateTemp, CopyData, SyncTemp,
         Rename, SyncDirectory, Cancel, RetryCheckpoint
<1>6. AccountsInv'
  BY <1>1, <1>2, <1>3, <1>5 DEF StartInv, AccountsInv
<1> QED BY <1>4, <1>6 DEF StartInv

LEMMA EndingStart ==
  ASSUME FileInv, StartInv, Ending
  PROVE  StartInv'
<1>1. /\ mem' = Blank /\ main' \in {"off", "exited"} /\ loop' = "gate" /\ engine' = "made"
      /\ UNCHANGED <<missed, persist>>
  BY DEF Ending, RunReturns, Panics, Crash, Cut, SystemReboots, Ends, ProcessEnds
<1>2. file' \in {file, durable, Partial} /\ durable' \in {file, durable, Partial}
  BY DEF Ending, RunReturns, Panics, Crash, Cut, SystemReboots, PowerIsLost, AfterPowerLoss
<1>3. file'.s \in {file.s, durable.s, Blank} /\ durable'.s \in {file.s, durable.s, Blank}
  <2>1. Partial.s = Blank
    BY DEF Partial
  <2> QED BY <1>2, <2>1
<1>4. AttemptsInv'
  BY <1>1, <1>3, BlankFields DEF StartInv, AttemptsInv
<1>5. AccountsInv'
  BY <1>1, <1>3, BlankFields DEF StartInv, AccountsInv
<1> QED BY <1>4, <1>5 DEF StartInv

LEMMA GoingOnStart ==
  ASSUME FileInv, StoreTyped, StartInv, GoingOn
  PROVE  StartInv'
<1>0. UNCHANGED <<mem, file, durable, persist, boot, lock>>
  BY GoingOnSame DEF SameState, fileVars
<1>1. CASE NewDaemon /\ main = "loaded"
  <2>1. /\ main' = "init" /\ missed' = 0 /\ UNCHANGED <<legacy, engine, loop>>
    BY <1>1 DEF NewDaemon, RestOfMain, loopVars
  <2>2. \A s \in {mem, file.s, durable.s} : s.tent \in Nat
    BY SnapshotFields, ContentsFields DEF StoreTyped
  <2>3. AttemptsInv'
    BY <1>0, <1>1, <2>1, <2>2, FileAssumption DEF FileAssumption, StartInv, AttemptsInv
  <2>4. AccountsInv'
    BY <1>0, <1>1, <2>1 DEF StartInv, AccountsInv
  <2> QED BY <2>3, <2>4 DEF StartInv
<1>2. CASE NewDaemon /\ main = "reboot is missing"
  <2>1. /\ main' = "init without overlord" /\ missed' = missed + 1
        /\ UNCHANGED <<legacy, engine, loop>> /\ lock # "main"
    BY <1>2 DEF NewDaemon, MainRests, RestOfMain, loopVars
  <2>2. lock = NoOne /\ engine = "made" /\ loop = "gate"
    BY <1>2, <2>1 DEF FileInv, NobodyWorks, BeforeStart
  <2>3. persist /\ missed < mem.tent /\ mem.from = boot
    BY <1>2 DEF StartInv, AttemptsInv
  <2>4. Marshal(file.s) = Marshal(mem) /\ Marshal(durable.s) = Marshal(mem)
    BY <1>2, <2>2, <2>3 DEF FileInv, FileAgrees, Loaded
  <2>5. file.s.tent = mem.tent /\ durable.s.tent = mem.tent
    BY <2>4, AgreeFields, ContentsFields DEF StoreTyped
  <2>6. missed \in 0..MaxTentatives /\ mem.tent \in 0..MaxTentatives
    BY DEF StartInv, AttemptsInv, StoreTyped, Snapshots
  <2>7. missed' \in 0..MaxTentatives /\ missed' <= mem.tent
    <3>1. ASSUME NEW m, NEW t, m \in 0..MaxTentatives, t \in 0..MaxTentatives, m < t
          PROVE  m + 1 \in 0..MaxTentatives /\ m + 1 <= t
      BY <3>1, FileAssumption DEF FileAssumption
    <3> QED BY <2>1, <2>3, <2>6, <3>1
  <2>8. \A s \in {mem', file'.s, durable'.s} : missed' <= s.tent
    BY <1>0, <2>5, <2>7
  <2>9. AttemptsInv'
    BY <1>0, <2>1, <2>2, <2>3, <2>7, <2>8 DEF AttemptsInv
  <2>10. AccountsInv'
    BY <1>0, <1>2, <2>1, <2>2 DEF StartInv, AccountsInv
  <2> QED BY <2>9, <2>10 DEF StartInv
<1>3. CASE StartDaemon
  <2>1. /\ UNCHANGED <<missed, legacy>>
        /\ \/ main = "init" /\ main' = "autostart" /\ loop' = "reset" /\ engine' = "started"
           \/ /\ main = "init without overlord" /\ main' = "autostart without server"
              /\ UNCHANGED <<loop, engine>>
    BY <1>3 DEF StartDaemon, loopVars
  <2>2. AttemptsInv'
    BY <1>0, <2>1 DEF StartInv, AttemptsInv
  <2>3. AccountsInv'
    BY <1>0, <2>1 DEF StartInv, AccountsInv
  <2> QED BY <2>2, <2>3 DEF StartInv
<1>4. CASE AutoStartUnanswered \/ LeaveRun \/ ServicesStopped \/ KillTomb \/ StandbyGone
             \/ ShutdownEnds \/ StartFails
  <2>1. /\ UNCHANGED <<missed, legacy, loop, engine>>
        /\ main \notin {"off", "exited", "load"}
        /\ main' = "failed" \/ main' \notin BeforeStart
    BY <1>4 DEF AutoStartUnanswered, LeaveRun, ServicesStopped, KillTomb, StandbyGone,
                ShutdownEnds, StartFails, RestOfMain, RestOfStop, BeforeStart, loopVars
  <2>2. AttemptsInv'
    BY <1>0, <2>1 DEF StartInv, AttemptsInv, BeforeStart
  <2>3. AccountsInv'
    BY <1>0, <2>1 DEF StartInv, AccountsInv, BeforeStart
  <2> QED BY <2>2, <2>3 DEF StartInv
<1>5. CASE EngineStops
  <2>1. /\ UNCHANGED <<missed, legacy, loop>> /\ engine' = "stopped" /\ loop = "dead"
        /\ main = "wait for loop" /\ main' \in {"reboot", "end"}
    BY <1>5 DEF EngineStops, RestOfMain, RestOfStop
  <2>2. engine # "made"
    BY <2>1 DEF StartInv, AttemptsInv
  <2>3. AttemptsInv'
    BY <1>0, <2>1, <2>2 DEF StartInv, AttemptsInv
  <2>4. AccountsInv'
    BY <1>0, <2>1, <2>2 DEF StartInv, AccountsInv
  <2> QED BY <2>3, <2>4 DEF StartInv
<1>6. CASE StartProcess
  <2>1. /\ UNCHANGED <<missed, loop, engine>> /\ main \in {"off", "exited"} /\ main' = "load"
        /\ legacy' = (file.s.legacy \/ file.s.idents)
    BY <1>6 DEF StartProcess, loopVars
  <2>2. engine = "made"
    BY <2>1 DEF FileInv, NobodyWorks, BeforeStart
  <2>3. AttemptsInv'
    BY <1>0, <2>1 DEF StartInv, AttemptsInv
  <2>4. legacy' => file.s.legacy \/ file.s.idents
    BY <2>1
  <2>5. AccountsInv'
    BY <1>0, <2>1, <2>2, <2>4 DEF StartInv, AccountsInv
  <2> QED BY <2>3, <2>5 DEF StartInv
<1>7. NewDaemon => main \in {"loaded", "reboot is missing"}
  BY DEF NewDaemon
<1> QED BY <1>1, <1>2, <1>3, <1>4, <1>5, <1>6, <1>7 DEF GoingOn

LEMMA LoadStart ==
  ASSUME FileInv, StartInv, LoadState,
         UNCHANGED <<file, durable, persist, boot, missed, legacy, engine, loop>>,
         engine = "made", loop = "gate"
  PROVE  StartInv'
<1>1. CASE ~persist
  <2>1. mem' = Blank /\ main' = "patch.Init"
    BY <1>1 DEF LoadState
  <2>2. AttemptsInv'
    BY <2>1, BlankFields DEF StartInv, AttemptsInv
  <2>3. AccountsInv'
    BY <1>1, <2>1 DEF StartInv, AccountsInv
  <2> QED BY <2>2, <2>3 DEF StartInv
<1>2. CASE persist /\ file.is = "missing"
  <2>1. mem' = Blank /\ main' = "restart of a new state" /\ main = "load"
    BY <1>2 DEF LoadState
  <2>2. file = Missing
    BY <1>2 DEF FileInv, CheckpointInv, Kept
  <2>3. ~legacy
    BY <2>1, <2>2, BlankFields DEF StartInv, AccountsInv
  <2>4. AttemptsInv'
    BY <1>2, <2>1, BlankFields DEF StartInv, AttemptsInv
  <2>5. AccountsInv'
    BY <2>1, <2>3 DEF StartInv, AccountsInv
  <2> QED BY <2>4, <2>5 DEF StartInv
<1>3. CASE persist /\ file.is = "whole"
  <2>1. mem' = file.s /\ main' = "restart" /\ main = "load"
    BY <1>3 DEF LoadState
  <2>2. AttemptsInv'
    BY <1>3, <2>1 DEF StartInv, AttemptsInv
  <2>3. legacy => file.s.idents \/ (file.s.legacy /\ file.s.level < 2)
    BY <2>1 DEF StartInv, AccountsInv, Sane
  <2>4. AccountsInv'
    BY <2>1, <2>3 DEF StartInv, AccountsInv
  <2> QED BY <2>2, <2>4 DEF StartInv
<1>4. file.is \in {"missing", "whole"}
  BY BlankFields DEF FileInv, CheckpointInv, Kept
<1> QED BY <1>1, <1>2, <1>3, <1>4

LEMMA StartingStart ==
  ASSUME FileInv, StoreTyped, StartInv, Starting, OfState
  PROVE  StartInv'
<1>0. /\ UNCHANGED <<file, durable, persist, boot, missed, legacy, engine, loop>>
      /\ engine = "made" /\ loop = "gate" /\ mem \in Snapshots
  <2>1. main \in BeforeStart
    BY DEF Starting, LoadState, InitRestart, PatchInit, ApplyOne, LowerSublevel, PatchApplied,
           BeforeStart
  <2>2. UNCHANGED <<file, durable, persist, boot>>
    BY StartingLocks DEF LoadState, Look, Update, fileVars
  <2> QED BY <2>1, <2>2 DEF FileInv, NobodyWorks, OfState, loopVars, otherVars, StoreTyped
<1>1. /\ mem.from \in Int /\ mem.tent \in Nat /\ mem.level \in Nat
      /\ mem.legacy \in BOOLEAN /\ mem.idents \in BOOLEAN /\ boot # NoBoot
  BY <1>0, SnapshotFields, FileAssumption DEF FileAssumption, StoreTyped, NoBoot
<1>2. CASE LoadState
  BY <1>0, <1>2, LoadStart
<1>3. CASE InitRestart
  <2>1. \/ /\ mem' = ClearReboot([mem EXCEPT !.from = NoBoot])
           /\ \/ main' = "patch.Apply"
              \/ main' = "patch.Init" /\ main = "restart of a new state"
        \/ /\ main \in {"restart", "restart of a new state"} /\ main' = "reboot is missing"
           /\ mem.from = boot /\ ~(mem.tent + 1 > MaxTentatives)
           /\ mem' = [mem EXCEPT !.tent = @ + 1]
    BY <1>3, Zenon DEF InitRestart, RebootAsExpected, RebootDidNotHappen, Update
  <2>2. main \in {"restart", "restart of a new state", "restart in memory"}
    BY <1>3 DEF InitRestart
  <2>3. CASE /\ mem' = ClearReboot([mem EXCEPT !.from = NoBoot])
             /\ \/ main' = "patch.Apply"
                \/ main' = "patch.Init" /\ main = "restart of a new state"
    <3>1. Cleared(mem, mem')
      BY <1>0, <2>3, ClearSet
    <3>2. AttemptsInv'
      BY <1>0, <2>3, <3>1 DEF StartInv, AttemptsInv, Cleared
    <3>3. AccountsInv'
      BY <1>0, <2>2, <2>3, <3>1 DEF StartInv, AccountsInv, Cleared
    <3> QED BY <3>2, <3>3 DEF StartInv
  <2>4. CASE /\ main \in {"restart", "restart of a new state"} /\ main' = "reboot is missing"
             /\ mem.from = boot /\ ~(mem.tent + 1 > MaxTentatives)
             /\ mem' = [mem EXCEPT !.tent = @ + 1]
    <3>1. mem.tent + 1 <= MaxTentatives
      <4>1. ASSUME NEW n \in Nat, ~(n + 1 > MaxTentatives) PROVE n + 1 <= MaxTentatives
        BY <4>1, FileAssumption DEF FileAssumption
      <4> QED BY <1>1, <2>4, <4>1
    <3>2. Counted(mem, mem')
      BY <1>0, <2>4, <3>1, CountSet
    <3>3. missed <= mem.tent /\ missed \in 0..MaxTentatives /\ persist
      BY <1>1, <2>4 DEF StartInv, AttemptsInv
    <3>4. missed <= mem'.tent /\ missed < mem'.tent
      <4>1. mem'.tent = mem.tent + 1
        BY <3>2 DEF Counted
      <4>2. ASSUME NEW m \in Int, NEW t \in Nat, m <= t PROVE m <= t + 1 /\ m < t + 1
        BY <4>2
      <4>3. missed \in Int
        BY <3>3
      <4> QED BY <1>1, <3>3, <4>1, <4>2, <4>3
    <3>5. AttemptsInv'
      BY <1>0, <2>4, <3>2, <3>3, <3>4 DEF StartInv, AttemptsInv, Counted
    <3>6. AccountsInv'
      BY <1>0, <2>4, <3>2 DEF StartInv, AccountsInv, Counted
    <3> QED BY <3>5, <3>6 DEF StartInv
  <2> QED BY <2>1, <2>3, <2>4
<1>4. CASE PatchInit
  <2>1. /\ main = "patch.Init" /\ mem' = [mem EXCEPT !.level = Level, !.sub = 0]
        /\ main' \in {"loaded", "restart in memory"}
    BY <1>4 DEF PatchInit, Update
  <2>2. Stamped(mem, mem')
    BY <1>0, <2>1, StampSet
  <2>3. AttemptsInv'
    BY <1>0, <2>1, <2>2 DEF StartInv, AttemptsInv, Stamped
  <2>4. AccountsInv'
    BY <1>0, <2>1, <2>2 DEF StartInv, AccountsInv, Stamped
  <2> QED BY <2>3, <2>4 DEF StartInv
<1>5. CASE ApplyOne
  <2>1. /\ main = "patch.Apply" /\ main' = main /\ mem.level < Level
        /\ mem' = [Patch(mem.level + 1, mem) EXCEPT !.level = mem.level + 1, !.sub = 0]
    BY <1>5 DEF ApplyOne, Update
  <2>2. Patched(mem, mem')
    BY <1>0, <2>1, PatchSet
  <2>3. AttemptsInv'
    BY <1>0, <2>1, <2>2 DEF StartInv, AttemptsInv, Patched
  <2>4. persist /\ legacy => mem'.idents \/ (mem'.legacy /\ mem'.level < 2)
    <3>1. persist /\ legacy => mem.idents \/ (mem.legacy /\ mem.level < 2)
      BY <2>1 DEF StartInv, AccountsInv
    <3>2. ASSUME NEW n \in Nat, n < 2 PROVE n + 1 = 2 \/ n + 1 < 2
      BY <3>2
    <3> QED BY <1>1, <2>2, <3>1, <3>2 DEF Patched
  <2>5. AccountsInv'
    BY <1>0, <2>1, <2>4 DEF StartInv, AccountsInv
  <2> QED BY <2>3, <2>5 DEF StartInv
<1>6. CASE LowerSublevel
  <2>1. main = "patch.Apply" /\ main' = main /\ mem' = [mem EXCEPT !.sub = 0]
    BY <1>6 DEF LowerSublevel, Update
  <2>2. SameStart(mem, mem')
    BY <1>0, <2>1, SubSet
  <2>3. AttemptsInv'
    BY <1>0, <2>1, <2>2 DEF StartInv, AttemptsInv, SameStart
  <2>4. AccountsInv'
    BY <1>0, <2>1, <2>2 DEF StartInv, AccountsInv, SameStart
  <2> QED BY <2>3, <2>4 DEF StartInv
<1>7. CASE PatchApplied
  <2>1. /\ main = "patch.Apply" /\ mem' = mem
        /\ main' = "failed" \/ (main' = "loaded" /\ mem.level >= Level)
    BY <1>1, <1>7, FileAssumption DEF FileAssumption, PatchApplied, Look
  <2>2. AttemptsInv'
    BY <1>0, <2>1 DEF StartInv, AttemptsInv
  <2>3. main' = "loaded" /\ persist /\ legacy => mem.idents
    BY <1>1, <2>1, FileAssumption, DaemonAssumption
    DEF FileAssumption, DaemonAssumption, StartInv, AccountsInv
  <2>4. AccountsInv'
    BY <1>0, <2>1, <2>3 DEF StartInv, AccountsInv
  <2> QED BY <2>2, <2>4 DEF StartInv
<1> QED BY <1>2, <1>3, <1>4, <1>5, <1>6, <1>7 DEF Starting

LEMMA StartStep == FileInv /\ StoreTyped /\ StartInv /\ [Next]_vars => StartInv'
BY NextCases, WorkingStart, ElsewhereStart, CheckpointStart, EndingStart, GoingOnStart,
   StartingStart

(***************************************************************************)
(* The theorems.                                                           *)
(***************************************************************************)
KeptInv == FileInv /\ StoreTyped /\ LoopTyped /\ RestartTyped /\ StartInv

LEMMA TypeInit == Init => StoreTyped /\ LoopTyped /\ RestartTyped
<1> SUFFICES ASSUME Init PROVE StoreTyped /\ LoopTyped /\ RestartTyped
  OBVIOUS
<1>1. StoreTyped
  BY BlankType, FileAssumption, DaemonAssumption
  DEF FileAssumption, DaemonAssumption, Init, StoreTyped, Phases
<1>2. LoopTyped /\ RestartTyped
  BY DEF Init, LoopTyped, RestartTyped, RestartTypes, Off, Never
<1> QED BY <1>1, <1>2

LEMMA StartInit == Init => StartInv
<1> SUFFICES ASSUME Init PROVE StartInv
  OBVIOUS
<1>1. /\ main = "off" /\ engine = "made" /\ loop = "gate" /\ missed = 0 /\ mem = Blank
      /\ file = scene.file /\ durable = file /\ file \in Contents
  BY DaemonAssumption DEF DaemonAssumption, Init
<1>2. file.s.tent \in Nat
  BY <1>1, SnapshotFields DEF Contents
<1>3. AttemptsInv
  BY <1>1, <1>2, BlankFields, FileAssumption DEF FileAssumption, AttemptsInv
<1>4. Sane(file.s)
  BY DaemonAssumption DEF DaemonAssumption, Init, Sane
<1>5. AccountsInv
  BY <1>1, <1>4 DEF AccountsInv
<1> QED BY <1>3, <1>5 DEF StartInv

LEMMA KeptImplies == KeptInv => StateKept
<1> SUFFICES ASSUME KeptInv PROVE StateKept
  OBVIOUS
<1>1. TypeOK
  BY DEF KeptInv, StoreTyped, LoopTyped, RestartTyped, TypeOK
<1>2. NeverPartial
  BY BlankFields DEF KeptInv, FileInv, CheckpointInv, Kept, NeverPartial
<1>3. UnlockedIsDurable
  BY DEF KeptInv, FileInv, FileAgrees, UnlockedIsDurable
<1>4. AttemptsEnd
  <2>1. missed <= MaxTentatives
    <3>1. missed \in 0..MaxTentatives
      BY DEF KeptInv, StartInv, AttemptsInv
    <3> QED BY <3>1, FileAssumption DEF FileAssumption
  <2>2. main \in {"reboot is missing", "init without overlord"} => mem.from = boot
    BY DEF KeptInv, StartInv, AttemptsInv
  <2> QED BY <2>1, <2>2 DEF AttemptsEnd
<1>5. AccountsMigrated
  BY DEF KeptInv, StartInv, AccountsInv, AccountsMigrated
<1> QED BY <1>1, <1>2, <1>3, <1>4, <1>5 DEF StateKept

\* What the path of the state file names is whole and synced at every moment, what an Unlock
\* has acknowledged is on the disk, a missing reboot is waited for in no more than
\* MaxTentatives starts in a row, and the accounts of an old file are there when the daemon
\* runs: through every order of critical sections, failures of the disk, crashes, losses of
\* power and restarts (State.Unlock, AtomicFile, RestartManager.init, patch.Apply).
THEOREM StateIsKept == Spec => []StateKept
<1>1. Init => KeptInv
  BY FileInit, TypeInit, StartInit DEF KeptInv
<1>2. KeptInv /\ [Next]_vars => KeptInv'
  BY FileStep, StoreStep, LoopTypeStep, RestartTypeStep, StartStep DEF KeptInv
<1> QED BY <1>1, <1>2, KeptImplies, PTL DEF Spec

(***************************************************************************)
(* The ensure loop: a pass that was asked for.                             *)
(***************************************************************************)

\* Once the loop has reset its timer, the timer is armed until the loop takes its value.
TimerArmed == loop \notin {"gate", "reset", "dead"} => timer \in 0 .. Interval

InTimeInv == TimerArmed /\ EnsureInTime

\* EnsureBefore brings an armed timer forward, and never back.
LEMMA BroughtForward ==
  ASSUME LoopTyped, InTimeInv, NEW d \in 0 .. Interval, EnsureBefore(d)
  PROVE  InTimeInv'
<1>0. Interval \in Nat /\ loop' = loop
  BY DaemonAssumption DEF DaemonAssumption, EnsureBefore
<1>1. CASE loop \in {"gate", "reset", "dead"}
  BY <1>0, <1>1 DEF InTimeInv, TimerArmed, EnsureInTime
<1>2. CASE loop \notin {"gate", "reset", "dead"}
  <2>1. timer \in 0 .. Interval /\ timer' = IF d < timer THEN d ELSE timer
    BY <1>0, <1>2 DEF InTimeInv, TimerArmed, EnsureBefore, Off, Taken
  <2>2. TimerArmed'
    BY <1>0, <2>1 DEF TimerArmed
  <2>3. due' = IF due # Never /\ due <= d THEN due ELSE d
    BY <1>2 DEF EnsureBefore, Least
  <2>4. CASE loop = "ensure"
    BY <1>0, <2>2, <2>4 DEF InTimeInv, EnsureInTime
  <2>5. CASE loop # "ensure"
    <3>1. due # Never => timer \in 0 .. due
      BY <1>2, <2>5 DEF InTimeInv, EnsureInTime
    <3>2. timer' \in 0 .. due'
      BY <1>0, <2>1, <2>3, <3>1 DEF LoopTyped, Never
    <3> QED BY <2>2, <3>2 DEF InTimeInv, EnsureInTime
  <2> QED BY <2>4, <2>5
<1> QED BY <1>1, <1>2

LEMMA InTimeStep == FileInv /\ LoopTyped /\ InTimeInv /\ [Next]_vars => InTimeInv'
<1> SUFFICES ASSUME FileInv, LoopTyped, InTimeInv, [Next]_vars PROVE InTimeInv'
  OBVIOUS
<1>0. Interval \in Nat /\ 0 \in 0 .. Interval /\ Interval \in 0 .. Interval
      /\ Delays \subseteq 0 .. Interval
  BY DaemonAssumption DEF DaemonAssumption
<1>1. ASSUME UNCHANGED <<timer, due, loop>> PROVE InTimeInv'
  BY <1>1 DEF InTimeInv, TimerArmed, EnsureInTime
<1>2. ASSUME loop' \in {"gate", "reset", "dead"}
      PROVE  InTimeInv'
  BY <1>2 DEF InTimeInv, TimerArmed, EnsureInTime
<1>3. CASE (Starting \/ Checkpoint) /\ OfState
  BY <1>1, <1>3 DEF OfState, loopVars
<1>4. CASE GoingOn
  <2>1. CASE StartDaemon
    BY <1>1, <1>2, <2>1 DEF StartDaemon, loopVars
  <2>2. CASE ~StartDaemon
    BY <1>1, <1>4, <2>2
    DEF GoingOn, NewDaemon, AutoStartUnanswered, LeaveRun, ServicesStopped, KillTomb, StandbyGone,
        ShutdownEnds, EngineStops, StartFails, StartProcess, loopVars
  <2> QED BY <2>1, <2>2
<1>5. CASE Ending
  <2>1. loop' = "gate"
    BY <1>5 DEF Ending, RunReturns, Panics, Crash, Cut, SystemReboots, Ends
  <2> QED BY <1>2, <2>1
<1>6. CASE Working
  <2>1. CASE LoopEnsure
    BY <2>1 DEF LoopEnsure, InTimeInv, TimerArmed, EnsureInTime
  <2>2. CASE LoopPrune
    BY <1>2, <2>2 DEF LoopPrune
  <2>3. CASE Decide \/ ScheduleReboot \/ StandbyLook \/ StandbyAsk
               \/ \E t \in RestartTypes : AskRestart(t)
    BY <1>1, <2>3 DEF Decide, ScheduleReboot, StandbyLook, StandbyAsk, AskRestart, loopVars
  <2>4. CASE AutoStart \/ StopServices \/ MakeChange \/ \E c \in Changes : TaskDone(c)
    <3>1. EnsureBefore(0) \/ UNCHANGED <<timer, due, loop>>
      BY <2>4 DEF AutoStart, StopServices, MakeChange, TaskDone, loopVars
    <3> QED BY <1>0, <1>1, <3>1, BroughtForward
  <2> QED BY <1>6, <2>1, <2>2, <2>3, <2>4 DEF Working
<1>7. CASE Elsewhere
  <2>1. CASE LoopReset
    BY <1>0, <2>1 DEF LoopReset, InTimeInv, TimerArmed, EnsureInTime
  <2>2. CASE LoopEnsured
    BY <2>2 DEF LoopEnsured, InTimeInv, TimerArmed, EnsureInTime
  <2>3. CASE LoopTimer \/ LoopDies
    BY <1>2, <2>3 DEF LoopTimer, LoopDies
  \* The clock moves the timer and the moment it is due at together.
  <2>4. CASE Tick
    <3>1. CASE loop \in {"gate", "reset", "dead"}
      BY <1>2, <2>4, <3>1 DEF Tick
    <3>2. CASE loop \notin {"gate", "reset", "dead"}
      <4>1. timer \in 1 .. Interval /\ timer' = timer - 1 /\ loop' = loop
        BY <1>0, <2>4, <3>2 DEF Tick, InTimeInv, TimerArmed
      <4>2. TimerArmed'
        BY <1>0, <4>1 DEF TimerArmed
      <4>3. EnsureInTime'
        BY <1>0, <2>4, <3>2, <4>1 DEF Tick, InTimeInv, EnsureInTime, LoopTyped, Never
      <4> QED BY <4>2, <4>3 DEF InTimeInv
    <3> QED BY <3>1, <3>2
  <2>5. CASE Waiter
    BY <1>0, <2>5, BroughtForward DEF Waiter
  <2>6. CASE Enter \/ Signal \/ Connect \/ ConnState \/ ServeFails \/ StandbyTimer
               \/ StandbyStopped \/ (\E t \in RestartTypes : KeepRestart(t)) \/ UNCHANGED vars
    BY <1>1, <2>6
    DEF Enter, AutoStarted, EnterCommand, RestOfEnter, Signal, Connect, ConnState, ServeFails,
        StandbyTimer, StandbyStopped, KeepRestart, vars, loopVars
  <2> QED BY <1>7, <2>1, <2>2, <2>3, <2>4, <2>5, <2>6 DEF Elsewhere
<1> QED BY <1>3, <1>4, <1>5, <1>6, <1>7, NextCases

(***************************************************************************)
(* The standby.                                                            *)
(***************************************************************************)
ChangesOver == \A c \in Changes : mem.chg[c] \in {"none", "Clean"}

\* From Shutdown on no connection is accepted; and a process that goes on to stand by, once
\* it has looked again, has neither a connection nor a change.
IdleInv ==
  /\ main \in {"shutdown", "decide", "wait for loop", "end"} => serving = "shut"
  /\ main \in {"wait for loop", "end"} /\ stopping = "socket" => ~ConnsTracked /\ ChangesOver

\* The manager's pass, the pruning and the tasks do not open a change that is over.
LEMMA StaysOver ==
  ASSUME StoreTyped, ChangesOver, conn \notin {"new", "active"}, Working,
         ~AutoStart, ~StopServices
  PROVE  ChangesOver'
<1>0. mem.chg \in [Changes -> Statuses] /\ mem \in Snapshots
  BY DEF StoreTyped, Snapshots
<1>1. ASSUME mem'.chg = mem.chg PROVE ChangesOver'
  BY <1>1 DEF ChangesOver
<1>2. CASE Decide \/ StandbyLook \/ StandbyAsk
  BY <1>1, <1>2 DEF Decide, StandbyLook, StandbyAsk, Look, SameState
<1>3. CASE ScheduleReboot
  <2>1. mem' = mem \/ mem' = [mem EXCEPT !.at = TRUE]
    BY <1>3 DEF ScheduleReboot, Look, Update
  <2>2. mem'.chg = mem.chg
    BY <1>0, <2>1 DEF Snapshots
  <2> QED BY <1>1, <2>2
<1>4. CASE LoopEnsure
  <2>1. mem' = mem \/ mem' = Ensured(mem)
    BY <1>4 DEF LoopEnsure, Look, Update
  <2>2. CASE mem' = Ensured(mem)
    <3>1. mem'.chg = [c \in Changes |-> CASE mem.chg[c] = "Do" -> "Doing"
                                          [] mem.chg[c] = "Ready" -> "Clean"
                                          [] OTHER -> mem.chg[c]]
      BY <1>0, <2>2 DEF Ensured, Snapshots
    <3> QED BY <3>1 DEF ChangesOver
  <2> QED BY <1>1, <2>1, <2>2
<1>5. CASE LoopPrune
  <2>1. PICK c \in Changes : mem' = [mem EXCEPT !.chg[c] = "none"]
    BY <1>5 DEF LoopPrune, Update
  <2>2. mem'.chg = [mem.chg EXCEPT ![c] = "none"]
    BY <1>0, <2>1 DEF Snapshots
  <2> QED BY <1>0, <2>2 DEF ChangesOver
<1>6. ASSUME NEW c \in Changes PROVE ~TaskDone(c)
  BY DEF TaskDone, ChangesOver
<1>7. ~MakeChange
  BY DEF MakeChange
<1>8. CASE \E t \in RestartTypes : AskRestart(t)
  <2>1. mem' = mem \/ mem' = [mem EXCEPT !.from = boot]
    BY <1>8 DEF AskRestart, Update
  <2>2. mem'.chg = mem.chg
    BY <1>0, <2>1 DEF Snapshots
  <2> QED BY <1>1, <2>2
<1> QED BY <1>2, <1>3, <1>4, <1>5, <1>6, <1>7, <1>8 DEF Working

LEMMA IdleStep == FileInv /\ StoreTyped /\ IdleInv /\ [Next]_vars => IdleInv'
<1> SUFFICES ASSUME FileInv, StoreTyped, IdleInv, [Next]_vars PROVE IdleInv'
  OBVIOUS
<1> DEFINE Shutting == {"shutdown", "decide", "wait for loop", "end"}
<1>1. ASSUME main' \notin Shutting PROVE IdleInv'
  BY <1>1 DEF IdleInv
<1>2. ASSUME UNCHANGED <<main, serving, conn, stopping, mem>> PROVE IdleInv'
  BY <1>2 DEF IdleInv, ConnsTracked, ChangesOver
<1>3. CASE Starting /\ OfState
  BY <1>1, <1>3
  DEF Starting, LoadState, InitRestart, RebootAsExpected, RebootDidNotHappen, PatchInit, ApplyOne,
      LowerSublevel, PatchApplied
<1>4. CASE Checkpoint /\ OfState
  BY <1>2, <1>4
  DEF Checkpoint, CreateTemp, CopyData, SyncTemp, Rename, SyncDirectory, Cancel, RetryCheckpoint,
      Writing, OfState, httpVars, restartVars
<1>5. CASE Ending
  BY <1>1, <1>5
  DEF Ending, RunReturns, Panics, Crash, Cut, SystemReboots, Ends, ProcessEnds
<1>6. CASE GoingOn
  <2>1. CASE StandbyGone
    BY <2>1 DEF StandbyGone, IdleInv
  <2>2. CASE ShutdownEnds
    BY <2>2 DEF ShutdownEnds, IdleInv
  <2>3. CASE EngineStops
    BY <2>3
    DEF EngineStops, IdleInv, ConnsTracked, ChangesOver, restartVars, httpVars, SameState
  <2>4. CASE NewDaemon \/ StartDaemon \/ AutoStartUnanswered \/ LeaveRun \/ ServicesStopped
               \/ KillTomb \/ StartFails \/ StartProcess
    BY <1>1, <2>4
    DEF NewDaemon, StartDaemon, AutoStartUnanswered, LeaveRun, ServicesStopped, KillTomb,
        StartFails, StartProcess
  <2> QED BY <1>6, <2>1, <2>2, <2>3, <2>4 DEF GoingOn
<1>7. CASE Working
  \* It looks again, with the state locked.
  <2>1. CASE Decide
    BY <2>1
    DEF Decide, IdleInv, CanStandby, ConnsTracked, ChangesOver, Look, SameState, httpVars
  <2>2. CASE AutoStart \/ StopServices \/ ScheduleReboot
    BY <1>1, <2>2 DEF AutoStart, StopServices, ScheduleReboot
  <2>3. CASE ~Decide /\ ~AutoStart /\ ~StopServices /\ ~ScheduleReboot
    <3>1. UNCHANGED <<main, serving, conn, stopping>>
      BY <1>7, <2>3
      DEF Working, LoopEnsure, LoopPrune, StandbyLook, StandbyAsk, MakeChange, TaskDone,
          AskRestart, RestOfHttp, httpVars, restartVars
    <3>2. ChangesOver /\ ~ConnsTracked => ChangesOver'
      BY <1>7, <2>3, StaysOver DEF ConnsTracked
    <3> QED BY <3>1, <3>2 DEF IdleInv, ConnsTracked
  <2> QED BY <2>1, <2>2, <2>3
<1>8. CASE Elsewhere
  <2>1. UNCHANGED <<main, mem>>
    BY <1>8, ElsewhereSame DEF stateVars
  <2>2. UNCHANGED <<serving, stopping>>
    BY <1>8
    DEF Elsewhere, LoopReset, LoopEnsured, LoopTimer, LoopDies, Tick, Waiter, Enter, AutoStarted,
        EnterCommand, RestOfEnter, Signal, Connect, ConnState, ServeFails, RestOfHttp,
        StandbyTimer, StandbyStopped, KeepRestart, vars, httpVars, restartVars
  <2>3. CASE Connect \/ ConnState
    BY <2>1, <2>2, <2>3 DEF Connect, ConnState, IdleInv, ConnsTracked, ChangesOver
  <2>4. CASE ~Connect /\ ~ConnState
    <3>1. UNCHANGED conn
      BY <1>8, <2>4
      DEF Elsewhere, LoopReset, LoopEnsured, LoopTimer, LoopDies, Tick, Waiter, Enter,
          AutoStarted, EnterCommand, RestOfEnter, Signal, ServeFails, StandbyTimer,
          StandbyStopped, KeepRestart, vars, httpVars
    <3> QED BY <1>2, <2>1, <2>2, <3>1
  <2> QED BY <2>3, <2>4
<1> QED BY <1>3, <1>4, <1>5, <1>6, <1>7, <1>8, NextCases

(***************************************************************************)
(* The restart that was asked for.                                         *)
(***************************************************************************)
Over == main \in {"off", "exited"}
Known == {"service-failure", "check-failure"}

\* A type of restart is only kept when a HandleRestart brought it, and the only one that was
\* asked for is kept, or on its way to be.
AskedInv ==
  /\ Over => wanted = "unset" /\ stopping = "unset" /\ handler = {}
  /\ handler \subseteq asked
  /\ {wanted, stopping} \subseteq asked \cup {"unset", "daemon"}
  /\ \A t \in Known : ~Over /\ asked = {t} => t \in handler \/ wanted = t
  /\ main = "exited" =>
       /\ exit = 10 => "service-failure" \in asked
       /\ exit = 11 => "check-failure" \in asked
       /\ exit = 42 => "socket" \in asked

\* A request for a restart while the daemon is alive, or after.
LEMMA HandleKeeps ==
  ASSUME AskedInv, NEW t \in RestartTypes, HandleRestart(t), ~Over, ~Over',
         UNCHANGED <<wanted, stopping>>
  PROVE  AskedInv'
<1>1. CASE Alive
  <2>1. handler' = handler \cup {t} /\ asked' = asked \cup {t}
    BY <1>1 DEF HandleRestart
  <2>2. ASSUME NEW k \in Known, asked' = {k} PROVE k \in handler' \/ wanted' = k
    <3>1. CASE t = k
      BY <2>1, <3>1
    <3>2. CASE asked = {}
      BY <2>1, <2>2, <3>2
    <3>3. CASE asked # {}
      BY <2>1, <2>2, <3>3 DEF AskedInv
    <3> QED BY <3>2, <3>3
  <2> QED BY <2>1, <2>2 DEF AskedInv, Over
<1>2. CASE ~Alive
  <2>1. UNCHANGED <<handler, asked>>
    BY <1>2 DEF HandleRestart
  <2> QED BY <2>1 DEF AskedInv, Over
<1> QED BY <1>1, <1>2

LEMMA EndingKeeps ==
  ASSUME AskedInv, Ending
  PROVE  AskedInv'
<1>1. /\ wanted' = "unset" /\ stopping' = "unset" /\ handler' = {} /\ asked' = asked /\ Over'
  BY DEF Ending, RunReturns, Panics, Crash, Cut, SystemReboots, Ends, ProcessEnds, Over
<1>2. ASSUME main' = "exited", exit' \in {10, 11, 42}
      PROVE  exit' = ExitCode(stopping)
  BY <1>2 DEF Ending, RunReturns, Panics, Crash, Cut, SystemReboots, Ends, ProcessEnds, EarlyExit
<1>3. /\ ExitCode(stopping) = 10 => stopping = "service-failure"
      /\ ExitCode(stopping) = 11 => stopping = "check-failure"
      /\ ExitCode(stopping) = 42 => stopping = "socket"
  BY DEF ExitCode
<1>4. stopping \in asked \cup {"unset", "daemon"}
  BY DEF AskedInv
<1> QED BY <1>1, <1>2, <1>3, <1>4 DEF AskedInv

LEMMA AskedStep == FileInv /\ AskedInv /\ [Next]_vars => AskedInv'
<1> SUFFICES ASSUME FileInv, AskedInv, [Next]_vars PROVE AskedInv'
  OBVIOUS
<1>0. Over => ~Working
  BY WorkingMain DEF Over, BeforeStart
<1>1. ASSUME UNCHANGED <<wanted, handler, stopping, asked, exit>>, Over' => Over /\ main' = main,
             Over => Over'
      PROVE  AskedInv'
  BY <1>1 DEF AskedInv, Over
<1>2. CASE Starting /\ OfState
  <2>1. ~Over /\ ~Over'
    BY <1>2
    DEF Starting, LoadState, InitRestart, RebootAsExpected, RebootDidNotHappen, PatchInit,
        ApplyOne, LowerSublevel, PatchApplied, Over
  <2> QED BY <1>1, <1>2, <2>1 DEF OfState, restartVars, otherVars
<1>3. CASE Checkpoint /\ OfState
  <2>1. UNCHANGED main
    BY <1>3
    DEF Checkpoint, CreateTemp, CopyData, SyncTemp, Rename, SyncDirectory, Cancel,
        RetryCheckpoint, Writing
  <2> QED BY <1>1, <1>3, <2>1 DEF OfState, restartVars, otherVars, Over
<1>4. CASE GoingOn
  <2>1. CASE StartProcess
    <3>1. Over /\ ~Over' /\ main' # "exited" /\ asked' = {}
          /\ UNCHANGED <<wanted, handler, stopping>>
      BY <2>1 DEF StartProcess, Over
    <3> QED BY <3>1 DEF AskedInv
  <2>2. CASE KillTomb
    BY <2>2 DEF KillTomb, AskedInv, Over
  <2>3. CASE ~StartProcess /\ ~KillTomb
    BY <1>1, <1>4, <2>3
    DEF GoingOn, NewDaemon, StartDaemon, AutoStartUnanswered, LeaveRun, ServicesStopped,
        StandbyGone, ShutdownEnds, EngineStops, StartFails, RestOfStop, RestOfMain, restartVars,
        Over
  <2> QED BY <2>1, <2>2, <2>3
<1>5. CASE Ending
  BY <1>5, EndingKeeps
<1>6. CASE Working
  <2>0. ~Over /\ ~Over'
    BY <1>6, WorkingMain DEF Over, BeforeStart
  \* A decision that is taken back came from a request to stand by.
  <2>1. CASE Decide
    <3>1. CASE UNCHANGED <<wanted, stopping>>
      BY <1>1, <2>0, <2>1, <3>1 DEF Decide, RestOfStop, Over
    <3>2. CASE stopping = "socket" /\ wanted' = "daemon" /\ stopping' = "daemon"
      <4>1. "socket" \in asked /\ UNCHANGED <<handler, asked, exit>>
        BY <2>1, <3>2 DEF Decide, RestOfStop, AskedInv
      <4>2. \A t \in Known : asked # {t}
        BY <4>1 DEF Known
      <4> QED BY <2>0, <3>2, <4>1, <4>2 DEF AskedInv, Over
    <3> QED BY <2>1, <3>1, <3>2 DEF Decide
  <2>2. CASE StandbyAsk \/ \E t \in RestartTypes : AskRestart(t)
    <3>1. PICK t \in RestartTypes : HandleRestart(t)
      BY <2>2 DEF StandbyAsk, AskRestart, RestartTypes
    <3>2. UNCHANGED <<wanted, stopping>>
      BY <2>2 DEF StandbyAsk, AskRestart
    <3> QED BY <2>0, <3>1, <3>2, HandleKeeps
  <2>3. CASE AutoStart \/ StopServices \/ ScheduleReboot \/ LoopEnsure \/ LoopPrune
               \/ StandbyLook \/ MakeChange \/ \E c \in Changes : TaskDone(c)
    BY <1>1, <2>0, <2>3
    DEF AutoStart, StopServices, ScheduleReboot, LoopEnsure, LoopPrune, StandbyLook, MakeChange,
        TaskDone, RestOfHttp, RestOfStop, restartVars, otherVars
  <2> QED BY <1>6, <2>1, <2>2, <2>3 DEF Working
<1>7. CASE Elsewhere
  <2>1. UNCHANGED main
    BY <1>7, ElsewhereSame DEF stateVars
  <2>2. CASE \E t \in RestartTypes : KeepRestart(t)
    <3>1. PICK t \in RestartTypes : KeepRestart(t)
      BY <2>2
    <3>2. t \in handler /\ handler' = handler \ {t} /\ UNCHANGED <<stopping, asked, exit>>
          /\ wanted' = (IF t = "unknown" THEN wanted ELSE t)
      BY <3>1 DEF KeepRestart, otherVars
    <3>3. ~Over /\ t \in asked
      BY <3>2 DEF AskedInv
    <3>4. ASSUME NEW k \in Known, asked = {k} PROVE wanted' = k
      BY <3>2, <3>3, <3>4 DEF Known
    <3> QED BY <2>1, <3>2, <3>3, <3>4 DEF AskedInv, Over
  <2>3. CASE LoopReset \/ LoopEnsured \/ LoopTimer \/ LoopDies \/ Tick \/ Waiter
    BY <1>1, <2>1, <2>3
    DEF LoopReset, LoopEnsured, LoopTimer, LoopDies, Tick, Waiter, restartVars, otherVars, Over
  <2>4. CASE Enter \/ Signal \/ Connect \/ ConnState \/ ServeFails \/ StandbyTimer
               \/ StandbyStopped \/ UNCHANGED vars
    BY <1>1, <2>1, <2>4
    DEF Enter, AutoStarted, EnterCommand, RestOfEnter, Signal, Connect, ConnState, ServeFails,
        RestOfHttp, StandbyTimer, StandbyStopped, vars, restartVars, otherVars, Over
  <2> QED BY <1>7, <2>2, <2>3, <2>4 DEF Elsewhere
<1> QED BY <1>2, <1>3, <1>4, <1>5, <1>6, <1>7, NextCases

(***************************************************************************)
(* The theorems.                                                           *)
(***************************************************************************)

\* What StateFileProofs shows of the state is kept, and TypeOK with it.
LEMMA KeptAlways == Spec => [](FileInv /\ StoreTyped /\ LoopTyped)
<1>1. Init => KeptInv
  BY FileInit, TypeInit, StartInit DEF KeptInv
<1>2. KeptInv /\ [Next]_vars => KeptInv'
  BY FileStep, StoreStep, LoopTypeStep, RestartTypeStep, StartStep DEF KeptInv
<1>3. KeptInv => FileInv /\ StoreTyped /\ LoopTyped
  BY DEF KeptInv
<1> QED BY <1>1, <1>2, <1>3, PTL DEF Spec

\* A pass that was asked for within d comes within d, in whatever order EnsureBefore, the
\* reset of the timer, its expiry and the prune ticker come (Overlord.ensureBefore and
\* Overlord.loop).
THEOREM PassesComeInTime == Spec => []EnsureInTime
<1>1. Init => InTimeInv
  BY DEF Init, InTimeInv, TimerArmed, EnsureInTime
<1>2. FileInv /\ LoopTyped /\ InTimeInv /\ [Next]_vars => InTimeInv'
  BY InTimeStep
<1>3. InTimeInv => EnsureInTime
  BY DEF InTimeInv
<1> QED BY <1>1, <1>2, <1>3, KeptAlways, PTL DEF Spec

\* The daemon stands by only when no connection and no change is left, and its exit code
\* tells what was asked for: for every order of requests, signals, restarts of managers and
\* steps of the shutdown (Daemon.Stop, Daemon.HandleRestart, runDaemon).
THEOREM ExitIsTrue == Spec => []ExitTells
<1> DEFINE Inv == IdleInv /\ AskedInv
<1>1. Init => Inv
  BY DEF Init, IdleInv, AskedInv, Over
<1>2. FileInv /\ StoreTyped /\ Inv /\ [Next]_vars => Inv'
  BY IdleStep, AskedStep
<1>3. Inv => ExitTells
  <2> SUFFICES ASSUME Inv PROVE ExitTells
    OBVIOUS
  <2>1. StandsByIdle
    BY DEF IdleInv, StandsByIdle, ChangesOver
  <2>2. ASSUME NEW t \in Known, main = "end", asked = {t}, handler = {}, stopping = wanted
        PROVE  ExitCode(stopping) = ExitCode(t)
    BY <2>2 DEF AskedInv, Over
  <2> QED BY <2>1, <2>2 DEF AskedInv, ExitTells, Known
<1> HIDE DEF Inv
<1> QED BY <1>1, <1>2, <1>3, KeptAlways, PTL DEF Spec
=============================================================================
