-------------------------- MODULE TaskRunnerProofs --------------------------
(***************************************************************************)
(* Proofs about TaskRunner, for every set of tasks, changes and lanes.     *)
(***************************************************************************)
EXTENDS TaskRunner, WellFoundedInduction, TLAPS

(***************************************************************************)
(* A change of status keeps the types of what it assigns.                  *)
(***************************************************************************)
LEMMA ChangeStatusType ==
  ASSUME TypeOK, NEW t \in Task, NEW s \in Status, ChangeStatus(t, s)
  PROVE  /\ status' \in [Task -> Status]
         /\ ready' \in SUBSET Change
         /\ panicked' \in BOOLEAN
<1>1. status' \in [Task -> Status]
  BY DEF TypeOK, ChangeStatus
<1>2. ready' \in SUBSET Change
  BY StructureAssumption DEF StructureAssumption, TypeOK, ChangeStatus
<1>3. panicked' \in BOOLEAN
  BY DEF ChangeStatus
<1> QED BY <1>1, <1>2, <1>3

LEMMA SetStatusType ==
  ASSUME TypeOK, NEW t \in Task, NEW s \in Status, SetStatus(t, s)
  PROVE  /\ status' \in [Task -> Status]
         /\ ready' \in SUBSET Change
         /\ panicked' \in BOOLEAN
<1>1. (IF s = "Done" /\ status[t] = "Abort" THEN "Abort" ELSE s) \in Status
  BY DEF Status
<1> QED BY <1>1, ChangeStatusType DEF SetStatus

LEMMA TryUndoType ==
  ASSUME TypeOK, NEW t \in Task, TryUndo(t)
  PROVE  /\ status' \in [Task -> Status]
         /\ ready' \in SUBSET Change
         /\ panicked' \in BOOLEAN
         /\ wake' \in BOOLEAN
<1>1. "Hold" \in Status /\ "Undo" \in Status
  BY DEF Status
<1>2. CASE status[t] = "Abort" /\ t \notin HasUndo
  BY <1>1, <1>2, SetStatusType DEF TryUndo, EnsureBefore, TypeOK
<1>3. CASE ~(status[t] = "Abort" /\ t \notin HasUndo)
  BY <1>1, <1>3, SetStatusType DEF TryUndo, EnsureBefore, TypeOK
<1> QED BY <1>2, <1>3

(***************************************************************************)
(* The lanes of a task are lanes.                                          *)
(***************************************************************************)
LEMMA LanesOfType ==
  ASSUME NEW t \in Task
  PROVE  LanesOf(t) \subseteq Lane
BY StructureAssumption DEF StructureAssumption, LanesOf

LEMMA InitType == Init => TypeOK
<1> SUFFICES ASSUME Init PROVE TypeOK
  OBVIOUS
<1>1. status \in [Task -> Status] /\ waited \in [Task -> Status]
  BY DEF Init, Status
<1>2. /\ phase \in [Change -> {"new", "live", "gone"}]
      /\ tomb \in [Task -> {"none", "do", "undo", "cleanup"}]
      /\ queue \in [Task -> Nat]
  BY DEF Init
<1>3. stopped \in BOOLEAN /\ wake \in BOOLEAN /\ panicked \in BOOLEAN
  BY DEF Init
<1>4. /\ turn \in Nat /\ retries \in 0..MaxRetries
      /\ aborts \in 0..MaxAborts /\ restarts \in 0..MaxRestarts
  BY HandlerAssumption DEF HandlerAssumption, Init
<1> QED BY <1>1, <1>2, <1>3, <1>4 DEF Init, TypeOK

(***************************************************************************)
(* Every step keeps the types, one action at a time.                       *)
(***************************************************************************)
LEMMA NextType ==
  ASSUME TypeOK, [Next]_vars
  PROVE  TypeOK'
<1> USE StructureAssumption, HandlerAssumption DEF StructureAssumption, HandlerAssumption
<1>0. {"Done", "Undone", "Hold", "Error", "Undo", "Doing", "Undoing", "Wait"}
        \subseteq Status
  BY DEF Status
<1>1. ASSUME NEW c \in Change, NewChange(c) PROVE TypeOK'
  BY <1>1 DEF NewChange, TypeOK, EnsureBefore, runnerVars, ensureVars,
              abortVars, boundVars
<1>2. ASSUME NEW c \in Change, Abort(c) PROVE TypeOK'
  BY <1>2 DEF Abort, Abortable, TypeOK, EnsureBefore, taskVars, runnerVars,
              ensureVars
<1>3. ASSUME NEW c \in Change, PruneAbort(c) PROVE TypeOK'
  <2>1. lanesLeft' \in SUBSET Lane
    BY <1>3, LanesOfType DEF PruneAbort, TasksOf
  <2> QED BY <1>3, <2>1 DEF PruneAbort, TypeOK, taskVars, runnerVars, ensureVars
<1>4. ASSUME NEW c \in Change, Prune(c) PROVE TypeOK'
  BY <1>4 DEF Prune, TypeOK, runnerVars, ensureVars, abortVars, boundVars
<1>5. ASSUME EnsureBegin PROVE TypeOK'
  BY <1>5 DEF EnsureBegin, MayEnsure, TypeOK, taskVars, runnerVars, abortVars,
              boundVars
<1>6. ASSUME NEW t \in Task, EnsureKill(t) PROVE TypeOK'
  BY <1>6 DEF EnsureKill, Considered, TypeOK, taskVars, abortVars, boundVars
<1>7. ASSUME NEW t \in Task, EnsureTryUndo(t) PROVE TypeOK'
  BY <1>7, TryUndoType DEF EnsureTryUndo, TypeOK, runnerVars, abortVars, boundVars
<1>8. ASSUME NEW t \in Task, EnsureSkip(t) PROVE TypeOK'
  BY <1>8 DEF EnsureSkip, Considered, TypeOK, taskVars, runnerVars, abortVars,
              boundVars
<1>9. ASSUME NEW t \in Task, EnsureClean(t) PROVE TypeOK'
  BY <1>9 DEF EnsureClean, Considered, TypeOK, abortVars, boundVars
<1>10. ASSUME NEW t \in Task, EnsureCannotUndo(t) PROVE TypeOK'
  BY <1>0, <1>10, SetStatusType
  DEF EnsureCannotUndo, Considered, EnsureBefore, TypeOK, runnerVars, abortVars,
      boundVars
<1>11. ASSUME NEW t \in Task, EnsureRun(t) PROVE TypeOK'
  <2> DEFINE s == IF status[t] \in {"Do", "Doing"} THEN "Doing" ELSE "Undoing"
  <2>1. s \in Status /\ SetStatus(t, s)
    BY <1>0, <1>11 DEF EnsureRun
  <2> HIDE DEF s
  <2>2. status' \in [Task -> Status] /\ ready' \in SUBSET Change /\ panicked' \in BOOLEAN
    BY <2>1, SetStatusType
  <2> QED BY <1>11, <2>2 DEF EnsureRun, Considered, TypeOK, abortVars, boundVars
<1>12. ASSUME EnsureEnd PROVE TypeOK'
  BY <1>12 DEF EnsureEnd, TypeOK, taskVars, runnerVars, ensureVars, abortVars,
               boundVars
<1>13. ASSUME NEW t \in Task, HandlerDone(t) PROVE TypeOK'
  <2>1. /\ status' \in [Task -> Status] /\ ready' \in SUBSET Change
        /\ panicked' \in BOOLEAN /\ wake' \in BOOLEAN
    BY <1>0, <1>13, SetStatusType DEF HandlerDone, EnsureBefore, TypeOK
  <2> QED BY <1>13, <2>1 DEF HandlerDone, Returns, TypeOK, ensureVars, abortVars
<1>14. ASSUME NEW t \in Task, NEW after \in BOOLEAN, HandlerRetry(t, after)
       PROVE TypeOK'
  <2>1. /\ status' \in [Task -> Status] /\ ready' \in SUBSET Change
        /\ panicked' \in BOOLEAN /\ wake' \in BOOLEAN /\ later' \in SUBSET Task
    BY <1>14, TryUndoType DEF HandlerRetry, TypeOK
  <2>2. retries' \in 0..MaxRetries
    BY <1>14 DEF HandlerRetry, TypeOK
  <2>3. \E o \in {"retry", "error"} : Returns(t, o)
    BY <1>14 DEF HandlerRetry
  <2> QED BY <1>14, <2>1, <2>2, <2>3 DEF HandlerRetry, Returns, TypeOK, ensureVars,
                                         abortVars
<1>15. ASSUME NEW t \in Task, HandlerWait(t) PROVE TypeOK'
  <2>1. /\ status' \in [Task -> Status] /\ ready' \in SUBSET Change
        /\ panicked' \in BOOLEAN /\ wake' \in BOOLEAN
    BY <1>0, <1>15, TryUndoType, ChangeStatusType DEF HandlerWait, TypeOK
  <2>2. waited' \in [Task -> Status]
    <3> DEFINE w == IF tomb[t] = "do" THEN "Done" ELSE "Undone"
    <3>1. w \in Status
      BY <1>0
    <3>2. waited' = waited \/ waited' = [waited EXCEPT ![t] = w]
      BY <1>15 DEF HandlerWait
    <3>3. waited \in [Task -> Status]
      BY DEF TypeOK
    <3> HIDE DEF w
    <3> QED BY <3>1, <3>2, <3>3
  <2> QED BY <1>15, <2>1, <2>2 DEF HandlerWait, Returns, TypeOK, ensureVars, abortVars
<1>16. ASSUME NEW t \in Task, HandlerError(t) PROVE TypeOK'
  BY <1>16, LanesOfType DEF HandlerError, Returns, TypeOK, ensureVars
<1>17. ASSUME NEW t \in Task, TimeArrives(t) PROVE TypeOK'
  BY <1>17 DEF TimeArrives, EnsureBefore, TypeOK, runnerVars, ensureVars, abortVars,
               boundVars
<1>18. ASSUME NEW t \in Task, NEW ok \in BOOLEAN, CleanupReturns(t, ok) PROVE TypeOK'
  BY <1>18 DEF CleanupReturns, TypeOK, ensureVars, abortVars, boundVars
<1>19. ASSUME NEW t \in Task, AbortTask(t) PROVE TypeOK'
  <2>1. AbortedStatus(t) \in Status
    BY DEF AbortedStatus, EffectiveStatus, TypeOK, Status
  <2>2. status' \in [Task -> Status] /\ ready' \in SUBSET Change /\ panicked' \in BOOLEAN
    BY <1>19, <2>1, ChangeStatusType DEF AbortTask
  <2>3. queue' \in [Task -> Nat] /\ turn' \in Nat
    BY <1>19 DEF AbortTask, TypeOK
  <2> QED BY <1>19, <2>2, <2>3, LanesOfType DEF AbortTask, TypeOK, runnerVars,
                                                ensureVars, boundVars
<1>20. ASSUME AbortLanes PROVE TypeOK'
  BY <1>20 DEF AbortLanes, TypeOK, taskVars, runnerVars, ensureVars, boundVars
<1>21. ASSUME AbortEnd PROVE TypeOK'
  BY <1>21 DEF AbortEnd, ForgetAbort, TypeOK, taskVars, runnerVars, ensureVars,
               boundVars
<1>22. ASSUME ErrorEnd PROVE TypeOK'
  <2>1. failing \in Task
    BY <1>22 DEF ErrorEnd, TypeOK
  <2>2. status' \in [Task -> Status] /\ ready' \in SUBSET Change /\ panicked' \in BOOLEAN
    BY <1>0, <1>22, <2>1, SetStatusType DEF ErrorEnd
  <2>3. dying' \in SUBSET Task
    BY <1>22 DEF ErrorEnd, TasksOf, TypeOK
  <2> QED BY <1>22, <2>2, <2>3 DEF ErrorEnd, ForgetAbort, EnsureBefore, TypeOK, ensureVars,
                                   boundVars
<1>23. ASSUME Stop PROVE TypeOK'
  BY <1>23 DEF Stop, TypeOK, taskVars, ensureVars, abortVars, boundVars
<1>24. ASSUME Restart PROVE TypeOK'
  <2>1. tomb' \in [Task -> {"none", "do", "undo", "cleanup"}]
    BY <1>24 DEF Restart
  <2>2. restarts' \in 0..MaxRestarts
    BY <1>24 DEF Restart, TypeOK
  <2> QED BY <1>24, <2>1, <2>2 DEF Restart, TypeOK, ensureVars, abortVars
<1>25. CASE UNCHANGED vars
  BY <1>25 DEF vars, taskVars, runnerVars, ensureVars, abortVars, boundVars, TypeOK
<1> QED
  BY <1>1, <1>2, <1>3, <1>4, <1>5, <1>6, <1>7, <1>8, <1>9, <1>10, <1>11, <1>12,
     <1>13, <1>14, <1>15, <1>16, <1>17, <1>18, <1>19, <1>20, <1>21, <1>22, <1>23,
     <1>24, <1>25
  DEF Next, EnsureStep, HandlerReturns, AbortStep

(***************************************************************************)
(* Every reachable state has the declared types, for every set of tasks,   *)
(* changes and lanes.                                                      *)
(***************************************************************************)
THEOREM TypeCorrect == Spec => []TypeOK
BY InitType, NextType, PTL DEF Spec

-----------------------------------------------------------------------------
(***************************************************************************)
(* The ready channel.  The invariant that implies ReadyIffSettled says in  *)
(* addition that nothing happens to a task before its change is made: a    *)
(* change that is new is not ready, and all its tasks are to do.           *)
(***************************************************************************)
Made(t) == phase[ChangeOf[t]] # "new"

NothingBeforeMade ==
  /\ \A c \in ready : phase[c] # "new"
  /\ \A t \in Task : status[t] # "Do" \/ tomb[t] # "none" \/ InQueue(t) => Made(t)
  /\ \A t \in visit : Made(t)
  /\ subject # NoChange => phase[subject] # "new"
  /\ failing # NoTask => Made(failing)

ReadyInv == TypeOK /\ NothingBeforeMade /\ ReadyIffSettled

(***************************************************************************)
(* detectChangeReady keeps the channel exact: it looks at the other tasks  *)
(* of the change and at the status that the task had and gets.             *)
(***************************************************************************)
LEMMA ChangeStatusReady ==
  ASSUME ReadyInv, NEW t \in Task, NEW s \in Status, Made(t), ChangeStatus(t, s),
         UNCHANGED phase
  PROVE  /\ ReadyIffSettled'
         /\ \A c \in ready' : phase'[c] # "new"
         /\ \A u \in Task : status'[u] # "Do" => Made(u)'
<1> USE DEF ReadyInv
<1>0. /\ status \in [Task -> Status] /\ ChangeOf \in [Task -> Change]
      /\ status' = [status EXCEPT ![t] = s]
      /\ \A u \in Task : status'[u] = IF u = t THEN s ELSE status[u]
  BY StructureAssumption DEF StructureAssumption, TypeOK, ChangeStatus
<1>1. \A c \in ready' : phase'[c] # "new"
  BY <1>0 DEF ChangeStatus, NothingBeforeMade, Made
<1>2. \A u \in Task : status'[u] # "Do" => Made(u)'
  BY <1>0 DEF NothingBeforeMade, Made
<1>3. ASSUME ~panicked', NEW c \in Change, phase'[c] = "live"
      PROVE  c \in ready' <=> AllReady(c)'
  <2>1. ~panicked
    BY <1>3 DEF ChangeStatus
  <2>2. c \in ready <=> AllReady(c)
    BY <1>3, <2>1 DEF ReadyIffSettled
  <2>3. CASE c # ChangeOf[t]
    <3>1. AllReady(c)' <=> AllReady(c)
      BY <1>0, <2>3 DEF AllReady, TasksOf
    <3>2. c \in ready' <=> c \in ready
      BY <2>3 DEF ChangeStatus
    <3> QED BY <2>2, <3>1, <3>2
  <2>4. CASE c = ChangeOf[t]
    <3>1. AllReady(c) <=> IsReady(status[t]) /\ SettledOthers(t)
      BY <2>4 DEF AllReady, SettledOthers, TasksOf
    <3>2. AllReady(c)' <=> IsReady(s) /\ SettledOthers(t)
      BY <1>0, <2>4 DEF AllReady, SettledOthers, TasksOf
    <3>3. CASE IsReady(s) # IsReady(status[t]) /\ SettledOthers(t)
      <4>1. ready' = ready \cup {c} /\ (~IsReady(s) => c \notin ready)
        BY <1>3, <2>4, <3>3 DEF ChangeStatus
      <4>2. IsReady(s) \in BOOLEAN /\ IsReady(status[t]) \in BOOLEAN
        BY DEF IsReady
      <4> QED BY <2>2, <3>1, <3>2, <3>3, <4>1, <4>2
    <3>4. CASE ~(IsReady(s) # IsReady(status[t]) /\ SettledOthers(t))
      <4>1. ready' = ready
        BY <3>4 DEF ChangeStatus
      <4>2. AllReady(c)' <=> AllReady(c)
        BY <3>1, <3>2, <3>4 DEF IsReady
      <4> QED BY <2>2, <4>1, <4>2
    <3> QED BY <3>3, <3>4
  <2> QED BY <2>3, <2>4
<1> QED BY <1>1, <1>2, <1>3 DEF ReadyIffSettled

LEMMA SetStatusReady ==
  ASSUME ReadyInv, NEW t \in Task, NEW s \in Status, Made(t), SetStatus(t, s),
         UNCHANGED phase
  PROVE  /\ ReadyIffSettled'
         /\ \A c \in ready' : phase'[c] # "new"
         /\ \A u \in Task : status'[u] # "Do" => Made(u)'
<1>1. (IF s = "Done" /\ status[t] = "Abort" THEN "Abort" ELSE s) \in Status
  BY DEF Status
<1> QED BY <1>1, ChangeStatusReady DEF SetStatus

LEMMA TryUndoReady ==
  ASSUME ReadyInv, NEW t \in Task, Made(t), TryUndo(t), UNCHANGED phase
  PROVE  /\ ReadyIffSettled'
         /\ \A c \in ready' : phase'[c] # "new"
         /\ \A u \in Task : status'[u] # "Do" => Made(u)'
<1>1. "Hold" \in Status /\ "Undo" \in Status
  BY DEF Status
<1>2. SetStatus(t, "Hold") \/ SetStatus(t, "Undo")
  BY DEF TryUndo
<1>3. CASE SetStatus(t, "Hold")
  BY <1>1, <1>3, SetStatusReady
<1>4. CASE SetStatus(t, "Undo")
  BY <1>1, <1>4, SetStatusReady
<1> QED BY <1>2, <1>3, <1>4

(***************************************************************************)
(* A step that changes no status, no channel and no change.                *)
(***************************************************************************)
LEMMA SameStatusReady ==
  ASSUME ReadyInv, UNCHANGED <<status, ready, phase>>, panicked => panicked'
  PROVE  /\ ReadyIffSettled'
         /\ \A c \in ready' : phase'[c] # "new"
         /\ \A u \in Task : status'[u] # "Do" => Made(u)'
<1>1. ReadyIffSettled'
  BY DEF ReadyInv, ReadyIffSettled, AllReady
<1> QED BY <1>1 DEF ReadyInv, NothingBeforeMade, Made

LEMMA InitReady == Init => ReadyInv
<1> SUFFICES ASSUME Init PROVE ReadyInv
  OBVIOUS
<1>1. NothingBeforeMade
  BY DEF Init, NothingBeforeMade, InQueue
<1>2. ReadyIffSettled
  BY DEF Init, ReadyIffSettled
<1> QED BY <1>1, <1>2, InitType DEF ReadyInv

(***************************************************************************)
(* Every step keeps the invariant, one action at a time.                   *)
(***************************************************************************)
LEMMA NextReady ==
  ASSUME ReadyInv, [Next]_vars
  PROVE  ReadyInv'
<1> USE StructureAssumption DEF StructureAssumption
<1> DEFINE Statuses == /\ ReadyIffSettled'
                       /\ \A c \in ready' : phase'[c] # "new"
                       /\ \A u \in Task : status'[u] # "Do" => Made(u)'
           Others == /\ \A t \in Task : tomb'[t] # "none" \/ InQueue(t)' => Made(t)'
                     /\ \A t \in visit' : Made(t)'
                     /\ subject' # NoChange => phase'[subject'] # "new"
                     /\ failing' # NoTask => Made(failing)'
<1>a. TypeOK /\ TypeOK' /\ NothingBeforeMade
  BY NextType DEF ReadyInv
<1>b. {"Done", "Undone", "Hold", "Error", "Undo", "Doing", "Undoing", "Wait"}
        \subseteq Status
  BY DEF Status
<1>c. SUFFICES Statuses /\ Others
  BY <1>a DEF ReadyInv, NothingBeforeMade
<1>d. ASSUME UNCHANGED <<phase, tomb, queue, visit, subject, failing>> PROVE Others
  BY <1>a, <1>d DEF NothingBeforeMade, Made, InQueue
<1>1. ASSUME NEW c \in Change, NewChange(c) PROVE Statuses /\ Others
  <2>1. phase' = [phase EXCEPT ![c] = "live"] /\ phase[c] = "new"
        /\ phase \in [Change -> {"new", "live", "gone"}]
        /\ UNCHANGED <<status, ready, tomb, queue, visit, subject, failing, panicked>>
    BY <1>a, <1>1 DEF NewChange, TypeOK, runnerVars, ensureVars, abortVars
  <2>2. \A t \in Task : Made(t) => Made(t)'
    BY <2>1 DEF Made
  <2>3. Others
    BY <1>a, <2>1, <2>2 DEF NothingBeforeMade, InQueue, TypeOK
  <2>4. c \notin ready /\ ~AllReady(c)
    BY <1>a, <2>1, ChangeAssumption DEF NothingBeforeMade, AllReady, TasksOf, Made, IsReady
  <2>5. ReadyIffSettled'
    BY <2>1, <2>4 DEF ReadyInv, ReadyIffSettled, AllReady
  <2> QED BY <1>a, <2>1, <2>2, <2>3, <2>5 DEF NothingBeforeMade, TypeOK
<1>2. ASSUME NEW c \in Change, Abort(c) PROVE Statuses /\ Others
  <2>1. Statuses
    BY <1>2, SameStatusReady DEF Abort, taskVars
  <2>2. Others
    BY <1>a, <1>2 DEF Abort, Abortable, taskVars, runnerVars, ensureVars,
                      NothingBeforeMade, Made, InQueue
  <2> QED BY <2>1, <2>2
<1>3. ASSUME NEW c \in Change, PruneAbort(c) PROVE Statuses /\ Others
  <2>1. Statuses
    BY <1>3, SameStatusReady DEF PruneAbort, taskVars
  <2>2. Others
    BY <1>a, <1>3 DEF PruneAbort, taskVars, runnerVars, ensureVars,
                      NothingBeforeMade, Made, InQueue
  <2> QED BY <2>1, <2>2
<1>4. ASSUME NEW c \in Change, Prune(c) PROVE Statuses /\ Others
  <2>1. phase' = [phase EXCEPT ![c] = "gone"]
        /\ phase \in [Change -> {"new", "live", "gone"}]
        /\ UNCHANGED <<status, ready, tomb, queue, visit, subject, failing, panicked>>
    BY <1>a, <1>4 DEF Prune, TypeOK, runnerVars, ensureVars, abortVars
  <2>2. \A t \in Task : Made(t) => Made(t)'
    BY <2>1 DEF Made
  <2>3. Others
    BY <1>a, <2>1, <2>2 DEF NothingBeforeMade, InQueue, TypeOK
  <2>4. ReadyIffSettled'
    BY <2>1 DEF ReadyInv, ReadyIffSettled, AllReady
  <2> QED BY <1>a, <2>1, <2>2, <2>3, <2>4 DEF NothingBeforeMade, TypeOK
<1>5. ASSUME EnsureBegin PROVE Statuses /\ Others
  <2>1. Statuses
    BY <1>5, SameStatusReady DEF EnsureBegin, taskVars
  <2>2. Others
    BY <1>a, <1>5 DEF EnsureBegin, taskVars, runnerVars, abortVars,
                      NothingBeforeMade, Made, InQueue, Linked
  <2> QED BY <2>1, <2>2
<1>6. ASSUME NEW t \in Task, EnsureKill(t) \/ EnsureSkip(t) \/ EnsureClean(t)
      PROVE Statuses /\ Others
  <2>1. t \in visit /\ visit' = visit \ {t} /\ UNCHANGED <<phase, queue, subject, failing>>
        /\ UNCHANGED <<status, ready, panicked>>
        /\ (UNCHANGED tomb \/ tomb' = [tomb EXCEPT ![t] = "cleanup"])
    BY <1>6 DEF EnsureKill, EnsureSkip, EnsureClean, Considering, Considered, taskVars,
                runnerVars, abortVars
  <2>2. Statuses
    BY <2>1, SameStatusReady
  <2>3. Others
    BY <1>a, <2>1 DEF NothingBeforeMade, Made, InQueue, TypeOK
  <2> QED BY <2>2, <2>3
<1>7. ASSUME NEW t \in Task, EnsureTryUndo(t) PROVE Statuses /\ Others
  <2>1. Made(t)
    BY <1>a, <1>7 DEF EnsureTryUndo, Considering, NothingBeforeMade
  <2>2. Statuses
    BY <1>7, <2>1, TryUndoReady DEF EnsureTryUndo
  <2> QED BY <1>7, <1>d, <2>2 DEF EnsureTryUndo, runnerVars, abortVars
<1>8. ASSUME NEW t \in Task, EnsureCannotUndo(t) \/ EnsureRun(t) PROVE Statuses /\ Others
  <2>1. Made(t)
    BY <1>a, <1>8 DEF EnsureCannotUndo, EnsureRun, Considering, NothingBeforeMade
  <2>2. \E s \in Status : SetStatus(t, s)
    BY <1>b, <1>8 DEF EnsureCannotUndo, EnsureRun
  <2>3. visit' = visit \ {t} /\ UNCHANGED <<phase, queue, subject, failing>>
        /\ (UNCHANGED tomb \/ \E x : tomb' = [tomb EXCEPT ![t] = x])
    BY <1>8 DEF EnsureCannotUndo, EnsureRun, Considered, runnerVars, abortVars
  <2>4. Statuses
    BY <2>1, <2>2, <2>3, SetStatusReady
  <2>5. Others
    BY <1>a, <2>1, <2>3 DEF NothingBeforeMade, Made, InQueue, TypeOK
  <2> QED BY <2>4, <2>5
<1>9. ASSUME EnsureEnd PROVE Statuses /\ Others
  <2>1. Statuses
    BY <1>9, SameStatusReady DEF EnsureEnd, taskVars
  <2> QED BY <1>9, <1>d, <2>1 DEF EnsureEnd, taskVars, runnerVars, ensureVars, abortVars
<1>10. ASSUME NEW t \in Task, HandlerReturns(t) PROVE Statuses /\ Others
  <2>1. PICK o : Returns(t, o)
    BY <1>10 DEF HandlerReturns, HandlerDone, HandlerRetry, HandlerWait, HandlerError
  <2>2. Made(t) /\ UNCHANGED <<phase, visit>> /\ tomb' = [tomb EXCEPT ![t] = "none"]
    BY <1>a, <2>1 DEF Returns, NothingBeforeMade, ensureVars
  <2>3. Statuses
    <3>1. CASE HandlerDone(t)
      <4>1. \E s \in Status : SetStatus(t, s)
        BY <1>b, <3>1 DEF HandlerDone
      <4> QED BY <2>2, <4>1, SetStatusReady
    <3>2. CASE \E after \in BOOLEAN : HandlerRetry(t, after)
      <4>1. TryUndo(t) \/ UNCHANGED <<status, ready, panicked>>
        BY <3>2 DEF HandlerRetry
      <4>2. CASE TryUndo(t)
        BY <2>2, <4>2, TryUndoReady
      <4>3. CASE UNCHANGED <<status, ready, panicked>>
        BY <2>2, <4>3, SameStatusReady
      <4> QED BY <4>1, <4>2, <4>3
    <3>3. CASE HandlerWait(t)
      <4>1. TryUndo(t) \/ ChangeStatus(t, "Wait")
        BY <3>3 DEF HandlerWait
      <4>2. CASE TryUndo(t)
        BY <2>2, <4>2, TryUndoReady
      <4>3. CASE ChangeStatus(t, "Wait")
        BY <1>b, <2>2, <4>3, ChangeStatusReady
      <4> QED BY <4>1, <4>2, <4>3
    <3>4. CASE HandlerError(t)
      BY <2>2, <3>4, SameStatusReady DEF HandlerError
    <3> QED BY <1>10, <3>1, <3>2, <3>3, <3>4 DEF HandlerReturns
  <2>4. \/ UNCHANGED <<queue, subject, failing>>
        \/ UNCHANGED queue /\ subject' = ChangeOf[t] /\ failing' = t
    BY <1>10 DEF HandlerReturns, HandlerDone, HandlerRetry, HandlerWait, HandlerError,
                 abortVars
  <2>5. Others
    BY <1>a, <2>2, <2>4 DEF NothingBeforeMade, Made, InQueue, TypeOK
  <2> QED BY <2>3, <2>5
<1>11. ASSUME NEW t \in Task, TimeArrives(t) PROVE Statuses /\ Others
  <2>1. Statuses
    BY <1>11, SameStatusReady DEF TimeArrives
  <2> QED BY <1>11, <1>d, <2>1 DEF TimeArrives, runnerVars, ensureVars, abortVars
<1>12. ASSUME NEW t \in Task, NEW ok \in BOOLEAN, CleanupReturns(t, ok)
       PROVE Statuses /\ Others
  <2>1. Statuses
    BY <1>12, SameStatusReady DEF CleanupReturns
  <2>2. Others
    BY <1>a, <1>12 DEF CleanupReturns, ensureVars, abortVars, NothingBeforeMade, Made,
                       InQueue, TypeOK
  <2> QED BY <2>1, <2>2
<1>13. ASSUME NEW t \in Task, AbortTask(t) PROVE Statuses /\ Others
  <2>1. Made(t) /\ UNCHANGED phase
    BY <1>a, <1>13 DEF AbortTask, NothingBeforeMade
  <2>2. AbortedStatus(t) \in Status
    BY <1>a DEF AbortedStatus, EffectiveStatus, TypeOK, Status
  <2>3. Statuses
    BY <1>13, <2>1, <2>2, ChangeStatusReady DEF AbortTask
  <2>4. \A u \in HaltTasks(t) : Made(u)
    BY <2>1 DEF HaltTasks, Made
  <2>5. \A u \in Task : InQueue(u)' => InQueue(u) \/ u \in HaltTasks(t)
    BY <1>13 DEF AbortTask, InQueue
  <2>6. Others
    BY <1>a, <1>13, <2>1, <2>4, <2>5 DEF AbortTask, NothingBeforeMade, Made, runnerVars,
                                         ensureVars
  <2> QED BY <2>3, <2>6
<1>14. ASSUME AbortLanes PROVE Statuses /\ Others
  <2>1. Statuses
    BY <1>14, SameStatusReady DEF AbortLanes, taskVars
  <2>2. \A u \in Task : InQueue(u)' => u \in TasksOf(subject)
    BY <1>14 DEF AbortLanes, InQueue, LaneTasks
  <2>3. \A u \in Task : InQueue(u)' => Made(u)
    BY <1>a, <2>2 DEF TasksOf, NothingBeforeMade, Made
  <2>4. Others
    BY <1>a, <1>14, <2>3 DEF AbortLanes, taskVars, runnerVars, ensureVars,
                             NothingBeforeMade, Made
  <2> QED BY <2>1, <2>4
<1>15. ASSUME AbortEnd PROVE Statuses /\ Others
  <2>1. Statuses
    BY <1>15, SameStatusReady DEF AbortEnd, taskVars
  <2>2. Others
    BY <1>a, <1>15 DEF AbortEnd, ForgetAbort, taskVars, runnerVars, ensureVars,
                       NothingBeforeMade, Made, InQueue
  <2> QED BY <2>1, <2>2
<1>16. ASSUME ErrorEnd PROVE Statuses /\ Others
  <2>1. failing \in Task /\ Made(failing) /\ UNCHANGED phase
    BY <1>a, <1>16 DEF ErrorEnd, TypeOK, NothingBeforeMade
  <2>2. Statuses
    BY <1>b, <1>16, <2>1, SetStatusReady DEF ErrorEnd
  <2>3. Others
    BY <1>a, <1>16 DEF ErrorEnd, ForgetAbort, ensureVars, NothingBeforeMade, Made, InQueue
  <2> QED BY <2>2, <2>3
<1>17. ASSUME Stop PROVE Statuses /\ Others
  <2>1. Statuses
    BY <1>17, SameStatusReady DEF Stop, taskVars
  <2> QED BY <1>17, <1>d, <2>1 DEF Stop, taskVars, ensureVars, abortVars
<1>18. ASSUME Restart PROVE Statuses /\ Others
  <2>1. UNCHANGED <<status, phase, visit, queue, subject, failing, panicked>>
        /\ tomb' = [t \in Task |-> "none"]
        /\ ready' = {c \in Change : phase[c] = "live" /\ AllReady(c)}
    BY <1>18 DEF Restart, ensureVars, abortVars
  <2>2. ReadyIffSettled'
    BY <2>1 DEF ReadyIffSettled, AllReady
  <2> QED BY <1>a, <2>1, <2>2 DEF NothingBeforeMade, Made, InQueue
<1>19. ASSUME UNCHANGED vars PROVE Statuses /\ Others
  <2>1. Statuses
    BY <1>19, SameStatusReady DEF vars, taskVars
  <2> QED BY <1>19, <1>d, <2>1 DEF vars, taskVars, runnerVars, ensureVars, abortVars
<1> HIDE DEF Statuses, Others
<1> QED
  BY <1>1, <1>2, <1>3, <1>4, <1>5, <1>6, <1>7, <1>8, <1>9, <1>10, <1>11, <1>12, <1>13,
     <1>14, <1>15, <1>16, <1>17, <1>18, <1>19
  DEF Next, EnsureStep, AbortStep

(***************************************************************************)
(* The ready channel of a change is closed exactly when its tasks are all  *)
(* ready, in every reachable state short of a panic, for every set of      *)
(* tasks, changes and lanes.                                               *)
(***************************************************************************)
THEOREM ReadyExact == Spec => []ReadyIffSettled
<1>1. ReadyInv => ReadyIffSettled
  BY DEF ReadyInv
<1> QED BY InitReady, NextReady, <1>1, PTL DEF Spec

(***************************************************************************)
(* What an abort reaches in TaskRunner, for every set of tasks, changes    *)
(* and lanes: the tasks that wait for one that is aborted, and the whole   *)
(* lane of a task that failed, but nothing that is not tied to it.         *)
(*                                                                         *)
(* The first is also why no wakeup is lost.  A task that may run is woken  *)
(* by whoever completes the last task it waits for; but an undo that       *)
(* cannot be made sets a task back to Done without a wakeup for those that *)
(* wait for it.  They are on hold by then.                                 *)
(***************************************************************************)

\* A task that was never run has no goroutine and is not scheduled for later.
DoIsFresh == \A t \in Task : status[t] = "Do" => tomb[t] = "none" /\ t \notin later

NoAbort == lock # "abort" => (\A t \in Task : ~InQueue(t)) /\ seen = {} /\ failing = NoTask

\* What an abort makes of a task.
Given == {"Abort", "Undo", "Undoing", "Undone", "Hold", "Error"}
GivenUp(t) == status[t] \in Given \cup {"Wait"}

\* The abort follows the waiting tasks: those of a task that it has taken are in the work
\* list if it has not taken them too.
SeenAborted ==
  \A t \in seen : GivenUp(t) /\ \A h \in HaltTasks(t) : h \in seen \/ InQueue(h)

\* The task whose error is the reason is itself taken, with those of the same lanes.
LaneMates(t) == {u \in TasksOf(ChangeOf[t]) : Lanes[u] = Lanes[t]}
FailingTaken ==
  failing # NoTask =>
    \/ \A u \in LaneMates(failing) : u \in seen \/ InQueue(u)
    \/ /\ \A t \in Task : ~InQueue(t)
       /\ seen = {} /\ lanesLeft = LanesOf(failing) /\ subject = ChangeOf[failing]

\* Once a task is aborted, undone, on hold or failed, those that wait for it never start.
GivenUpHolds ==
  \A w \in Task : status[w] \in Given =>
    \A h \in HaltTasks(w) : status[h] # "Do" \/ InQueue(h)

HoldInv == DoIsFresh /\ NoAbort /\ SeenAborted /\ FailingTaken /\ GivenUpHolds

\* A task that may run has a pass to come, or is still to be visited by this one.
MayRun(t) == Linked(t) /\ status[t] = "Do" /\ \A w \in WaitTasks[t] : status[w] = "Done"
Woken == \A t \in Task : MayRun(t) => stopped \/ wake \/ (lock = "ensure" /\ t \in visit)

(***************************************************************************)
(* Steps outside an abort.                                                 *)
(***************************************************************************)
LEMMA StatusIs ==
  ASSUME TypeOK, NEW t \in Task, NEW s, ChangeStatus(t, s)
  PROVE  \A u \in Task : status'[u] = IF u = t THEN s ELSE status[u]
BY DEF ChangeStatus, TypeOK

\* What an operation outside the abort does to one task keeps those that wait for it on hold.
LEMMA OneStatus ==
  ASSUME HoldInv, lock # "abort", lock' # "abort", UNCHANGED <<queue, seen, failing>>,
         NEW t \in Task, NEW s, s # "Do",
         \A u \in Task : status'[u] = IF u = t THEN s ELSE status[u],
         s \in Given => status[t] \in Given
  PROVE  NoAbort' /\ SeenAborted' /\ FailingTaken' /\ GivenUpHolds'
<1>1. \A u \in Task : ~InQueue(u) /\ ~InQueue(u)'
  BY DEF HoldInv, NoAbort, InQueue
<1>2. seen' = {} /\ failing' = NoTask
  BY DEF HoldInv, NoAbort
<1>3. GivenUpHolds'
  BY <1>1 DEF HoldInv, GivenUpHolds, HaltTasks
<1> QED BY <1>1, <1>2, <1>3 DEF NoAbort, SeenAborted, FailingTaken

LEMMA SameStatus ==
  ASSUME HoldInv, lock # "abort", lock' # "abort",
         UNCHANGED <<queue, seen, failing, status>>
  PROVE  NoAbort' /\ SeenAborted' /\ FailingTaken' /\ GivenUpHolds'
<1>1. \A u \in Task : ~InQueue(u) /\ ~InQueue(u)'
  BY DEF HoldInv, NoAbort, InQueue
<1>2. seen' = {} /\ failing' = NoTask
  BY DEF HoldInv, NoAbort
<1>3. GivenUpHolds'
  BY <1>1 DEF HoldInv, GivenUpHolds, HaltTasks
<1> QED BY <1>1, <1>2, <1>3 DEF NoAbort, SeenAborted, FailingTaken

\* A status that is not Done makes no task runnable; a pass that leaves a task out has seen
\* that it may not run.
LEMMA OneWoken ==
  ASSUME Woken, UNCHANGED <<phase, stopped>>, wake => wake', lock' = lock,
         NEW t \in Task, NEW s, s # "Do",
         \A u \in Task : status'[u] = IF u = t THEN s ELSE status[u],
         s = "Done" => wake' \/ \A h \in HaltTasks(t) : status[h] # "Do",
         visit \ {t} \subseteq visit'
  PROVE  Woken'
<1> SUFFICES ASSUME NEW u \in Task, MayRun(u)'
               PROVE  (stopped \/ wake \/ (lock = "ensure" /\ u \in visit))'
  BY DEF Woken
<1>1. u # t /\ status[u] = "Do" /\ Linked(u)
  BY DEF MayRun, Linked
<1>2. CASE \E w \in WaitTasks[u] : w = t /\ s = "Done"
  <2>1. u \in HaltTasks(t)
    BY <1>2 DEF HaltTasks
  <2> QED BY <1>1, <1>2, <2>1
<1>3. CASE ~\E w \in WaitTasks[u] : w = t /\ s = "Done"
  <2>1. WaitTasks[u] \subseteq Task
    BY StructureAssumption DEF StructureAssumption
  <2>2. \A w \in WaitTasks[u] : status[w] = "Done"
    BY <1>3, <2>1 DEF MayRun
  <2>3. MayRun(u)
    BY <1>1, <2>2 DEF MayRun
  <2> QED BY <1>1, <2>3 DEF Woken
<1> QED BY <1>2, <1>3

LEMMA SameWoken ==
  ASSUME Woken, UNCHANGED <<status, phase, stopped>>, wake => wake',
         lock' = lock \/ lock # "ensure",
         \A t \in visit \ visit' : ~MayRun(t)
  PROVE  Woken'
BY DEF Woken, MayRun, Linked

\* The steps of SetStatus and TryUndo, outside the abort.
LEMMA SetStatusIs ==
  ASSUME TypeOK, NEW t \in Task, NEW s, SetStatus(t, s), status[t] # "Abort" \/ s # "Done"
  PROVE  \A u \in Task : status'[u] = IF u = t THEN s ELSE status[u]
BY StatusIs DEF SetStatus

LEMMA TryUndoIs ==
  ASSUME TypeOK, NEW t \in Task, TryUndo(t)
  PROVE  /\ \E s \in {"Hold", "Undo"} :
              \A u \in Task : status'[u] = IF u = t THEN s ELSE status[u]
         /\ wake => wake'
<1>1. CASE SetStatus(t, "Hold")
  BY <1>1, SetStatusIs DEF TryUndo, EnsureBefore
<1>2. CASE SetStatus(t, "Undo")
  BY <1>2, SetStatusIs DEF TryUndo, EnsureBefore
<1> QED BY <1>1, <1>2 DEF TryUndo

LEMMA InitWake == Init => HoldInv /\ Woken
<1> SUFFICES ASSUME Init PROVE HoldInv /\ Woken
  OBVIOUS
<1>1. Woken
  <2>1. \A t \in Task : ~Linked(t)
    BY StructureAssumption DEF StructureAssumption, Init, Linked
  <2> QED BY <2>1 DEF Woken, MayRun
<1>2. HoldInv
  BY DEF Init, HoldInv, DoIsFresh, NoAbort, SeenAborted, FailingTaken, GivenUpHolds, Given,
         InQueue
<1> QED BY <1>1, <1>2

(***************************************************************************)
(* The steps of an abort.                                                  *)
(***************************************************************************)
LEMMA AbortTaskKeeps ==
  ASSUME TypeOK, HoldInv, Woken, NEW t \in Task, AbortTask(t)
  PROVE  HoldInv' /\ Woken'
<1> DEFINE s == AbortedStatus(t)
<1>1. s # "Do" /\ s # "Done" /\ s \in Given \cup {"Wait"}
  BY DEF AbortedStatus, EffectiveStatus, Given, TypeOK, Status
<1>2. \A u \in Task : status'[u] = IF u = t THEN s ELSE status[u]
  BY StatusIs DEF AbortTask
<1> HIDE DEF s
<1>3. /\ lock = "abort" /\ lock' = lock /\ seen' = seen \cup {t} /\ InQueue(t)
      /\ UNCHANGED <<tomb, later, phase, stopped, wake, visit, failing>>
  BY DEF AbortTask, Holds, runnerVars, ensureVars
<1>4. DoIsFresh'
  BY <1>1, <1>2, <1>3 DEF HoldInv, DoIsFresh
<1>5. NoAbort'
  BY <1>3 DEF NoAbort
\* The work list grows by the tasks that wait for t, and loses only t.
<1>6. \A h \in HaltTasks(t) : h \in seen' \/ InQueue(h)'
  <2> TAKE h \in HaltTasks(t)
  <2>1. h \in Task
    BY DEF HaltTasks
  <2>2. CASE h = t
    BY <1>3, <2>2
  <2>3. CASE h # t /\ h \notin seen
    BY <2>1, <2>3 DEF AbortTask, InQueue, TypeOK
  <2>4. CASE h \in seen
    BY <1>3, <2>4
  <2> QED BY <2>2, <2>3, <2>4
<1>7. \A u \in Task : InQueue(u) => InQueue(u)' \/ u = t
  BY DEF AbortTask, InQueue, TypeOK
<1>8. SeenAborted'
  <2> SUFFICES ASSUME NEW u \in seen'
               PROVE  GivenUp(u)' /\ \A h \in HaltTasks(u) : h \in seen' \/ InQueue(h)'
    BY DEF SeenAborted, HaltTasks
  <2>1. u \in Task /\ HaltTasks(u) \subseteq Task
    BY <1>3 DEF HaltTasks, TypeOK
  <2>2. CASE u = t
    BY <1>1, <1>2, <1>6, <2>1, <2>2 DEF GivenUp
  <2>3. CASE u # t
    BY <1>2, <1>3, <1>7, <2>1, <2>3 DEF HoldInv, SeenAborted, GivenUp
  <2> QED BY <2>2, <2>3
<1>9. FailingTaken'
  <2>1. failing # NoTask => \A u \in LaneMates(failing) : u \in seen \/ InQueue(u)
    BY <1>3 DEF HoldInv, FailingTaken
  <2>2. \A u \in LaneMates(failing) : u \in Task
    BY DEF LaneMates, TasksOf
  <2> QED BY <1>3, <1>7, <2>1, <2>2 DEF FailingTaken
<1>10. GivenUpHolds'
  <2> SUFFICES ASSUME NEW w \in Task, status'[w] \in Given,
                      NEW h \in HaltTasks(w), status'[h] = "Do"
               PROVE  InQueue(h)'
    BY DEF GivenUpHolds, HaltTasks
  <2>1. h \in Task /\ h # t /\ status[h] = "Do"
    BY <1>1, <1>2 DEF HaltTasks
  <2>2. CASE w = t
    <3>1. h \notin seen'
      BY <1>3, <2>1 DEF HoldInv, SeenAborted, GivenUp, Given
    <3> QED BY <1>6, <2>2, <3>1
  <2>3. CASE w # t
    <3>1. InQueue(h)
      BY <1>2, <2>1, <2>3 DEF HoldInv, GivenUpHolds
    <3> QED BY <1>7, <2>1, <3>1
  <2> QED BY <2>2, <2>3
<1>11. Woken'
  BY <1>1, <1>2, <1>3, OneWoken
<1> QED BY <1>4, <1>5, <1>8, <1>9, <1>10, <1>11 DEF HoldInv

LEMMA HasLane ==
  ASSUME NEW t \in Task
  PROVE  LanesOf(t) # {}
<1>1. Lanes[t] \in Seq(Lane) /\ Lanes[t] # <<>>
  BY StructureAssumption DEF StructureAssumption
<1>2. Len(Lanes[t]) # 0 /\ Len(Lanes[t]) \in Nat /\ DOMAIN Lanes[t] = 1 .. Len(Lanes[t])
  BY <1>1
<1>3. 1 \in DOMAIN Lanes[t]
  BY <1>2
<1> QED BY <1>3 DEF LanesOf

\* No lane in L is tracked, so none of them is found healthy: a task all of whose lanes are
\* in L is taken.
LEMMA OwnLanesTaken ==
  ASSUME NEW f \in Task, subject = ChangeOf[f], NEW t \in LaneMates(f)
  PROVE  t \in LaneTasks(LanesOf(f))
<1>0. t \in Task /\ LanesOf(f) = LanesOf(t) /\ ChangeOf[t] = subject
  BY DEF LaneMates, TasksOf, LanesOf
<1>1. LanesOf(t) # {}
  BY <1>0, HasLane
<1>2. ASSUME NEW l \in LanesOf(t), NEW u \in Task, l \in Tracked(u, LanesOf(t)) PROVE FALSE
  <2>1. PICK i \in DOMAIN Lanes[u] :
          Lanes[u][i] = l /\ \A j \in 1..i : Lanes[u][j] \notin LanesOf(t)
    BY <1>2 DEF Tracked
  <2>2. i \in 1..i
    <3>1. Lanes[u] \in Seq(Lane)
      BY StructureAssumption DEF StructureAssumption
    <3> QED BY <3>1, <2>1
  <2> QED BY <2>1, <2>2
<1>3. \A l \in LanesOf(t) : ~Healthy(l, LanesOf(t))
  BY <1>2 DEF Healthy, TasksOf
<1> QED BY <1>0, <1>1, <1>3 DEF LaneTasks, TasksOf

LEMMA AbortLanesKeeps ==
  ASSUME TypeOK, HoldInv, Woken, AbortLanes
  PROVE  HoldInv' /\ Woken'
<1>1. /\ lock = "abort" /\ lock' = lock
      /\ UNCHANGED <<seen, failing, subject, status, tomb, later>>
      /\ UNCHANGED <<phase, stopped, wake, visit>> /\ \A t \in Task : ~InQueue(t)
      /\ \A t \in Task : InQueue(t)' <=> t \in LaneTasks(lanesLeft) \ seen
  BY DEF AbortLanes, Holds, InQueue, taskVars, runnerVars, ensureVars
<1>2. DoIsFresh' /\ NoAbort'
  BY <1>1 DEF HoldInv, DoIsFresh, NoAbort
<1>3. SeenAborted' /\ GivenUpHolds'
  <2>1. \A t \in Task : HaltTasks(t) \subseteq Task
    BY DEF HaltTasks
  <2>2. seen \subseteq Task
    BY DEF TypeOK
  <2> QED BY <1>1, <2>1, <2>2 DEF HoldInv, SeenAborted, GivenUpHolds, GivenUp, HaltTasks
<1>4. FailingTaken'
  <2> SUFFICES ASSUME failing # NoTask
               PROVE  \A u \in LaneMates(failing) : u \in seen \/ InQueue(u)'
    BY <1>1 DEF FailingTaken
  <2>1. failing \in Task /\ \A u \in LaneMates(failing) : u \in Task
    BY DEF TypeOK, LaneMates, TasksOf
  <2>2. \/ \A u \in LaneMates(failing) : u \in seen
        \/ seen = {} /\ lanesLeft = LanesOf(failing) /\ subject = ChangeOf[failing]
    BY <1>1, <2>1 DEF HoldInv, FailingTaken
  <2> QED BY <1>1, <2>1, <2>2, OwnLanesTaken
<1>5. Woken'
  BY <1>1, SameWoken
<1> QED BY <1>2, <1>3, <1>4, <1>5 DEF HoldInv

LEMMA MatesTaken ==
  ASSUME TypeOK, HoldInv, ErrorEnd
  PROVE  failing \in Task /\ \A u \in LaneMates(failing) : u \in seen
<1>1. failing \in Task /\ lanesLeft = {} /\ \A u \in Task : ~InQueue(u)
  BY DEF ErrorEnd, AbortOver, TypeOK
<1>2. \A u \in LaneMates(failing) : u \in Task
  BY DEF LaneMates, TasksOf
<1> QED BY <1>1, <1>2, HasLane DEF ErrorEnd, HoldInv, FailingTaken

\* When the work list is empty the abort has taken all that it reached.
LEMMA ForgetKeeps ==
  ASSUME TypeOK, HoldInv, Woken, AbortEnd \/ ErrorEnd
  PROVE  HoldInv' /\ Woken'
<1>1. /\ lock = "abort" /\ lock' = "free" /\ seen' = {} /\ failing' = NoTask
      /\ \A t \in Task : ~InQueue(t) /\ ~InQueue(t)'
      /\ UNCHANGED <<tomb, later, phase, stopped, visit>> /\ (wake => wake')
  <2>1. AbortOver /\ ForgetAbort
    BY DEF AbortEnd, ErrorEnd
  <2>2. UNCHANGED <<tomb, later, phase, stopped, visit>>
    BY DEF AbortEnd, ErrorEnd, taskVars, runnerVars, ensureVars
  <2>3. \A t \in Task : ~InQueue(t)'
    BY <2>1 DEF ForgetAbort, InQueue
  <2>4. wake => wake'
    BY Zenon DEF AbortEnd, ErrorEnd, EnsureBefore
  <2> QED BY <2>1, <2>2, <2>3, <2>4 DEF AbortOver, ForgetAbort, Holds
<1>2. NoAbort' /\ SeenAborted' /\ FailingTaken'
  BY <1>1 DEF NoAbort, SeenAborted, FailingTaken
<1>3. CASE AbortEnd
  <2>1. UNCHANGED status
    BY <1>3 DEF AbortEnd, taskVars
  <2>2. DoIsFresh' /\ GivenUpHolds'
    BY <1>1, <2>1 DEF HoldInv, DoIsFresh, GivenUpHolds, HaltTasks
  <2>3. Woken'
    BY <1>1, <2>1, SameWoken
  <2> QED BY <1>2, <2>2, <2>3 DEF HoldInv
<1>4. CASE ErrorEnd
  <2>1. failing \in Task /\ failing \in seen
    BY <1>4, MatesTaken DEF LaneMates, TasksOf, ErrorEnd, TypeOK
  <2>2. \A u \in Task : status'[u] = IF u = failing THEN "Error" ELSE status[u]
    BY <1>4, <2>1, SetStatusIs DEF ErrorEnd
  <2>3. DoIsFresh'
    BY <1>1, <2>1, <2>2 DEF HoldInv, DoIsFresh
  <2>4. \A h \in HaltTasks(failing) : status[h] # "Do"
    BY <1>1, <2>1 DEF HoldInv, SeenAborted, HaltTasks, GivenUp, Given
  <2>5. GivenUpHolds'
    BY <1>1, <2>1, <2>2, <2>4 DEF HoldInv, GivenUpHolds, HaltTasks
  <2>6. Woken'
    <3> SUFFICES ASSUME NEW u \in Task, MayRun(u)' PROVE stopped' \/ wake'
      BY DEF Woken
    <3>1. MayRun(u)
      <4>1. WaitTasks[u] \subseteq Task /\ u # failing
        BY <2>2, StructureAssumption DEF MayRun, StructureAssumption
      <4> QED BY <1>1, <2>2, <4>1 DEF MayRun, Linked
    <3> QED BY <1>1, <3>1 DEF Woken
  <2> QED BY <1>2, <2>3, <2>5, <2>6 DEF HoldInv
<1> QED BY <1>3, <1>4

(***************************************************************************)
(* Every step, one action at a time.                                       *)
(***************************************************************************)
LEMMA NextWake ==
  ASSUME TypeOK, HoldInv, Woken, [Next]_vars
  PROVE  HoldInv' /\ Woken'
<1>a. ASSUME lock # "abort", lock' # "abort",
             UNCHANGED <<queue, seen, failing, status, phase, stopped>>,
             wake => wake', lock' = lock \/ lock # "ensure",
             \A t \in visit \ visit' : ~MayRun(t), DoIsFresh'
      PROVE  HoldInv' /\ Woken'
  BY <1>a, SameStatus, SameWoken DEF HoldInv
<1>b. ASSUME lock # "abort", lock' = lock, UNCHANGED <<queue, seen, failing, phase, stopped>>,
             wake => wake',
             NEW t \in Task, NEW s, s # "Do",
             \A u \in Task : status'[u] = IF u = t THEN s ELSE status[u],
             s \in Given => status[t] \in Given,
             s = "Done" => wake' \/ \A h \in HaltTasks(t) : status[h] # "Do",
             visit \ {t} \subseteq visit',
             \A u \in Task : u # t => tomb'[u] \in {tomb[u], "none"},
             later' \subseteq later \cup {t}
      PROVE  HoldInv' /\ Woken'
  <2>1. NoAbort' /\ SeenAborted' /\ FailingTaken' /\ GivenUpHolds'
    BY <1>b, OneStatus
  <2>2. Woken'
    BY <1>b, OneWoken
  <2>3. DoIsFresh'
    BY <1>b DEF HoldInv, DoIsFresh
  <2> QED BY <2>1, <2>2, <2>3 DEF HoldInv
<1>1. ASSUME NEW c \in Change, NewChange(c) PROVE HoldInv' /\ Woken'
  <2>1. lock = "free" /\ lock' = "free" /\ UNCHANGED <<queue, seen, failing, status, tomb, later>>
    BY <1>1 DEF NewChange, Holds, runnerVars, abortVars
  <2>2. wake'
    BY <1>1 DEF NewChange, EnsureBefore
  <2>3. DoIsFresh'
    BY <2>1 DEF HoldInv, DoIsFresh
  <2> QED BY <2>1, <2>2, <2>3, SameStatus DEF HoldInv, Woken
<1>2. ASSUME NEW c \in Change, Abort(c) PROVE HoldInv' /\ Woken'
  <2>1. /\ lock = "free" /\ lock' = "abort" /\ seen = {} /\ failing = NoTask
        /\ \A t \in Task : ~InQueue(t)
        /\ UNCHANGED <<status, tomb, later, seen, failing>>
    BY <1>2 DEF Abort, Holds, taskVars, runnerVars, abortVars, HoldInv, NoAbort
  <2>2. wake'
    BY <1>2 DEF Abort, EnsureBefore
  <2>3. GivenUpHolds'
    BY <2>1 DEF HoldInv, GivenUpHolds, HaltTasks
  <2> QED BY <2>1, <2>2, <2>3 DEF HoldInv, DoIsFresh, NoAbort, SeenAborted, FailingTaken, Woken
<1>3. ASSUME NEW c \in Change, PruneAbort(c) PROVE HoldInv' /\ Woken'
  <2>1. /\ lock = "free" /\ lock' = "abort" /\ seen = {} /\ failing = NoTask
        /\ \A t \in Task : ~InQueue(t)
        /\ UNCHANGED <<status, tomb, later, seen, failing, queue, phase, stopped, wake, visit>>
    BY <1>3 DEF PruneAbort, Holds, taskVars, runnerVars, ensureVars, abortVars, HoldInv, NoAbort
  <2>2. GivenUpHolds'
    BY <2>1 DEF HoldInv, GivenUpHolds, HaltTasks
  <2>3. Woken'
    BY <2>1, SameWoken
  <2> QED BY <2>1, <2>2, <2>3 DEF HoldInv, DoIsFresh, NoAbort, SeenAborted, FailingTaken
<1>4. ASSUME NEW c \in Change, Prune(c) PROVE HoldInv' /\ Woken'
  <2>1. /\ lock = "free" /\ lock' = "free"
        /\ UNCHANGED <<queue, seen, failing, status, tomb, later, stopped, wake, visit>>
    BY <1>4 DEF Prune, Holds, runnerVars, ensureVars, abortVars
  <2>2. \A t \in Task : Linked(t)' => Linked(t)
    BY <1>4 DEF Prune, Linked, TypeOK
  <2>3. Woken'
    BY <2>1, <2>2 DEF Woken, MayRun
  <2>4. DoIsFresh'
    BY <2>1 DEF HoldInv, DoIsFresh
  <2> QED BY <2>1, <2>3, <2>4, SameStatus DEF HoldInv
\* The pass takes back the wakeup, and visits every task that is linked.
<1>5. ASSUME EnsureBegin PROVE HoldInv' /\ Woken'
  <2>1. /\ lock = "free" /\ lock' = "ensure" /\ visit' = {t \in Task : Linked(t)}
        /\ UNCHANGED <<queue, seen, failing, status, tomb, later, phase>>
    BY <1>5 DEF EnsureBegin, MayEnsure, Holds, taskVars, runnerVars, abortVars
  <2>2. Woken'
    BY <2>1 DEF Woken, MayRun, Linked
  <2>3. DoIsFresh'
    BY <2>1 DEF HoldInv, DoIsFresh
  <2> QED BY <2>1, <2>2, <2>3, SameStatus DEF HoldInv
<1>6. ASSUME NEW t \in Task, EnsureKill(t) \/ EnsureSkip(t) \/ EnsureClean(t)
      PROVE  HoldInv' /\ Woken'
  <2>1. /\ lock = "ensure" /\ lock' = lock /\ visit' = visit \ {t}
        /\ UNCHANGED <<queue, seen, failing, status, later, phase, stopped, wake>>
        /\ \A u \in Task : u # t => tomb'[u] = tomb[u]
    BY <1>6
    DEF EnsureKill, EnsureSkip, EnsureClean, Considering, Considered, Holds, taskVars, runnerVars,
        abortVars, TypeOK
  <2>2. status[t] = "Do" => ~EnsureKill(t) /\ ~EnsureClean(t)
    BY DEF EnsureKill, EnsureClean, Cleanable, IsReady
  <2>3. ASSUME EnsureSkip(t) PROVE ~MayRun(t) /\ UNCHANGED tomb
    <3>1. status[t] = "Do" => tomb[t] = "none" /\ t \notin later
      BY DEF HoldInv, DoIsFresh
    <3>2. MayRun(t) => Runnable(t)
      BY <3>1 DEF MayRun, Runnable, Idle, MustWait
    <3> QED BY <2>3, <3>1, <3>2 DEF EnsureSkip, MayRun, runnerVars
  <2>4. ~MayRun(t)
    BY <1>6, <2>2, <2>3 DEF MayRun
  <2>5. DoIsFresh'
    BY <1>6, <2>1, <2>2, <2>3 DEF HoldInv, DoIsFresh
  <2> QED BY <1>a, <2>1, <2>4, <2>5
<1>7. ASSUME NEW t \in Task, EnsureTryUndo(t) PROVE HoldInv' /\ Woken'
  <2>1. /\ lock = "ensure" /\ lock' = lock /\ status[t] = "Abort"
        /\ UNCHANGED <<queue, seen, failing, later, phase, stopped, tomb, visit>>
    BY <1>7 DEF EnsureTryUndo, Considering, Holds, runnerVars, abortVars
  <2>2. (wake => wake') /\ \E s \in {"Hold", "Undo"} :
          \A u \in Task : status'[u] = IF u = t THEN s ELSE status[u]
    BY <1>7, TryUndoIs DEF EnsureTryUndo
  <2> QED BY <1>b, <2>1, <2>2 DEF Given
\* The tasks that wait for one that cannot be undone are on hold: nobody has to be woken.
<1>8. ASSUME NEW t \in Task, EnsureCannotUndo(t) PROVE HoldInv' /\ Woken'
  <2>1. /\ lock = "ensure" /\ lock' = lock /\ status[t] = "Undo" /\ visit' = visit \ {t}
        /\ UNCHANGED <<queue, seen, failing, later, phase, stopped, tomb>>
    BY <1>8
    DEF EnsureCannotUndo, CannotUndo, Considering, Considered, Holds, runnerVars, abortVars
  <2>2. wake => wake'
    BY <1>8 DEF EnsureCannotUndo, EnsureBefore
  <2>3. \A u \in Task : status'[u] = IF u = t THEN "Done" ELSE status[u]
    BY <1>8, <2>1, SetStatusIs DEF EnsureCannotUndo
  <2>4. \A h \in HaltTasks(t) : status[h] # "Do"
    BY <2>1 DEF HoldInv, GivenUpHolds, Given, NoAbort, HaltTasks
  <2> QED BY <1>b, <2>1, <2>2, <2>3, <2>4 DEF Given
<1>9. ASSUME NEW t \in Task, EnsureRun(t) PROVE HoldInv' /\ Woken'
  <2>1. /\ lock = "ensure" /\ lock' = lock /\ visit' = visit \ {t}
        /\ UNCHANGED <<queue, seen, failing, later, phase, stopped, wake>>
        /\ \A u \in Task : u # t => tomb'[u] = tomb[u]
    BY <1>9 DEF EnsureRun, Considering, Considered, Holds, abortVars, TypeOK
  <2>2. CASE status[t] \in {"Do", "Doing"}
    <3>1. SetStatus(t, "Doing")
      BY <1>9, <2>2 DEF EnsureRun
    <3>2. \A u \in Task : status'[u] = IF u = t THEN "Doing" ELSE status[u]
      BY <3>1, SetStatusIs
    <3> QED BY <1>b, <2>1, <3>2 DEF Given
  <2>3. CASE status[t] \notin {"Do", "Doing"}
    <3>1. SetStatus(t, "Undoing") /\ status[t] \in Given
      BY <1>9, <2>3 DEF EnsureRun, Runnable, Given
    <3>2. \A u \in Task : status'[u] = IF u = t THEN "Undoing" ELSE status[u]
      BY <3>1, SetStatusIs
    <3> QED BY <1>b, <2>1, <3>1, <3>2
  <2> QED BY <2>2, <2>3
<1>10. ASSUME EnsureEnd PROVE HoldInv' /\ Woken'
  <2>1. /\ lock = "ensure" /\ lock' = "free" /\ visit = {} /\ visit' = visit
        /\ UNCHANGED <<queue, seen, failing, status, tomb, later, phase, stopped, wake>>
    BY <1>10 DEF EnsureEnd, Holds, taskVars, runnerVars, ensureVars, abortVars
  <2>2. Woken' /\ DoIsFresh'
    BY <2>1 DEF HoldInv, DoIsFresh, Woken, MayRun, Linked
  <2> QED BY <2>1, <2>2, SameStatus DEF HoldInv
<1>11. ASSUME NEW t \in Task, HandlerReturns(t) PROVE HoldInv' /\ Woken'
  <2>1. PICK o : Returns(t, o)
    BY <1>11 DEF HandlerReturns, HandlerDone, HandlerRetry, HandlerWait, HandlerError
  <2>2. /\ lock = "free" /\ tomb[t] \in {"do", "undo"} /\ UNCHANGED <<phase, stopped, visit>>
        /\ tomb' = [tomb EXCEPT ![t] = "none"]
        /\ \A u \in Task : tomb'[u] \in {tomb[u], "none"}
    BY <2>1 DEF Returns, Holds, ensureVars, TypeOK
  <2>3. status[t] # "Do"
    BY <2>2 DEF HoldInv, DoIsFresh
  <2>4. CASE HandlerDone(t)
    <3>1. lock' = lock /\ UNCHANGED <<queue, seen, failing, later>>
      BY <2>4 DEF HandlerDone, abortVars
    <3>2. CASE status[t] = "Doing"
      <4>1. SetStatus(t, "Done") /\ EnsureBefore(HaltTasks(t) # {})
        BY <2>4, <3>2 DEF HandlerDone
      <4>2. \A u \in Task : status'[u] = IF u = t THEN "Done" ELSE status[u]
        BY <3>2, <4>1, SetStatusIs
      <4>3. (wake => wake') /\ (wake' \/ HaltTasks(t) = {})
        BY <4>1 DEF EnsureBefore
      <4> QED BY <1>b, <2>2, <3>1, <4>2, <4>3 DEF Given
    <3>3. CASE status[t] # "Doing"
      <4>1. PICK s \in {"Undo", "Undone"} : SetStatus(t, s)
        BY <2>4, <3>3 DEF HandlerDone
      <4>2. \A u \in Task : status'[u] = IF u = t THEN s ELSE status[u]
        BY <4>1, SetStatusIs
      <4>3. (wake => wake') /\ status[t] \in Given
        BY <2>4, <3>3 DEF HandlerDone, EnsureBefore, Given
      <4> QED BY <1>b, <2>2, <3>1, <4>2, <4>3
    <3> QED BY <3>2, <3>3
  <2>5. CASE (\E after \in BOOLEAN : HandlerRetry(t, after)) \/ HandlerWait(t)
    <3>1. lock' = lock /\ UNCHANGED <<queue, seen, failing>> /\ later' \subseteq later \cup {t}
      BY <2>5 DEF HandlerRetry, HandlerWait, abortVars
    <3>2. CASE status[t] = "Abort"
      <4>1. TryUndo(t)
        BY <2>5, <3>2 DEF HandlerRetry, HandlerWait
      <4>2. (wake => wake') /\ \E s \in {"Hold", "Undo"} :
              \A u \in Task : status'[u] = IF u = t THEN s ELSE status[u]
        BY <4>1, TryUndoIs
      <4> QED BY <1>b, <2>2, <3>1, <3>2, <4>2 DEF Given
    <3>3. CASE status[t] # "Abort" /\ HandlerWait(t)
      <4>1. ChangeStatus(t, "Wait") /\ wake' = wake
        BY <3>3 DEF HandlerWait
      <4>2. \A u \in Task : status'[u] = IF u = t THEN "Wait" ELSE status[u]
        BY <4>1, StatusIs
      <4> QED BY <1>b, <2>2, <3>1, <4>1, <4>2 DEF Given
    <3>4. CASE status[t] # "Abort" /\ ~HandlerWait(t)
      <4>1. UNCHANGED <<status, wake>>
        BY <2>5, <3>4 DEF HandlerRetry
      <4>2. DoIsFresh'
        BY <2>2, <2>3, <3>1, <4>1 DEF HoldInv, DoIsFresh
      <4> QED BY <1>a, <2>2, <3>1, <4>1, <4>2
    <3> QED BY <3>2, <3>3, <3>4
  <2>6. CASE HandlerError(t)
    <3>1. /\ lock' = "abort" /\ failing' = t /\ subject' = ChangeOf[t] /\ lanesLeft' = LanesOf(t)
          /\ seen = {} /\ seen' = {} /\ \A u \in Task : ~InQueue(u) /\ ~InQueue(u)'
          /\ UNCHANGED <<status, later, wake>>
      BY <2>2, <2>6 DEF HandlerError, HoldInv, NoAbort, InQueue
    <3>2. DoIsFresh' /\ NoAbort' /\ SeenAborted'
      BY <2>2, <3>1 DEF HoldInv, DoIsFresh, NoAbort, SeenAborted
    <3>3. FailingTaken'
      BY <3>1 DEF FailingTaken, LanesOf
    <3>4. GivenUpHolds'
      BY <3>1 DEF HoldInv, GivenUpHolds, HaltTasks
    <3>5. Woken'
      BY <2>2, <3>1, SameWoken
    <3> QED BY <3>2, <3>3, <3>4, <3>5 DEF HoldInv
  <2> QED BY <1>11, <2>4, <2>5, <2>6 DEF HandlerReturns
<1>12. ASSUME NEW t \in Task, TimeArrives(t) \/ \E ok \in BOOLEAN : CleanupReturns(t, ok)
       PROVE  HoldInv' /\ Woken'
  <2>1. /\ lock = "free" /\ lock' = lock
        /\ UNCHANGED <<queue, seen, failing, status, phase, stopped, visit>>
        /\ later' \subseteq later /\ \A u \in Task : tomb'[u] \in {tomb[u], "none"}
    BY <1>12
    DEF TimeArrives, CleanupReturns, Holds, runnerVars, ensureVars, abortVars, TypeOK
  <2>2. wake => wake'
    BY <1>12 DEF TimeArrives, CleanupReturns, EnsureBefore
  <2>3. DoIsFresh'
    BY <2>1 DEF HoldInv, DoIsFresh
  <2> QED BY <1>a, <2>1, <2>2, <2>3
<1>13. ASSUME Stop PROVE HoldInv' /\ Woken'
  <2>1. /\ lock = "free" /\ lock' = lock /\ stopped'
        /\ UNCHANGED <<queue, seen, failing, status, tomb, later>>
    BY <1>13 DEF Stop, Holds, taskVars, abortVars
  <2>2. Woken' /\ DoIsFresh'
    BY <2>1 DEF HoldInv, DoIsFresh, Woken
  <2> QED BY <2>1, <2>2, SameStatus DEF HoldInv
<1>14. ASSUME Restart PROVE HoldInv' /\ Woken'
  <2>1. /\ lock = "free" /\ lock' = lock /\ wake'
        /\ UNCHANGED <<queue, seen, failing, status, later>>
        /\ tomb' = [t \in Task |-> "none"]
    BY <1>14 DEF Restart, Holds, abortVars
  <2>2. Woken' /\ DoIsFresh'
    BY <2>1 DEF HoldInv, DoIsFresh, Woken
  <2> QED BY <2>1, <2>2, SameStatus DEF HoldInv
<1>15. CASE UNCHANGED vars
  <2>1. UNCHANGED <<status, tomb, later, queue, seen, failing, lanesLeft, subject, lock, phase,
                    stopped, wake, visit>>
    BY <1>15 DEF vars, taskVars, runnerVars, ensureVars, abortVars
  <2>2. HoldInv'
    BY <2>1
    DEF HoldInv, DoIsFresh, NoAbort, SeenAborted, FailingTaken, GivenUpHolds, GivenUp, InQueue
  <2> QED BY <2>1, <2>2, SameWoken
<1> QED
  BY <1>1, <1>2, <1>3, <1>4, <1>5, <1>6, <1>7, <1>8, <1>9, <1>10, <1>11, <1>12, <1>13, <1>14,
     <1>15, AbortTaskKeeps, AbortLanesKeeps, ForgetKeeps
  DEF Next, EnsureStep, AbortStep

(***************************************************************************)
(* A lane is all or nothing.                                               *)
(***************************************************************************)

\* How the status of a task changes, whatever the step.
Moves(t, s) ==
  \/ s = status[t]
  \/ s \in (Given \ {"Error"}) \cup {"Wait"}
  \/ s = "Doing" /\ status[t] \in {"Do", "Doing"}
  \/ s = "Done" /\ status[t] = "Doing"
  \/ s = "Done" /\ status[t] = "Undo" /\ t \notin HasUndo
  \/ s = "Error" /\ ErrorEnd /\ t = failing

LEMMA StatusMoves ==
  ASSUME TypeOK, [Next]_vars, NEW u \in Task
  PROVE  Moves(u, status'[u])
<1>a. ASSUME NEW t \in Task, NEW s, Moves(t, s),
             \A v \in Task : status'[v] = IF v = t THEN s ELSE status[v]
      PROVE  Moves(u, status'[u])
  BY <1>a DEF Moves
<1>b. ASSUME UNCHANGED status PROVE Moves(u, status'[u])
  BY <1>b DEF Moves
<1>1. ASSUME NEW t \in Task, TryUndo(t) PROVE Moves(u, status'[u])
  <2>1. PICK s \in {"Hold", "Undo"} : \A v \in Task : status'[v] = IF v = t THEN s ELSE status[v]
    BY <1>1, TryUndoIs
  <2> QED BY <1>a, <2>1 DEF Moves, Given
<1>2. ASSUME NEW t \in Task, EnsureCannotUndo(t) PROVE Moves(u, status'[u])
  <2>1. SetStatus(t, "Done") /\ status[t] = "Undo" /\ t \notin HasUndo
    BY <1>2 DEF EnsureCannotUndo, CannotUndo
  <2> QED BY <1>a, <2>1, SetStatusIs DEF Moves
<1>3. ASSUME NEW t \in Task, EnsureRun(t) PROVE Moves(u, status'[u])
  <2>1. \/ SetStatus(t, "Doing") /\ status[t] \in {"Do", "Doing"}
        \/ SetStatus(t, "Undoing")
    BY <1>3 DEF EnsureRun
  <2> QED BY <1>a, <2>1, SetStatusIs DEF Moves, Given
<1>4. ASSUME NEW t \in Task, HandlerDone(t) PROVE Moves(u, status'[u])
  <2>1. \/ SetStatus(t, "Done") /\ status[t] = "Doing"
        \/ SetStatus(t, "Undo")
        \/ SetStatus(t, "Undone")
    BY <1>4 DEF HandlerDone
  <2> QED BY <1>a, <2>1, SetStatusIs DEF Moves, Given
<1>5. ASSUME NEW t \in Task, ChangeStatus(t, "Wait") PROVE Moves(u, status'[u])
  BY <1>a, <1>5, StatusIs DEF Moves
<1>6. ASSUME NEW t \in Task, AbortTask(t) PROVE Moves(u, status'[u])
  <2>1. ChangeStatus(t, AbortedStatus(t)) /\ Moves(t, AbortedStatus(t))
    BY <1>6 DEF AbortTask, AbortedStatus, Moves, Given
  <2> QED BY <1>a, <2>1, StatusIs
<1>7. CASE ErrorEnd
  <2>1. failing \in Task /\ SetStatus(failing, "Error")
    BY <1>7 DEF ErrorEnd, TypeOK
  <2> QED BY <1>7, <1>a, <2>1, SetStatusIs DEF Moves
<1>8. \/ UNCHANGED status \/ ErrorEnd
      \/ \E t \in Task : \/ TryUndo(t) \/ EnsureCannotUndo(t) \/ EnsureRun(t) \/ HandlerDone(t)
                         \/ ChangeStatus(t, "Wait") \/ AbortTask(t)
  BY DEF Next, NewChange, Abort, PruneAbort, Prune, EnsureBegin, EnsureStep, EnsureKill,
         EnsureTryUndo, EnsureSkip, EnsureClean, EnsureEnd, HandlerReturns, HandlerRetry,
         HandlerWait, HandlerError, TimeArrives, CleanupReturns, AbortStep, AbortLanes, AbortEnd,
         Stop, Restart, vars, taskVars
<1> QED BY <1>b, <1>1, <1>2, <1>3, <1>4, <1>5, <1>6, <1>7, <1>8

\* A task that is given up, or was done and cannot be undone.
Settled(u) == GivenUp(u) \/ (status[u] = "Done" /\ u \notin HasUndo)

LaneInv ==
  \A t \in Task : status[t] = "Error" => \A u \in LaneMates(t) : Settled(u)

LEMMA NextLane ==
  ASSUME TypeOK, HoldInv, LaneInv, [Next]_vars
  PROVE  LaneInv'
<1> SUFFICES ASSUME NEW t \in Task, status'[t] = "Error", NEW u \in LaneMates(t)
             PROVE  Settled(u)'
  BY DEF LaneInv, LaneMates, TasksOf
<1>1. u \in Task
  BY DEF LaneMates, TasksOf
<1>2. Settled(u)
  <2>1. CASE status[t] = "Error"
    BY <2>1 DEF LaneInv
  <2>2. CASE status[t] # "Error"
    <3>1. ErrorEnd /\ t = failing
      BY <2>2, StatusMoves DEF Moves
    <3>2. u \in seen
      BY <3>1, MatesTaken
    <3> QED BY <3>2 DEF HoldInv, SeenAborted, Settled
  <2> QED BY <2>1, <2>2
<1>3. Moves(u, status'[u])
  BY <1>1, StatusMoves
<1> QED BY <1>1, <1>2, <1>3 DEF Moves, Settled, GivenUp, Given

(***************************************************************************)
(* An error stays with what is tied to the task.                           *)
(***************************************************************************)
Closed(S) ==
  /\ \A x \in S : HaltTasks(x) \subseteq S
  /\ \A x \in S : \A y \in TasksOf(ChangeOf[x]) : LanesOf(x) \cap LanesOf(y) # {} => y \in S

\* The work list and the lanes that are left come from tasks of any set that is closed.
Within(S) ==
  /\ seen \subseteq S
  /\ \A t \in Task : InQueue(t) => t \in S /\ ChangeOf[t] = subject
  /\ \A l \in lanesLeft : \E x \in S : ChangeOf[x] = subject /\ l \in LanesOf(x)

ContainedInv ==
  failing # NoTask => \A S \in SUBSET Task : failing \in S /\ Closed(S) => Within(S)

\* Only the error of a handler makes an abort that has a reason, and what follows keeps it.
LEMMA FailingSteps ==
  ASSUME HoldInv, [Next]_vars, failing' # NoTask
  PROVE  HandlerError(failing') \/ AbortLanes \/ (\E t \in Task : AbortTask(t)) \/ UNCHANGED vars
<1>1. lock # "abort" => failing = NoTask
  BY DEF HoldInv, NoAbort
<1> QED
  BY <1>1
  DEF Next, NewChange, Abort, PruneAbort, Prune, EnsureBegin, EnsureStep, EnsureKill,
      EnsureTryUndo, EnsureSkip, EnsureClean, EnsureCannotUndo, EnsureRun, EnsureEnd,
      HandlerReturns, HandlerDone, HandlerRetry, HandlerWait, HandlerError, TimeArrives,
      CleanupReturns, AbortStep, AbortEnd, ErrorEnd, ForgetAbort, Stop, Restart, abortVars,
      Returns, Considering, MayEnsure, Holds

LEMMA NextContained ==
  ASSUME TypeOK, HoldInv, ContainedInv, [Next]_vars
  PROVE  ContainedInv'
<1> SUFFICES ASSUME failing' # NoTask, NEW S \in SUBSET Task, failing' \in S, Closed(S)
             PROVE  Within(S)'
  BY DEF ContainedInv, Closed, HaltTasks, TasksOf, LanesOf
<1>0. HandlerError(failing') \/ AbortLanes \/ (\E t \in Task : AbortTask(t)) \/ UNCHANGED vars
  BY FailingSteps
<1>1. CASE HandlerError(failing')
  <2>1. /\ subject' = ChangeOf[failing'] /\ lanesLeft' = LanesOf(failing')
        /\ seen' = {} /\ \A u \in Task : ~InQueue(u)'
    BY <1>1 DEF HandlerError, Returns, Holds, HoldInv, NoAbort, InQueue
  <2> QED BY <2>1 DEF Within
<1>2. ASSUME NEW t \in Task, AbortTask(t) PROVE Within(S)'
  <2>1. /\ UNCHANGED <<failing, subject>> /\ seen' = seen \cup {t} /\ InQueue(t)
        /\ lanesLeft' \subseteq lanesLeft \cup LanesOf(t)
        /\ \A u \in Task : InQueue(u)' => InQueue(u) \/ u \in HaltTasks(t)
    BY <1>2 DEF AbortTask, InQueue
  <2>2. Within(S) /\ t \in S /\ ChangeOf[t] = subject
    BY <2>1 DEF ContainedInv, Within
  <2>3. \A u \in HaltTasks(t) : u \in S /\ ChangeOf[u] = subject
    BY <2>2, StructureAssumption DEF Closed, HaltTasks, StructureAssumption
  <2> QED BY <2>1, <2>2, <2>3 DEF Within
<1>3. CASE AbortLanes
  <2>1. /\ UNCHANGED <<failing, subject, seen>> /\ lanesLeft' = {}
        /\ \A u \in Task : InQueue(u)' => u \in LaneTasks(lanesLeft)
    BY <1>3 DEF AbortLanes, InQueue
  <2>2. Within(S)
    BY <2>1 DEF ContainedInv
  <2>3. ASSUME NEW u \in LaneTasks(lanesLeft) PROVE u \in S /\ ChangeOf[u] = subject
    <3>1. u \in TasksOf(subject) /\ ChangeOf[u] = subject
      BY DEF LaneTasks, TasksOf
    <3>2. PICK l \in lanesLeft : l \in LanesOf(u)
      BY DEF LaneTasks
    <3>3. PICK x \in S : ChangeOf[x] = subject /\ l \in LanesOf(x)
      BY <2>2 DEF Within
    <3> QED BY <3>1, <3>2, <3>3 DEF Closed
  <2> QED BY <2>1, <2>2, <2>3 DEF Within
<1>4. CASE UNCHANGED vars
  BY <1>4 DEF ContainedInv, Within, InQueue, vars, abortVars
<1> QED BY <1>0, <1>1, <1>2, <1>3, <1>4

(***************************************************************************)
(* The theorems.                                                           *)
(***************************************************************************)
LEMMA AbortKept == Spec => [](TypeOK /\ HoldInv /\ Woken)
<1> DEFINE Inv == TypeOK /\ HoldInv /\ Woken
<1>1. Init => Inv
  BY InitType, InitWake
<1>2. Inv /\ [Next]_vars => Inv'
  BY NextType, NextWake
<1> HIDE DEF Inv
<1>3. Spec => []Inv
  BY <1>1, <1>2, PTL DEF Spec
<1> QED BY <1>3 DEF Inv

(***************************************************************************)
(* When a change has settled and a task failed, no task of the same lanes  *)
(* that can be undone is left done; and an error reaches only the tasks    *)
(* that lanes and waiting tie to it, in however many hops: through every   *)
(* order of results, aborts, prunings and restarts (Change.abortLanes and  *)
(* abortTasks).                                                            *)
(***************************************************************************)
THEOREM ErrorsKept == Spec => []ErrorsKeepToLanes
<1> DEFINE Inv == LaneInv /\ ContainedInv
<1>1. Init => Inv
  <2> SUFFICES ASSUME Init PROVE Inv
    OBVIOUS
  <2>1. \A t \in Task : status[t] = "Do"
    BY DEF Init
  <2> QED BY <2>1 DEF Init, LaneInv, ContainedInv
<1>2. TypeOK /\ HoldInv /\ Inv /\ [Next]_vars => Inv'
  BY NextLane, NextContained
<1>3. TypeOK /\ Inv => ErrorsKeepToLanes
  <2> SUFFICES ASSUME TypeOK, Inv PROVE ErrorsKeepToLanes
    OBVIOUS
  <2>1. LaneAllOrNothing
    BY DEF LaneInv, LaneMates, TasksOf, Settled, GivenUp, Given, LaneAllOrNothing
  <2>2. ErrorContained
    <3> SUFFICES ASSUME failing # NoTask, NEW u \in seen PROVE u \in Reach(failing)
      BY DEF ErrorContained
    <3>1. u \in Task
      BY DEF TypeOK
    <3>2. ASSUME NEW S \in SUBSET Task, failing \in S, Closed(S) PROVE u \in S
      BY <3>2 DEF ContainedInv, Within
    <3> QED BY <3>1, <3>2 DEF Reach, Closed
  <2> QED BY <2>1, <2>2 DEF ErrorsKeepToLanes
<1> HIDE DEF Inv
<1> QED BY <1>1, <1>2, <1>3, AbortKept, PTL DEF Spec

(***************************************************************************)
(* A task whose dependencies are all done is never left to wait for the    *)
(* periodic pass: through every order of results, aborts, undos, prunings, *)
(* stops and restarts, somebody has asked for a pass (Task.SetStatus and   *)
(* the EnsureBefore calls of TaskRunner.run and tryUndo).                  *)
(***************************************************************************)
THEOREM NoWakeupLost == Spec => []NoLostWakeup
<1>1. TypeOK /\ HoldInv /\ Woken => NoLostWakeup
  BY DEF Woken, MayRun, NoLostWakeup, MustWait
<1> QED BY <1>1, AbortKept, PTL

-----------------------------------------------------------------------------
(***************************************************************************)
(* What a client may rely on in TaskRunner, for every set of tasks and     *)
(* changes: a change that has become ready stays as it is, whatever is     *)
(* aborted, pruned or restarted afterwards, and the handlers of tasks that *)
(* depend on each other never run together.                                *)
(*                                                                         *)
(* An abort takes the tasks one at a time.  Were it to put on hold the     *)
(* last task that is not ready and only then reach one that is done,       *)
(* detectChangeReady would close the ready channel and then panic.  That   *)
(* it never does rests on the order of the tasks in a change, on the pass  *)
(* that starts all tasks that may start, and on the lanes.                 *)
(***************************************************************************)

(***************************************************************************)
(* The lanes of the daemon: two tasks of a change that share a lane are    *)
(* in the same lanes.  servstate.Start and Stop put each task in the one   *)
(* lane of its chain, and the tasks of all other changes are in lane 0.    *)
(***************************************************************************)
LanesApart ==
  \A t, u \in Task :
    ChangeOf[t] = ChangeOf[u] /\ LanesOf(t) \cap LanesOf(u) # {} => Lanes[t] = Lanes[u]

\* A task that has never been done, one that has been, and one that has something left to do
\* although it has begun.
NotDone(t) == status[t] \in {"Do", "Hold"}
Past == {"Done", "Undo", "Undoing", "Undone", "Error", "Wait"}
Begun == {"Doing", "Abort", "Undo", "Undoing", "Wait"}

(***************************************************************************)
(* The order in which tasks begin.  A pass runs every task that may run,   *)
(* so of two tasks that wait for the same, neither is ever left to do      *)
(* while the other has begun, but in the middle of that pass.              *)
(***************************************************************************)
WaitedIs == \A t \in Task : waited[t] \in {"Done", "Undone"}

StartedAfter ==
  \A t \in Task : ~NotDone(t) => \A w \in WaitTasks[t] : status[w] \in Past

Visited == lock = "ensure" => \A t \in Task : MayRun(t) => t \in visit

Together ==
  \A t, v \in Task :
    /\ Linked(t) /\ ChangeOf[v] = ChangeOf[t] /\ WaitTasks[t] \subseteq WaitTasks[v]
    /\ status[t] = "Do" /\ ~NotDone(v)
    => lock = "ensure" /\ MayRun(t)

StartInv == WaitedIs /\ StartedAfter /\ Visited /\ Together

(***************************************************************************)
(* Goroutines, and the task whose error is the reason of an abort.         *)
(***************************************************************************)
TombStatus ==
  \A t \in Task :
    /\ tomb[t] = "do" => status[t] \in {"Doing", "Abort"}
    /\ tomb[t] = "undo" => status[t] = "Undoing"

FailingBegun ==
  failing # NoTask =>
    /\ lock = "abort" /\ ChangeOf[failing] = subject /\ tomb[failing] = "none"
    /\ status[failing] \in {"Doing", "Abort", "Undoing"}

(***************************************************************************)
(* Why an abort never makes a change unready again.  Until it ends, a task *)
(* that has begun is left unready; or a task to do is in the work list     *)
(* behind one that is done and that it waits for; or the abort reaches no  *)
(* task that was ever done.                                                *)
(***************************************************************************)
SomeBegun == \E t \in TasksOf(subject) : status[t] \in Begun

DoneFirst ==
  \E t \in TasksOf(subject) : \E w \in WaitTasks[t] :
    /\ status[t] = "Do" /\ status[w] = "Done"
    /\ \/ queue[t] = 1 /\ queue[w] = 1
       \/ (\A u \in Task : ~InQueue(u)) /\ seen = {}
          /\ LanesOf(t) \cup LanesOf(w) \subseteq lanesLeft

Reached(x) ==
  \/ \E q \in Task : InQueue(q) /\ Lanes[q] = Lanes[x]
  \/ LanesOf(x) \cap lanesLeft # {}

NoneDone == \A x \in TasksOf(subject) : Reached(x) => NotDone(x)

AbortSafe ==
  lock = "abort" =>
    /\ \A t \in Task : InQueue(t) => ChangeOf[t] = subject
    /\ SomeBegun \/ DoneFirst \/ NoneDone

AtRest ==
  /\ \A c \in Change : phase[c] = "gone" => AllReady(c)
  /\ \A t \in Task : tomb[t] = "cleanup" => AllReady(ChangeOf[t])

FinalInv == ~panicked /\ TombStatus /\ FailingBegun /\ AbortSafe /\ AtRest

(***************************************************************************)
(* What depends on each other keeps apart.                                 *)
(***************************************************************************)
DoAlone ==
  \A t \in Task : status[t] \in {"Doing", "Abort"} =>
    \A w \in WaitTasks[t] : status[w] \in {"Done", "Undo"} /\ tomb[w] = "none"

UndoAlone ==
  \A w \in Task : status[w] = "Undoing" =>
    /\ w \in HasUndo
    /\ \A h \in HaltTasks(w) :
         Settled(h) /\ tomb[h] = "none" /\ (IsReady(status[h]) \/ CannotUndo(h))

GivenTaken ==
  \A w \in Task : status[w] \in Given =>
    \A h \in HaltTasks(w) : InQueue(h) \/ Settled(h)

ApartInv == DoAlone /\ UndoAlone /\ GivenTaken /\ FailureHoldsWaiters
-----------------------------------------------------------------------------
(***************************************************************************)
(* The steps, by what they do to the status and the goroutine of a task.   *)
(***************************************************************************)
Step(t, s) ==
  \/ EnsureRun(t) /\ status[t] \in {"Do", "Doing"} /\ s = "Doing"
  \/ EnsureRun(t) /\ status[t] \in {"Undo", "Undoing"} /\ s = "Undoing"
  \/ EnsureCannotUndo(t) /\ s = "Done"
  \/ lock # "abort" /\ tomb'[t] = "none" /\ status[t] = "Abort" /\ s \in {"Hold", "Undo"}
  \/ lock = "free" /\ tomb'[t] = "none" /\ status[t] = "Doing" /\ s \in {"Done", "Wait"}
  \/ lock = "free" /\ tomb'[t] = "none" /\ status[t] = "Undoing" /\ s \in {"Undone", "Wait"}
  \/ AbortTask(t) /\ s = AbortedStatus(t)
  \/ ErrorEnd /\ t = failing /\ s = "Error"

Sets(t, s) == \A u \in Task : status'[u] = IF u = t THEN s ELSE status[u]

LEMMA TryUndoSteps ==
  ASSUME TypeOK, NEW t \in Task, TryUndo(t), status[t] = "Abort", lock # "abort", tomb'[t] = "none"
  PROVE  \E s : Step(t, s) /\ Sets(t, s)
<1>1. PICK s \in {"Hold", "Undo"} : \A u \in Task : status'[u] = IF u = t THEN s ELSE status[u]
  BY TryUndoIs
<1> QED BY <1>1 DEF Step, Sets

LEMMA StatusSteps ==
  ASSUME TypeOK, TombStatus, [Next]_vars
  PROVE  UNCHANGED status \/ \E t \in Task : \E s : Step(t, s) /\ Sets(t, s)
<1> DEFINE Goal == UNCHANGED status \/ \E t \in Task : \E s : Step(t, s) /\ Sets(t, s)
<1>a. ASSUME NEW t \in Task, NEW s, Step(t, s), Sets(t, s) PROVE Goal
  BY <1>a
<1>b. ASSUME NEW t \in Task, TryUndo(t), status[t] = "Abort", lock # "abort", tomb'[t] = "none"
      PROVE  Goal
  BY <1>b, TryUndoSteps
<1>1. ASSUME NEW t \in Task, EnsureTryUndo(t) PROVE Goal
  BY <1>1, <1>b DEF EnsureTryUndo, Considering, Holds, runnerVars
<1>2. ASSUME NEW t \in Task, EnsureCannotUndo(t) PROVE Goal
  <2>1. SetStatus(t, "Done") /\ status[t] = "Undo"
    BY <1>2 DEF EnsureCannotUndo, CannotUndo
  <2>2. Sets(t, "Done") /\ Step(t, "Done")
    BY <1>2, <2>1, SetStatusIs DEF Sets, Step
  <2> QED BY <1>a, <2>2
<1>3. ASSUME NEW t \in Task, EnsureRun(t) PROVE Goal
  <2>1. \/ SetStatus(t, "Doing") /\ status[t] \in {"Do", "Doing"}
        \/ SetStatus(t, "Undoing") /\ status[t] \in {"Undo", "Undoing"}
    BY <1>3 DEF EnsureRun, Runnable
  <2>2. PICK s \in {"Doing", "Undoing"} : SetStatus(t, s) /\ Step(t, s)
    BY <1>3, <2>1 DEF Step
  <2>3. Sets(t, s)
    BY <2>2, SetStatusIs DEF Sets
  <2> QED BY <1>a, <2>2, <2>3
<1>4. ASSUME NEW t \in Task, HandlerDone(t) PROVE Goal
  <2>0. lock = "free" /\ tomb'[t] = "none"
    BY <1>4 DEF HandlerDone, Returns, Holds, TypeOK
  <2>1. \/ SetStatus(t, "Done") /\ status[t] = "Doing"
        \/ SetStatus(t, "Undo") /\ status[t] = "Abort"
        \/ SetStatus(t, "Undone") /\ status[t] = "Undoing"
    BY <1>4 DEF HandlerDone
  <2>2. PICK s : SetStatus(t, s) /\ Step(t, s) /\ (status[t] # "Abort" \/ s # "Done")
    BY <2>0, <2>1 DEF Step
  <2>3. Sets(t, s)
    BY <2>2, SetStatusIs DEF Sets
  <2> QED BY <1>a, <2>2, <2>3
<1>5. ASSUME NEW t \in Task, (\E after \in BOOLEAN : HandlerRetry(t, after)) \/ HandlerWait(t)
      PROVE  Goal
  <2>1. lock = "free" /\ tomb[t] \in {"do", "undo"} /\ tomb'[t] = "none"
    BY <1>5 DEF HandlerRetry, HandlerWait, Returns, Holds, TypeOK
  <2>2. CASE status[t] = "Abort"
    BY <1>5, <1>b, <2>1, <2>2 DEF HandlerRetry, HandlerWait
  <2>3. CASE status[t] # "Abort" /\ HandlerWait(t)
    <3>1. status[t] \in {"Doing", "Undoing"}
      BY <2>1, <2>3 DEF TombStatus
    <3>2. Sets(t, "Wait")
      BY <2>3, StatusIs DEF HandlerWait, Sets
    <3> QED BY <1>a, <2>1, <3>1, <3>2 DEF Step
  <2>4. CASE status[t] # "Abort" /\ ~HandlerWait(t)
    BY <1>5, <2>4 DEF HandlerRetry
  <2> QED BY <2>2, <2>3, <2>4
<1>6. ASSUME NEW t \in Task, AbortTask(t) PROVE Goal
  <2>1. Sets(t, AbortedStatus(t)) /\ Step(t, AbortedStatus(t))
    BY <1>6, StatusIs DEF AbortTask, Sets, Step
  <2> QED BY <1>a, <2>1
<1>7. ASSUME ErrorEnd PROVE Goal
  <2>1. failing \in Task /\ SetStatus(failing, "Error")
    BY <1>7 DEF ErrorEnd, TypeOK
  <2>2. Sets(failing, "Error") /\ Step(failing, "Error")
    BY <1>7, <2>1, SetStatusIs DEF Sets, Step
  <2> QED BY <1>a, <2>1, <2>2
<1>8. \/ UNCHANGED status \/ ErrorEnd
      \/ \E t \in Task : \/ EnsureTryUndo(t) \/ EnsureCannotUndo(t) \/ EnsureRun(t)
                         \/ HandlerDone(t) \/ (\E after \in BOOLEAN : HandlerRetry(t, after))
                         \/ HandlerWait(t) \/ AbortTask(t)
  BY DEF Next, NewChange, Abort, PruneAbort, Prune, EnsureBegin, EnsureStep, EnsureKill,
         EnsureSkip, EnsureClean, EnsureEnd, HandlerReturns, HandlerError, TimeArrives,
         CleanupReturns, AbortStep, AbortLanes, AbortEnd, Stop, Restart, vars, taskVars
<1> QED BY <1>1, <1>2, <1>3, <1>4, <1>5, <1>6, <1>7, <1>8

\* A goroutine is started by a pass only.
LEMMA TombSteps ==
  ASSUME TypeOK, [Next]_vars, NEW u \in Task
  PROVE  tomb'[u] \in {tomb[u], "none"} \/ EnsureRun(u) \/ EnsureClean(u)
<1> DEFINE Goal == tomb'[u] \in {tomb[u], "none"} \/ EnsureRun(u) \/ EnsureClean(u)
<1>1. ASSUME NEW t \in Task, EnsureRun(t) \/ EnsureClean(t) PROVE Goal
  BY <1>1 DEF EnsureRun, EnsureClean, TypeOK
<1>2. ASSUME NEW t \in Task, NEW o, Returns(t, o) PROVE Goal
  BY <1>2 DEF Returns, TypeOK
<1>3. ASSUME NEW t \in Task, NEW ok \in BOOLEAN, CleanupReturns(t, ok) PROVE Goal
  BY <1>3 DEF CleanupReturns, TypeOK
<1>4. ASSUME UNCHANGED tomb PROVE Goal
  BY <1>4
<1>5. ASSUME Restart PROVE Goal
  BY <1>5 DEF Restart
<1>6. \/ UNCHANGED tomb \/ Restart
      \/ \E t \in Task : \/ EnsureRun(t) \/ EnsureClean(t) \/ (\E o : Returns(t, o))
                         \/ \E ok \in BOOLEAN : CleanupReturns(t, ok)
  BY DEF Next, NewChange, Abort, PruneAbort, Prune, EnsureBegin, EnsureStep, EnsureKill,
         EnsureTryUndo, EnsureCannotUndo, EnsureSkip, EnsureEnd, HandlerReturns, HandlerDone,
         HandlerRetry, HandlerWait, HandlerError, TimeArrives, AbortStep, AbortTask, AbortLanes,
         AbortEnd, ErrorEnd, Stop, vars, runnerVars
<1> QED BY <1>1, <1>2, <1>3, <1>4, <1>5, <1>6

-----------------------------------------------------------------------------
(***************************************************************************)
(* A goroutine tells the status of its task.                               *)
(***************************************************************************)
LEMMA NextTombs ==
  ASSUME TypeOK, HoldInv, TombStatus, FailingBegun, [Next]_vars
  PROVE  TombStatus' /\ FailingBegun'
<1>1. ASSUME NEW u \in Task, EnsureRun(u)
      PROVE  /\ tomb'[u] = "do" => status'[u] = "Doing"
             /\ tomb'[u] = "undo" => status'[u] = "Undoing"
  <2>1. CASE status[u] \in {"Do", "Doing"}
    <3>1. SetStatus(u, "Doing") /\ tomb'[u] = "do"
      BY <1>1, <2>1 DEF EnsureRun, TypeOK
    <3> QED BY <3>1, SetStatusIs
  <2>2. CASE status[u] \notin {"Do", "Doing"}
    <3>1. SetStatus(u, "Undoing") /\ tomb'[u] = "undo"
      BY <1>1, <2>2 DEF EnsureRun, TypeOK
    <3> QED BY <3>1, SetStatusIs
  <2> QED BY <2>1, <2>2
<1>2. ASSUME NEW u \in Task, ~EnsureRun(u), tomb'[u] \in {"do", "undo"}
      PROVE  /\ tomb'[u] = "do" => status'[u] \in {"Doing", "Abort"}
             /\ tomb'[u] = "undo" => status'[u] = "Undoing"
  <2>1. tomb'[u] = tomb[u]
    <3>1. EnsureClean(u) => tomb'[u] \in {"cleanup", tomb[u]}
      BY DEF EnsureClean, TypeOK
    <3> QED BY <1>2, <3>1, TombSteps
  <2>2. ASSUME NEW s, Step(u, s)
        PROVE  s = status[u] \/ (s = "Abort" /\ status[u] = "Doing")
    <3>1. ~EnsureCannotUndo(u)
      BY <1>2, <2>1 DEF EnsureCannotUndo, Runnable, Idle
    <3>2. ~(ErrorEnd /\ u = failing)
      BY <1>2, <2>1 DEF ErrorEnd, FailingBegun
    <3>3. AbortedStatus(u) = status[u] \/ (AbortedStatus(u) = "Abort" /\ status[u] = "Doing")
      BY <1>2, <2>1 DEF AbortedStatus, EffectiveStatus, TombStatus
    <3> QED BY <1>2, <2>1, <2>2, <3>1, <3>2, <3>3 DEF Step
  <2>3. status'[u] = status[u] \/ (status'[u] = "Abort" /\ status[u] = "Doing")
    BY <2>2, StatusSteps DEF Sets
  <2> QED BY <1>2, <2>1, <2>3 DEF TombStatus
<1>3. TombStatus'
  BY <1>1, <1>2 DEF TombStatus
<1>4. FailingBegun'
  <2> SUFFICES ASSUME failing' # NoTask PROVE FailingBegun'
    BY DEF FailingBegun
  <2>1. CASE HandlerError(failing')
    <3>1. /\ failing' \in Task /\ tomb[failing'] \in {"do", "undo"} /\ tomb'[failing'] = "none"
          /\ lock' = "abort" /\ subject' = ChangeOf[failing'] /\ UNCHANGED status
      <4>1. failing' \in Task
        BY NextType DEF TypeOK
      <4> QED BY <2>1, <4>1 DEF HandlerError, Returns, TypeOK
    <3> QED BY <3>1 DEF FailingBegun, TombStatus
  <2>2. CASE AbortLanes
    BY <2>2 DEF AbortLanes, FailingBegun, Holds, taskVars, runnerVars
  <2>3. ASSUME NEW t \in Task, AbortTask(t) PROVE FailingBegun'
    <3>1. UNCHANGED <<failing, lock, subject, tomb>> /\ failing \in Task
      BY <2>3 DEF AbortTask, runnerVars, TypeOK
    <3>2. \A u \in Task : status'[u] = IF u = t THEN AbortedStatus(t) ELSE status[u]
      BY <2>3, StatusIs DEF AbortTask
    <3> QED BY <3>1, <3>2 DEF FailingBegun, AbortedStatus, EffectiveStatus
  <2>4. CASE UNCHANGED vars
    BY <2>4 DEF FailingBegun, vars, taskVars, runnerVars, abortVars
  <2> QED BY <2>1, <2>2, <2>3, <2>4, FailingSteps
<1> QED BY <1>3, <1>4

-----------------------------------------------------------------------------
(***************************************************************************)
(* The order in which tasks begin.                                         *)
(***************************************************************************)
LEMMA WaitsAre ==
  ASSUME NEW t \in Task
  PROVE  \A w \in WaitTasks[t] :
           w \in Task /\ w # t /\ ChangeOf[w] = ChangeOf[t] /\ t \in HaltTasks(w)
<1>1. WaitTasks[t] \subseteq Task /\ Rank \in [Task -> Nat]
  BY StructureAssumption DEF StructureAssumption
<1>2. \A w \in WaitTasks[t] : Rank[w] < Rank[t] /\ ChangeOf[w] = ChangeOf[t]
  BY StructureAssumption, OrderAssumption DEF StructureAssumption, OrderAssumption
<1> QED BY <1>1, <1>2 DEF HaltTasks

\* A task that was done stays so, or is undone; one that was never done begins by its run.
LEMMA PastStays ==
  ASSUME TypeOK, TombStatus, FailingBegun, WaitedIs, [Next]_vars, NEW u \in Task,
         status[u] \in Past
  PROVE  status'[u] \in Past
<1>1. ASSUME NEW s, Step(u, s) PROVE s \in Past
  <2>1. AbortedStatus(u) \in Past
    BY DEF AbortedStatus, EffectiveStatus, WaitedIs, Past
  <2> QED BY <1>1, <2>1 DEF Step, Past
<1> QED BY <1>1, StatusSteps DEF Sets

LEMMA BeginsByRun ==
  ASSUME TypeOK, TombStatus, FailingBegun, [Next]_vars, NEW u \in Task, NotDone(u)
  PROVE  NotDone(u)' \/ (EnsureRun(u) /\ status[u] = "Do")
<1>1. ASSUME NEW s, Step(u, s) PROVE s \in {"Do", "Hold"} \/ (EnsureRun(u) /\ status[u] = "Do")
  <2>1. AbortedStatus(u) \in {"Do", "Hold"}
    BY DEF AbortedStatus, EffectiveStatus, NotDone
  <2>2. ~EnsureCannotUndo(u)
    BY DEF EnsureCannotUndo, CannotUndo, NotDone
  <2>3. ErrorEnd => u # failing
    BY DEF ErrorEnd, FailingBegun, NotDone
  <2> QED BY <1>1, <2>1, <2>2, <2>3 DEF Step, NotDone
<1> QED BY <1>1, StatusSteps DEF Sets, NotDone

\* A task is never to do again, and what is done is left so by a pass.
LEMMA DoWasDo ==
  ASSUME TypeOK, TombStatus, [Next]_vars, NEW u \in Task, status'[u] = "Do"
  PROVE  status[u] = "Do"
<1>1. ASSUME NEW s, Step(u, s), s = "Do" PROVE status[u] = "Do"
  BY <1>1 DEF Step, AbortedStatus
<1> QED BY <1>1, StatusSteps DEF Sets

LEMMA DoneStays ==
  ASSUME TypeOK, TombStatus, FailingBegun, [Next]_vars, lock # "abort", NEW u \in Task,
         status[u] = "Done"
  PROVE  status'[u] = "Done"
<1>1. ~\E s : Step(u, s)
  BY DEF Step, EnsureCannotUndo, CannotUndo, AbortTask, Holds, ErrorEnd, AbortOver
<1> QED BY <1>1, StatusSteps DEF Sets

\* What a pass makes done was given up: nobody who is still to do waits for it.
LEMMA RunsNoMore ==
  ASSUME TypeOK, HoldInv, TombStatus, [Next]_vars, lock = "ensure", NEW u \in Task,
         MayRun(u)'
  PROVE  MayRun(u)
<1>1. status[u] = "Do" /\ WaitTasks[u] \subseteq Task /\ UNCHANGED phase
  <2>1. UNCHANGED phase
    BY DEF Next, NewChange, Abort, PruneAbort, Prune, EnsureBegin, EnsureStep, EnsureKill,
           EnsureTryUndo, EnsureSkip, EnsureClean, EnsureCannotUndo, EnsureRun, EnsureEnd,
           HandlerReturns, HandlerDone, HandlerRetry, HandlerWait, HandlerError, TimeArrives,
           CleanupReturns, AbortStep, AbortTask, AbortLanes, AbortEnd, AbortOver, ErrorEnd, Stop,
           Restart, MayEnsure, Returns, Holds, vars, taskVars
  <2>2. status[u] = "Do"
    BY DoWasDo DEF MayRun
  <2> QED BY <2>1, <2>2, StructureAssumption DEF StructureAssumption
<1>2. ASSUME NEW w \in WaitTasks[u], status[w] # "Done" PROVE FALSE
  <2>1. w \in Task /\ status'[w] = "Done"
    BY <1>1 DEF MayRun
  <2>2. Step(w, "Done")
    BY <1>2, <2>1, StatusSteps DEF Sets
  <2>3. EnsureCannotUndo(w)
    BY <2>2 DEF Step, AbortTask, ErrorEnd, AbortOver, Holds
  <2>4. status[w] = "Undo" /\ ~InQueue(u)
    BY <2>3 DEF EnsureCannotUndo, CannotUndo, HoldInv, NoAbort
  <2>5. status[u] # "Do"
    BY <1>1, <2>1, <2>4, WaitsAre DEF HoldInv, GivenUpHolds, Given
  <2> QED BY <1>1, <2>5
<1> QED BY <1>1, <1>2 DEF MayRun, Linked

\* A pass that leaves a task out runs it, or finds that it may not run.
LEMMA LeftOut ==
  ASSUME TypeOK, HoldInv, TombStatus, [Next]_vars, lock = "ensure", NEW u \in Task,
         u \in visit, u \notin visit', MayRun(u)
  PROVE  ~MayRun(u)'
<1>0. status[u] = "Do" /\ tomb[u] = "none" /\ u \notin later /\ Runnable(u)
  BY DEF HoldInv, DoIsFresh, MayRun, Runnable, Idle, MustWait
<1>1. ~EnsureKill(u) /\ ~EnsureClean(u) /\ ~EnsureSkip(u) /\ ~EnsureCannotUndo(u)
  BY <1>0
  DEF EnsureKill, EnsureClean, Cleanable, IsReady, EnsureSkip, Idle, EnsureCannotUndo, CannotUndo
<1>2. EnsureKill(u) \/ EnsureClean(u) \/ EnsureSkip(u) \/ EnsureCannotUndo(u) \/ EnsureRun(u)
  BY DEF Next, NewChange, Abort, PruneAbort, Prune, EnsureBegin, EnsureStep, EnsureKill,
         EnsureTryUndo, EnsureSkip, EnsureClean, EnsureCannotUndo, EnsureRun, EnsureEnd,
         HandlerReturns, HandlerDone, HandlerRetry, HandlerWait, HandlerError, TimeArrives,
         CleanupReturns, AbortStep, AbortTask, AbortLanes, AbortEnd, AbortOver, ErrorEnd, Stop,
         Restart, MayEnsure, Returns, Holds, Considered, vars, ensureVars
<1>3. SetStatus(u, "Doing")
  BY <1>0, <1>1, <1>2 DEF EnsureRun
<1> QED BY <1>3, SetStatusIs DEF MayRun

LEMMA LockSteps ==
  ASSUME [Next]_vars
  PROVE  \/ lock' = lock
         \/ EnsureBegin \/ EnsureEnd
         \/ lock = "free" /\ lock' = "abort" /\ UNCHANGED status
         \/ lock = "abort" /\ lock' = "free"
BY DEF Next, NewChange, Abort, PruneAbort, Prune, EnsureStep, EnsureKill, EnsureTryUndo,
       EnsureSkip, EnsureClean, EnsureCannotUndo, EnsureRun, HandlerReturns, HandlerDone,
       HandlerRetry, HandlerWait, HandlerError, TimeArrives, CleanupReturns, AbortStep, AbortTask,
       AbortLanes, AbortEnd, AbortOver, ErrorEnd, ForgetAbort, Stop, Restart, Returns, Holds,
       taskVars, vars

LEMMA NextStart ==
  ASSUME TypeOK, HoldInv, NothingBeforeMade, TombStatus, FailingBegun, StartInv, [Next]_vars
  PROVE  StartInv'
<1> USE DEF StartInv
<1>1. WaitedIs'
  <2>1. UNCHANGED waited \/ \E t \in Task : HandlerWait(t)
    BY DEF Next, NewChange, Abort, PruneAbort, Prune, EnsureBegin, EnsureStep, EnsureKill,
           EnsureTryUndo, EnsureSkip, EnsureClean, EnsureCannotUndo, EnsureRun, EnsureEnd,
           HandlerReturns, HandlerDone, HandlerRetry, HandlerError, TimeArrives, CleanupReturns,
           AbortStep, AbortTask, AbortLanes, AbortEnd, ErrorEnd, Stop, Restart, vars, taskVars
  <2>2. ASSUME NEW t \in Task, HandlerWait(t) PROVE WaitedIs'
    BY <2>2 DEF HandlerWait, WaitedIs, TypeOK
  <2> QED BY <2>1, <2>2 DEF WaitedIs
<1>2. StartedAfter'
  <2> SUFFICES ASSUME NEW t \in Task, ~NotDone(t)', NEW w \in WaitTasks[t]
               PROVE  status'[w] \in Past
    BY DEF StartedAfter
  <2>1. w \in Task
    BY WaitsAre
  <2>2. status[w] \in Past
    <3>1. CASE ~NotDone(t)
      BY <3>1 DEF StartedAfter
    <3>2. CASE NotDone(t)
      <4>1. EnsureRun(t) /\ status[t] = "Do"
        BY <3>2, BeginsByRun
      <4> QED BY <4>1 DEF EnsureRun, Runnable, MustWait, Past
    <3> QED BY <3>1, <3>2
  <2> QED BY <2>1, <2>2, PastStays
<1>3. Visited'
  <2> SUFFICES ASSUME lock' = "ensure", NEW t \in Task, MayRun(t)' PROVE t \in visit'
    BY DEF Visited
  <2>1. CASE EnsureBegin
    BY <2>1 DEF EnsureBegin, MayRun, Linked, taskVars
  <2>2. CASE ~EnsureBegin
    <3>1. lock = "ensure"
      BY <2>2, LockSteps DEF EnsureEnd
    <3>2. MayRun(t)
      BY <3>1, RunsNoMore
    <3>3. t \in visit
      BY <3>1, <3>2 DEF Visited
    <3> QED BY <3>1, <3>2, <3>3, LeftOut
  <2> QED BY <2>1, <2>2
<1>4. Together'
  <2> SUFFICES ASSUME NEW t \in Task, NEW v \in Task, Linked(t)', ChangeOf[v] = ChangeOf[t],
                      WaitTasks[t] \subseteq WaitTasks[v], status'[t] = "Do", ~NotDone(v)'
               PROVE  lock' = "ensure" /\ MayRun(t)'
    BY DEF Together
  <2>1. status[t] = "Do"
    BY DoWasDo
  <2>2. Linked(t)
    <3>1. status'[v] # "Do" => Made(v)
      <4>1. NotDone(v) => EnsureRun(v)
        BY BeginsByRun
      <4>2. status[v] # "Do" => Made(v)
        BY DEF NothingBeforeMade
      <4>3. EnsureRun(v) => v \in visit
        BY DEF EnsureRun, Considering
      <4> QED BY <4>1, <4>2, <4>3 DEF NotDone, NothingBeforeMade
    <3>2. phase'[ChangeOf[t]] = "live" => phase[ChangeOf[t]] \in {"live", "new"}
      <4>1. UNCHANGED phase \/ \E c \in Change : NewChange(c) \/ Prune(c)
        BY DEF Next, Abort, PruneAbort, EnsureBegin, EnsureStep, EnsureKill, EnsureTryUndo,
               EnsureSkip, EnsureClean, EnsureCannotUndo, EnsureRun, EnsureEnd, HandlerReturns,
               HandlerDone, HandlerRetry, HandlerWait, HandlerError, TimeArrives, CleanupReturns,
               AbortStep, AbortTask, AbortLanes, AbortEnd, ErrorEnd, Stop, Restart, Returns, vars,
               taskVars
      <4>2. phase \in [Change -> {"new", "live", "gone"}] /\ ChangeOf[t] \in Change
        BY StructureAssumption DEF TypeOK, StructureAssumption
      <4>3. ASSUME NEW c \in Change, NewChange(c) \/ Prune(c), phase'[ChangeOf[t]] = "live"
            PROVE  phase[ChangeOf[t]] \in {"live", "new"}
        <5>1. phase[c] \in {"live", "new"}
          BY <4>3 DEF NewChange, Prune
        <5>2. phase' = [phase EXCEPT ![c] = "live"] \/ phase' = [phase EXCEPT ![c] = "gone"]
          BY <4>3 DEF NewChange, Prune
        <5> QED BY <4>2, <4>3, <5>1, <5>2
      <4> QED BY <4>1, <4>3
    <3> QED BY <3>1, <3>2 DEF Made, Linked, NotDone
  <2>3. lock = "ensure" /\ MayRun(t)
    <3>1. CASE ~NotDone(v)
      BY <2>1, <2>2, <3>1 DEF Together
    <3>2. CASE NotDone(v)
      <4>1. EnsureRun(v) /\ status[v] = "Do"
        BY <3>2, BeginsByRun
      <4>2. lock = "ensure" /\ \A w \in WaitTasks[v] : status[w] = "Done"
        BY <4>1 DEF EnsureRun, Runnable, MustWait, Considering, Holds
      <4> QED BY <2>1, <2>2, <4>2 DEF MayRun
    <3> QED BY <3>1, <3>2
  <2>4. lock' = "ensure"
    <3>1. t \in visit
      BY <2>3 DEF Visited
    <3> QED BY <2>3, <3>1, LockSteps DEF EnsureBegin, MayEnsure, Holds, EnsureEnd
  <2>5. \A w \in WaitTasks[t] : status'[w] = "Done"
    BY <2>3, DoneStays, WaitsAre DEF MayRun
  <2> QED BY <2>4, <2>5 DEF MayRun
<1> QED BY <1>1, <1>2, <1>3, <1>4

-----------------------------------------------------------------------------
(***************************************************************************)
(* An abort begins where everything is at rest between two operations.     *)
(***************************************************************************)
LEMMA LeastRank ==
  ASSUME NEW S \in SUBSET Task, S # {}
  PROVE  \E t \in S : \A u \in S : Rank[t] <= Rank[u]
<1> DEFINE T == {Rank[t] : t \in S}
           R == OpToRel(<, Nat)
<1>1. T \subseteq Nat /\ T # {}
  BY StructureAssumption DEF StructureAssumption
<1>2. IsWellFoundedOn(R, Nat)
  BY NatLessThanWellFounded
<1>3. \A x, y \in Nat : x < y => <<x, y>> \in R
  BY DEF OpToRel
<1> HIDE DEF T, R
<1>4. PICK x \in T : \A y \in T : ~(<<y, x>> \in R)
  BY <1>1, <1>2, WFMin
<1>5. ASSUME NEW y \in T PROVE x <= y
  <2>1. x \in Nat /\ y \in Nat
    BY <1>1
  <2>2. ~(y < x)
    BY <1>3, <1>4, <2>1
  <2> QED BY <2>1, <2>2
<1> QED BY <1>4, <1>5 DEF T

\* The first of some tasks to do waits for none of them; what it waits for is done.
LEMMA FirstToDo ==
  ASSUME TypeOK, HoldInv, lock = "free", NEW S \in SUBSET Task, S # {},
         \A t \in S : status[t] = "Do"
  PROVE  \E t \in S : \A w \in WaitTasks[t] :
           w \notin S /\ (status[w] \notin Begun \cup {"Do"} => status[w] = "Done")
<1>1. PICK t \in S : \A u \in S : Rank[t] <= Rank[u]
  BY LeastRank
<1>2. ASSUME NEW w \in WaitTasks[t]
      PROVE  w \notin S /\ (status[w] \notin Begun \cup {"Do"} => status[w] = "Done")
  <2>1. w \in Task /\ t \in HaltTasks(w) /\ Rank[w] \in Nat /\ Rank[t] \in Nat
    BY WaitsAre, StructureAssumption DEF StructureAssumption
  <2>2. Rank[w] < Rank[t]
    BY OrderAssumption DEF OrderAssumption
  <2>3. w \notin S
    BY <1>1, <2>1, <2>2
  <2>4. status[w] \notin Given
    BY <2>1 DEF HoldInv, GivenUpHolds, NoAbort
  <2>5. status[w] \in Status
    BY <2>1 DEF TypeOK
  <2> QED BY <2>3, <2>4, <2>5 DEF Given, Begun, Status
<1> QED BY <1>1, <1>2

LEMMA UnreadyIs ==
  ASSUME TypeOK, NEW t \in Task, ~IsReady(status[t])
  PROVE  status[t] = "Do" \/ status[t] \in Begun
BY DEF TypeOK, Status, IsReady, Begun

LEMMA AbortBegins ==
  ASSUME TypeOK, HoldInv, StartInv, NEW c \in Change, Abort(c)
  PROVE  AbortSafe'
<1>1. /\ lock = "free" /\ Abortable(c) /\ subject' = c /\ UNCHANGED status
      /\ \A t \in Task : queue'[t] = IF ChangeOf[t] = c THEN 1 ELSE 0
  BY DEF Abort, Holds, taskVars
<1>2. \A t \in Task : InQueue(t)' => ChangeOf[t] = subject'
  BY <1>1 DEF InQueue
<1>3. SUFFICES ASSUME \A t \in TasksOf(c) : status[t] \notin Begun
               PROVE  DoneFirst' \/ NoneDone'
  BY <1>1, <1>2 DEF AbortSafe, SomeBegun, TasksOf
<1> DEFINE S == {t \in TasksOf(c) : status[t] = "Do"}
<1>4. S \in SUBSET Task /\ S # {} /\ \A t \in S : status[t] = "Do"
  BY <1>1, <1>3, UnreadyIs DEF Abortable, AllReady, TasksOf
<1> HIDE DEF S
<1>5. PICK t \in S : \A w \in WaitTasks[t] :
        w \notin S /\ (status[w] \notin Begun \cup {"Do"} => status[w] = "Done")
  BY <1>1, <1>4, FirstToDo
<1>6. t \in TasksOf(c) /\ t \in Task /\ ChangeOf[t] = c /\ status[t] = "Do"
  BY DEF S, TasksOf
<1>7. ASSUME NEW w \in WaitTasks[t] PROVE DoneFirst'
  <2>1. w \in Task /\ w \in TasksOf(c) /\ ChangeOf[w] = c
    BY <1>6, WaitsAre DEF TasksOf
  <2>2. status[w] = "Done"
    BY <1>3, <1>5, <2>1 DEF S
  <2> QED BY <1>1, <1>6, <2>1, <2>2 DEF DoneFirst, TasksOf
<1>8. ASSUME WaitTasks[t] = {} PROVE NoneDone'
  <2>1. Linked(t)
    BY <1>1, <1>6 DEF Linked, Abortable
  <2>2. \A x \in TasksOf(c) : NotDone(x)
    BY <1>1, <1>6, <1>8, <2>1 DEF StartInv, Together, TasksOf
  <2> QED BY <1>1, <2>2 DEF NoneDone, NotDone, TasksOf
<1> QED BY <1>7, <1>8

LEMMA PruneBegins ==
  ASSUME LanesApart, ReadyInv, ~panicked, HoldInv, StartInv, NEW c \in Change, PruneAbort(c)
  PROVE  AbortSafe'
<1> DEFINE L == UNION {LanesOf(t) : t \in {u \in TasksOf(c) : ~IsReady(status[u])}}
<1>0. TypeOK
  BY DEF ReadyInv
<1>1. /\ lock = "free" /\ phase[c] = "live" /\ subject' = c /\ lanesLeft' = L
      /\ UNCHANGED <<status, seen, queue>> /\ seen = {} /\ \A t \in Task : ~InQueue(t)
  BY DEF PruneAbort, Holds, taskVars, HoldInv, NoAbort
<1>2. \A t \in Task : ~InQueue(t)'
  BY <1>1 DEF InQueue
<1>3. SUFFICES ASSUME \A t \in TasksOf(c) : status[t] \notin Begun, ~DoneFirst',
                      NEW x \in TasksOf(c), Reached(x)'
               PROVE  NotDone(x)
  BY <1>1, <1>2 DEF AbortSafe, SomeBegun, NoneDone, TasksOf, NotDone
<1>4. PICK d \in TasksOf(c) : status[d] = "Do" /\ LanesOf(x) \cap LanesOf(d) # {}
                              /\ LanesOf(d) \subseteq L
  <2>1. LanesOf(x) \cap L # {}
    BY <1>1, <1>2, <1>3 DEF Reached, LanesOf
  <2>2. PICK d \in TasksOf(c) : ~IsReady(status[d]) /\ LanesOf(x) \cap LanesOf(d) # {}
    BY <2>1
  <2>3. status[d] = "Do"
    BY <1>0, <1>3, <2>2, UnreadyIs DEF TasksOf
  <2> QED BY <2>2, <2>3
<1>5. x \in Task /\ d \in Task /\ ChangeOf[x] = c /\ ChangeOf[d] = c /\ Lanes[x] = Lanes[d]
  BY <1>4 DEF LanesApart, TasksOf
<1> HIDE DEF L
<1> DEFINE S == {t \in TasksOf(c) : status[t] = "Do" /\ Lanes[t] = Lanes[d]}
<1>6. S \in SUBSET Task /\ S # {} /\ \A t \in S : status[t] = "Do"
  BY <1>4 DEF TasksOf
<1> HIDE DEF S
<1>7. PICK t \in S : \A w \in WaitTasks[t] :
        w \notin S /\ (status[w] \notin Begun \cup {"Do"} => status[w] = "Done")
  BY <1>0, <1>1, <1>6, FirstToDo
<1>8. t \in TasksOf(c) /\ t \in Task /\ ChangeOf[t] = c /\ status[t] = "Do" /\ Lanes[t] = Lanes[d]
  BY DEF S, TasksOf
\* A task done that it waits for in its own lanes would be taken before it.
<1>9. ASSUME NEW w \in WaitTasks[t], Lanes[w] = Lanes[t] PROVE FALSE
  <2>1. w \in Task /\ w \in TasksOf(c)
    BY <1>8, WaitsAre DEF TasksOf
  <2>2. status[w] = "Done"
    BY <1>3, <1>7, <1>8, <1>9, <2>1 DEF S
  <2>3. LanesOf(t) \subseteq L /\ LanesOf(w) \subseteq L
    BY <1>4, <1>8, <1>9 DEF LanesOf
  <2>4. DoneFirst'
    BY <1>1, <1>2, <1>8, <2>2, <2>3 DEF DoneFirst, LanesOf, TasksOf
  <2> QED BY <1>3, <2>4
\* So x waits for all that t waits for: it would have begun when t was last visited.
<1>10. WaitTasks[t] \subseteq WaitTasks[x]
  <2>1. WaitsOutside(t) = WaitsOutside(x)
    BY <1>5, <1>8, OrderAssumption DEF OrderAssumption
  <2> QED BY <1>9, <2>1 DEF WaitsOutside
<1> QED BY <1>1, <1>5, <1>8, <1>10 DEF StartInv, Together, Linked

(***************************************************************************)
(* An abort goes on.                                                       *)
(***************************************************************************)
LEMMA AllLanesTaken ==
  ASSUME NEW t \in TasksOf(subject), NEW L, LanesOf(t) \subseteq L
  PROVE  t \in LaneTasks(L)
<1>1. t \in Task /\ LanesOf(t) # {}
  BY HasLane DEF TasksOf
<1>2. ASSUME NEW l \in LanesOf(t), NEW u \in Task, l \in Tracked(u, L) PROVE FALSE
  <2>1. PICK i \in DOMAIN Lanes[u] : Lanes[u][i] = l /\ \A j \in 1..i : Lanes[u][j] \notin L
    BY <1>2 DEF Tracked
  <2>2. i \in 1..i
    <3>1. Lanes[u] \in Seq(Lane)
      BY StructureAssumption DEF StructureAssumption
    <3> QED BY <3>1, <2>1
  <2> QED BY <2>1, <2>2
<1>3. \A l \in LanesOf(t) : ~Healthy(l, L)
  BY <1>2 DEF Healthy, TasksOf
<1> QED BY <1>1, <1>3 DEF LaneTasks, TasksOf

LEMMA AbortLanesSafe ==
  ASSUME LanesApart, TypeOK, AbortSafe, AbortLanes
  PROVE  AbortSafe'
<1>1. /\ lock = "abort" /\ lock' = lock /\ lanesLeft' = {}
      /\ UNCHANGED <<subject, status, seen>> /\ \A t \in Task : ~InQueue(t)
      /\ \A t \in Task : queue'[t] = IF t \in LaneTasks(lanesLeft) \ seen THEN 1 ELSE 0
  BY DEF AbortLanes, Holds, taskVars
<1>2. \A t \in Task : InQueue(t)' => t \in LaneTasks(lanesLeft)
  BY <1>1 DEF InQueue
<1>3. CASE SomeBegun
  BY <1>1, <1>2, <1>3 DEF AbortSafe, SomeBegun, LaneTasks, TasksOf
<1>4. CASE DoneFirst
  <2>1. PICK t \in TasksOf(subject) : \E w \in WaitTasks[t] :
          /\ status[t] = "Do" /\ status[w] = "Done" /\ seen = {}
          /\ LanesOf(t) \cup LanesOf(w) \subseteq lanesLeft
    BY <1>1, <1>4 DEF DoneFirst, InQueue, TasksOf
  <2>2. PICK w \in WaitTasks[t] : /\ status[t] = "Do" /\ status[w] = "Done" /\ seen = {}
                                  /\ LanesOf(t) \cup LanesOf(w) \subseteq lanesLeft
    BY <2>1
  <2>3. w \in TasksOf(subject)
    BY WaitsAre DEF TasksOf
  <2>4. queue'[t] = 1 /\ queue'[w] = 1
    BY <1>1, <2>2, <2>3, AllLanesTaken DEF TasksOf
  <2>5. DoneFirst'
    BY <1>1, <2>2, <2>4 DEF DoneFirst, TasksOf
  <2> QED BY <1>1, <1>2, <2>5 DEF AbortSafe, LaneTasks, TasksOf
<1>5. CASE NoneDone
  <2>1. ASSUME NEW x \in TasksOf(subject), Reached(x)' PROVE NotDone(x)
    <3>1. PICK q \in Task : InQueue(q)' /\ Lanes[q] = Lanes[x]
      BY <1>1, <2>1 DEF Reached
    <3>2. LanesOf(x) \cap lanesLeft # {}
      BY <1>2, <3>1 DEF LaneTasks, LanesOf
    <3> QED BY <1>5, <3>2 DEF NoneDone, Reached
  <2>2. NoneDone'
    BY <1>1, <2>1 DEF NoneDone, NotDone, TasksOf
  <2> QED BY <1>1, <1>2, <2>2 DEF AbortSafe, LaneTasks, TasksOf
<1> QED BY <1>1, <1>3, <1>4, <1>5 DEF AbortSafe

LEMMA AbortTaskSafe ==
  ASSUME LanesApart, TypeOK, StartInv, AbortSafe, NEW q \in Task, AbortTask(q)
  PROVE  AbortSafe'
<1>1. /\ lock = "abort" /\ lock' = lock /\ UNCHANGED subject /\ InQueue(q) /\ InTurn(q)
      /\ \A t \in Task : InQueue(t)' => InQueue(t) \/ t \in HaltTasks(q)
      /\ \A t \in Task : t # q /\ InQueue(t) => queue'[t] = queue[t]
      /\ lanesLeft' \subseteq lanesLeft \cup LanesOf(q)
  BY DEF AbortTask, Holds, InQueue, TypeOK
<1>2. \A u \in Task : status'[u] = IF u = q THEN AbortedStatus(q) ELSE status[u]
  BY StatusIs DEF AbortTask
<1>3. ChangeOf[q] = subject
  BY <1>1 DEF AbortSafe
<1>4. \A t \in Task : InQueue(t)' => ChangeOf[t] = subject'
  <2>1. \A h \in HaltTasks(q) : ChangeOf[h] = subject
    BY <1>3, WaitsAre DEF HaltTasks
  <2> QED BY <1>1, <2>1 DEF AbortSafe
\* What has begun is left to be undone or stopped.
<1>5. CASE SomeBegun
  <2>1. status[q] \in Begun => AbortedStatus(q) \in Begun
    BY DEF AbortedStatus, EffectiveStatus, StartInv, WaitedIs, Begun
  <2>2. SomeBegun'
    BY <1>1, <1>2, <1>5, <2>1 DEF SomeBegun, TasksOf
  <2> QED BY <1>4, <2>2 DEF AbortSafe
<1>6. CASE DoneFirst
  <2>1. PICK t \in TasksOf(subject) : \E w \in WaitTasks[t] :
          status[t] = "Do" /\ status[w] = "Done" /\ queue[t] = 1 /\ queue[w] = 1
    BY <1>1, <1>6 DEF DoneFirst
  <2>2. PICK w \in WaitTasks[t] :
          status[t] = "Do" /\ status[w] = "Done" /\ queue[t] = 1 /\ queue[w] = 1
    BY <2>1
  <2>3. t \in Task /\ w \in Task /\ w # t /\ w \in TasksOf(subject)
    BY WaitsAre DEF TasksOf
  <2>4. q # t
    <3>1. Rank[w] < Rank[t] /\ Rank[w] \in Nat /\ Rank[t] \in Nat
      BY <2>3, StructureAssumption, OrderAssumption DEF StructureAssumption, OrderAssumption
    <3> QED BY <1>1, <2>2, <2>3, <3>1 DEF InTurn, InQueue
  <2>5. CASE q = w
    <3>1. status'[w] = "Undo"
      BY <1>2, <2>2, <2>3, <2>5 DEF AbortedStatus, EffectiveStatus
    <3>2. SomeBegun'
      BY <1>1, <2>3, <3>1 DEF SomeBegun, Begun, TasksOf
    <3> QED BY <1>4, <3>2 DEF AbortSafe
  <2>6. CASE q # w
    <3>1. queue'[t] = 1 /\ queue'[w] = 1
      BY <1>1, <2>2, <2>3, <2>4, <2>6 DEF InQueue
    <3>2. DoneFirst'
      BY <1>1, <1>2, <2>2, <2>3, <2>4, <2>6, <3>1 DEF DoneFirst, TasksOf
    <3> QED BY <1>4, <3>2 DEF AbortSafe
  <2> QED BY <2>5, <2>6
\* Tasks in the lanes of one that waits for q wait for q too, so they never began.
<1>7. CASE NoneDone
  <2>0. NotDone(q)
    BY <1>1, <1>3, <1>7 DEF NoneDone, Reached, TasksOf
  <2>1. ASSUME NEW x \in TasksOf(subject), Reached(x)' PROVE NotDone(x)
    <3>0. x \in Task /\ ChangeOf[x] = subject
      BY DEF TasksOf
    <3>1. ASSUME Lanes[x] = Lanes[q] PROVE NotDone(x)
      BY <1>1, <1>7, <3>1 DEF NoneDone, Reached
    <3>2. ASSUME NEW h \in HaltTasks(q), Lanes[x] = Lanes[h], Lanes[x] # Lanes[q]
          PROVE  NotDone(x)
      <4>1. h \in Task /\ ChangeOf[h] = subject /\ q \in WaitsOutside(h)
        BY <1>3, <3>2, WaitsAre DEF HaltTasks, WaitsOutside
      <4>2. q \in WaitTasks[x]
        BY <3>0, <3>2, <4>1, OrderAssumption DEF OrderAssumption, WaitsOutside
      <4>3. status[q] \notin Past
        BY <2>0 DEF NotDone, Past
      <4> QED BY <3>0, <4>2, <4>3 DEF StartInv, StartedAfter
    <3>3. CASE \E p \in Task : InQueue(p)' /\ Lanes[p] = Lanes[x]
      BY <1>1, <1>7, <3>1, <3>2, <3>3 DEF NoneDone, Reached
    <3>4. CASE LanesOf(x) \cap lanesLeft' # {}
      <4>1. CASE LanesOf(x) \cap lanesLeft # {}
        BY <1>7, <4>1 DEF NoneDone, Reached
      <4>2. CASE LanesOf(x) \cap LanesOf(q) # {}
        BY <1>3, <3>0, <3>1, <4>2 DEF LanesApart
      <4> QED BY <1>1, <3>4, <4>1, <4>2
    <3> QED BY <2>1, <3>3, <3>4 DEF Reached, LanesOf
  <2>2. AbortedStatus(q) \in {"Do", "Hold"}
    BY <2>0 DEF AbortedStatus, EffectiveStatus, NotDone
  <2>3. NoneDone'
    BY <1>1, <1>2, <2>1, <2>2 DEF NoneDone, NotDone, TasksOf
  <2> QED BY <1>4, <2>3 DEF AbortSafe
<1> QED BY <1>1, <1>5, <1>6, <1>7 DEF AbortSafe

-----------------------------------------------------------------------------
(***************************************************************************)
(* A change that is ready stays as it is, and nothing panics.              *)
(***************************************************************************)
LEMMA ReadyRests ==
  ASSUME ReadyInv, ~panicked, AtRest, NEW c \in Change, c \in ready
  PROVE  AllReady(c)
<1>1. phase[c] \in {"live", "gone"}
  BY DEF ReadyInv, TypeOK, NothingBeforeMade
<1> QED BY <1>1 DEF AtRest, ReadyInv, ReadyIffSettled

\* While an abort has a change to take that is not ready, it leaves something in it unready.
LEMMA RestIsFinal ==
  ASSUME TypeOK, TombStatus, FailingBegun, AbortSafe, [Next]_vars,
         NEW c \in Change, AllReady(c)
  PROVE  (\A t \in TasksOf(c) : status'[t] = status[t]) /\ AllReady(c)'
<1>1. ASSUME NEW t \in TasksOf(c), NEW s, Step(t, s) PROVE s = status[t]
  <2>1. t \in Task /\ ChangeOf[t] = c /\ IsReady(status[t])
    BY DEF TasksOf, AllReady
  <2>2. CASE AbortTask(t)
    <3>1. lock = "abort" /\ InQueue(t) /\ subject = c
      BY <2>1, <2>2 DEF AbortTask, Holds, AbortSafe
    <3>2. ~SomeBegun
      BY <3>1 DEF SomeBegun, AllReady, IsReady, Begun
    <3>3. ~DoneFirst
      BY <3>1 DEF DoneFirst, AllReady, IsReady
    <3>4. NotDone(t)
      BY <2>1, <3>1, <3>2, <3>3 DEF AbortSafe, NoneDone, Reached
    <3>5. status[t] = "Hold"
      BY <2>1, <3>4 DEF NotDone, IsReady
    <3>6. s = AbortedStatus(t)
      BY <1>1, <2>1, <2>2, <3>1
      DEF Step, EnsureRun, EnsureCannotUndo, Considering, Holds, IsReady, ErrorEnd, AbortOver
    <3> QED BY <3>5, <3>6 DEF AbortedStatus, EffectiveStatus
  <2>3. CASE ~AbortTask(t)
    BY <1>1, <2>1, <2>3 DEF Step, IsReady, EnsureCannotUndo, CannotUndo, ErrorEnd, FailingBegun
  <2> QED BY <2>2, <2>3
<1>2. \A t \in TasksOf(c) : status'[t] = status[t]
  BY <1>1, StatusSteps DEF Sets, TasksOf
<1> QED BY <1>2 DEF AllReady

\* detectChangeReady panics only where a task that is ready becomes unready, and
\* taskCleanChanged only where the change is not ready.
Unsettles(t) ==
  /\ AbortTask(t) /\ IsReady(status[t]) /\ ~IsReady(AbortedStatus(t)) /\ SettledOthers(t)
  /\ ChangeOf[t] \in ready

LEMMA PanicSteps ==
  ASSUME TypeOK, TombStatus, FailingBegun, ~panicked, [Next]_vars
  PROVE  \/ ~panicked'
         \/ \E t \in Task : Unsettles(t)
         \/ \E t \in Task : tomb[t] = "cleanup" /\ Linked(t) /\ ChangeOf[t] \notin ready
<1> DEFINE Goal == \/ ~panicked'
                   \/ \E t \in Task : Unsettles(t)
                   \/ \E t \in Task : tomb[t] = "cleanup" /\ Linked(t) /\ ChangeOf[t] \notin ready
<1>a. ASSUME NEW t \in Task, NEW s, ChangeStatus(t, s), ~IsReady(status[t]) PROVE ~panicked'
  <2>1. (IsReady(s) # IsReady(status[t])) => IsReady(s)
    BY <1>a DEF IsReady
  <2> QED BY <1>a, <2>1 DEF ChangeStatus
<1>b. ASSUME NEW t \in Task, NEW s, SetStatus(t, s), ~IsReady(status[t]) PROVE ~panicked'
  BY <1>a, <1>b DEF SetStatus
<1>c. ASSUME NEW t \in Task, TryUndo(t), status[t] = "Abort" PROVE ~panicked'
  BY <1>b, <1>c DEF TryUndo, IsReady
<1>1. ASSUME NEW t \in Task, EnsureTryUndo(t) PROVE Goal
  BY <1>1, <1>c DEF EnsureTryUndo
<1>2. ASSUME NEW t \in Task, EnsureCannotUndo(t) PROVE Goal
  BY <1>2, <1>b DEF EnsureCannotUndo, CannotUndo, IsReady
<1>3. ASSUME NEW t \in Task, EnsureRun(t) PROVE Goal
  <2>1. PICK s : SetStatus(t, s) /\ ~IsReady(status[t])
    BY <1>3 DEF EnsureRun, Runnable, IsReady
  <2> QED BY <1>b, <2>1
<1>4. ASSUME NEW t \in Task, HandlerDone(t) PROVE Goal
  <2>1. PICK s : SetStatus(t, s) /\ ~IsReady(status[t])
    BY <1>4 DEF HandlerDone, IsReady
  <2> QED BY <1>b, <2>1
<1>5. ASSUME NEW t \in Task, (\E after \in BOOLEAN : HandlerRetry(t, after)) \/ HandlerWait(t)
      PROVE  Goal
  <2>1. ~IsReady(status[t])
    BY <1>5 DEF HandlerRetry, HandlerWait, Returns, TombStatus, IsReady
  <2>2. (TryUndo(t) /\ status[t] = "Abort") \/ ChangeStatus(t, "Wait") \/ UNCHANGED panicked
    BY <1>5 DEF HandlerRetry, HandlerWait
  <2> QED BY <1>a, <1>c, <2>1, <2>2
<1>6. ASSUME NEW t \in Task, AbortTask(t) PROVE Goal
  <2>1. ChangeStatus(t, AbortedStatus(t))
    BY <1>6 DEF AbortTask
  <2>2. CASE IsReady(status[t]) /\ ~IsReady(AbortedStatus(t)) /\ SettledOthers(t)
             /\ ChangeOf[t] \in ready
    BY <1>6, <2>2 DEF Unsettles
  <2>3. CASE ~(IsReady(status[t]) /\ ~IsReady(AbortedStatus(t)) /\ SettledOthers(t)
               /\ ChangeOf[t] \in ready)
    <3>1. IsReady(status[t]) \in BOOLEAN /\ IsReady(AbortedStatus(t)) \in BOOLEAN
      BY DEF IsReady
    <3> QED BY <2>1, <2>3, <3>1 DEF ChangeStatus
  <2> QED BY <2>2, <2>3
<1>7. ASSUME ErrorEnd PROVE Goal
  <2>1. failing \in Task /\ SetStatus(failing, "Error") /\ ~IsReady(status[failing])
    BY <1>7 DEF ErrorEnd, TypeOK, FailingBegun, IsReady
  <2> QED BY <1>b, <2>1
<1>8. ASSUME NEW t \in Task, NEW ok \in BOOLEAN, CleanupReturns(t, ok) PROVE Goal
  BY <1>8 DEF CleanupReturns
<1>9. \/ UNCHANGED panicked \/ ErrorEnd
      \/ \E t \in Task : \/ EnsureTryUndo(t) \/ EnsureCannotUndo(t) \/ EnsureRun(t)
                         \/ HandlerDone(t) \/ (\E after \in BOOLEAN : HandlerRetry(t, after))
                         \/ HandlerWait(t) \/ AbortTask(t)
                         \/ \E ok \in BOOLEAN : CleanupReturns(t, ok)
  BY DEF Next, NewChange, Abort, PruneAbort, Prune, EnsureBegin, EnsureStep, EnsureKill,
         EnsureSkip, EnsureClean, EnsureEnd, HandlerReturns, HandlerError, TimeArrives,
         AbortStep, AbortLanes, AbortEnd, Stop, Restart, vars
<1> QED BY <1>1, <1>2, <1>3, <1>4, <1>5, <1>6, <1>7, <1>8, <1>9

LEMMA NextFinal ==
  ASSUME LanesApart, ReadyInv, HoldInv, StartInv, FinalInv, [Next]_vars
  PROVE  FinalInv'
<1> USE DEF FinalInv
<1>0. TypeOK /\ TypeOK'
  BY NextType DEF ReadyInv
<1>1. TombStatus' /\ FailingBegun'
  BY <1>0, NextTombs
<1>2. AbortSafe'
  <2> SUFFICES ASSUME lock' = "abort" PROVE AbortSafe'
    BY DEF AbortSafe
  <2>1. ASSUME NEW t \in Task, HandlerError(t) PROVE AbortSafe'
    <3>1. /\ subject' = ChangeOf[t] /\ UNCHANGED <<status, queue>> /\ \A u \in Task : ~InQueue(u)
          /\ tomb[t] \in {"do", "undo"}
      BY <2>1 DEF HandlerError, Returns, Holds, HoldInv, NoAbort
    <3>2. status'[t] \in Begun
      BY <3>1 DEF TombStatus, Begun
    <3>3. SomeBegun'
      BY <3>1, <3>2 DEF SomeBegun, TasksOf
    <3> QED BY <3>1, <3>3 DEF AbortSafe, InQueue
  <2>2. CASE UNCHANGED vars
    <3>1. UNCHANGED <<lock, queue, subject, status, seen, lanesLeft>>
      BY <2>2 DEF vars, taskVars, abortVars
    <3> QED BY <3>1
      DEF AbortSafe, SomeBegun, DoneFirst, NoneDone, NotDone, Reached, InQueue, TasksOf
  <2>3. \/ \E c \in Change : Abort(c) \/ PruneAbort(c)
        \/ \E t \in Task : HandlerError(t) \/ AbortTask(t)
        \/ AbortLanes \/ UNCHANGED vars
    BY DEF Next, NewChange, Prune, EnsureBegin, EnsureStep, EnsureKill, EnsureTryUndo,
           EnsureSkip, EnsureClean, EnsureCannotUndo, EnsureRun, EnsureEnd, HandlerReturns,
           HandlerDone, HandlerRetry, HandlerWait, TimeArrives, CleanupReturns, AbortStep,
           AbortEnd, ErrorEnd, ForgetAbort, Stop, Restart, Considering, MayEnsure, Returns, Holds
  <2> QED BY <1>0, <2>1, <2>2, <2>3, AbortBegins, PruneBegins, AbortLanesSafe, AbortTaskSafe
<1>3. ~panicked'
  <2>1. ASSUME NEW t \in Task, Unsettles(t) PROVE FALSE
    <3>1. t \in TasksOf(ChangeOf[t]) /\ ChangeOf[t] \in Change
      BY StructureAssumption DEF StructureAssumption, TasksOf
    <3>2. AllReady(ChangeOf[t])
      BY <2>1, <3>1, ReadyRests DEF Unsettles
    <3>3. \A u \in Task : status'[u] = IF u = t THEN AbortedStatus(t) ELSE status[u]
      BY <1>0, <2>1, StatusIs DEF Unsettles, AbortTask
    <3>4. AllReady(ChangeOf[t])'
      BY <1>0, <3>1, <3>2, RestIsFinal
    <3> QED BY <2>1, <3>1, <3>3, <3>4 DEF Unsettles, AllReady, TasksOf
  <2>2. ASSUME NEW t \in Task, tomb[t] = "cleanup", Linked(t), ChangeOf[t] \notin ready
        PROVE  FALSE
    <3>1. ChangeOf[t] \in Change
      BY StructureAssumption DEF StructureAssumption
    <3> QED BY <2>2, <3>1 DEF AtRest, ReadyInv, ReadyIffSettled, Linked
  <2> QED BY <1>0, <2>1, <2>2, PanicSteps
<1>4. AtRest'
  <2>1. ASSUME NEW c \in Change, phase'[c] = "gone" PROVE AllReady(c)'
    <3>1. CASE phase[c] = "gone"
      BY <1>0, <3>1, RestIsFinal DEF AtRest
    <3>2. CASE phase[c] # "gone"
      <4>1. UNCHANGED phase \/ \E d \in Change : NewChange(d) \/ Prune(d)
        BY DEF Next, Abort, PruneAbort, EnsureBegin, EnsureStep, EnsureKill, EnsureTryUndo,
               EnsureSkip, EnsureClean, EnsureCannotUndo, EnsureRun, EnsureEnd, HandlerReturns,
               HandlerDone, HandlerRetry, HandlerWait, HandlerError, TimeArrives, CleanupReturns,
               AbortStep, AbortTask, AbortLanes, AbortEnd, ErrorEnd, Stop, Restart, Returns, vars,
               taskVars
      <4>2. c \in ready
        BY <1>0, <2>1, <3>2, <4>1 DEF NewChange, Prune, TypeOK
      <4>3. AllReady(c)
        BY <4>2, ReadyRests
      <4> QED BY <1>0, <4>3, RestIsFinal
    <3> QED BY <3>1, <3>2
  <2>2. ASSUME NEW t \in Task, tomb'[t] = "cleanup" PROVE AllReady(ChangeOf[t])'
    <3>1. ChangeOf[t] \in Change
      BY StructureAssumption DEF StructureAssumption
    <3>2. AllReady(ChangeOf[t])
      <4>1. CASE tomb[t] = "cleanup"
        BY <4>1 DEF AtRest
      <4>2. CASE EnsureClean(t)
        BY <3>1, <4>2, ReadyRests DEF EnsureClean, Cleanable
      <4>3. EnsureRun(t) => tomb'[t] # "cleanup"
        BY <1>0 DEF EnsureRun, TypeOK
      <4> QED BY <1>0, <2>2, <4>1, <4>2, <4>3, TombSteps
    <3> QED BY <1>0, <3>1, <3>2, RestIsFinal
  <2> QED BY <2>1, <2>2 DEF AtRest
<1> QED BY <1>1, <1>2, <1>3, <1>4

-----------------------------------------------------------------------------
(***************************************************************************)
(* The handlers of tasks that depend on each other keep apart.             *)
(***************************************************************************)
\* What is settled stays so.
LEMMA SettledStays ==
  ASSUME TypeOK, [Next]_vars, NEW u \in Task, Settled(u)
  PROVE  Settled(u)'
<1>1. Moves(u, status'[u])
  BY StatusMoves
<1> QED BY <1>1 DEF Moves, Settled, GivenUp, Given

\* A task leaves the work list only when it is taken.
LEMMA QueueStays ==
  ASSUME TypeOK, HoldInv, [Next]_vars, NEW h \in Task, InQueue(h)
  PROVE  InQueue(h)' \/ h \in seen'
<1>1. lock = "abort"
  BY DEF HoldInv, NoAbort
<1>2. UNCHANGED queue \/ \E t \in Task : AbortTask(t)
  BY <1>1
  DEF Next, NewChange, Abort, PruneAbort, Prune, EnsureBegin, EnsureStep, EnsureKill,
      EnsureTryUndo, EnsureSkip, EnsureClean, EnsureCannotUndo, EnsureRun, EnsureEnd,
      HandlerReturns, HandlerDone, HandlerRetry, HandlerWait, HandlerError, TimeArrives,
      CleanupReturns, AbortStep, AbortLanes, AbortEnd, ErrorEnd, AbortOver, Stop, Restart,
      abortVars, vars, Returns, Considering, MayEnsure, Holds
<1>3. ASSUME NEW t \in Task, AbortTask(t) PROVE InQueue(h)' \/ h \in seen'
  BY <1>3 DEF AbortTask, InQueue, TypeOK
<1> QED BY <1>2, <1>3 DEF InQueue

LEMMA DoAloneKept ==
  ASSUME TypeOK, ReadyInv, StartInv, FinalInv, DoAlone, [Next]_vars
  PROVE  DoAlone'
<1> SUFFICES ASSUME NEW t \in Task, status'[t] \in {"Doing", "Abort"}, NEW w \in WaitTasks[t]
             PROVE  status'[w] \in {"Done", "Undo"} /\ tomb'[w] = "none"
  BY DEF DoAlone
<1> USE DEF FinalInv
<1>0. /\ w \in Task /\ ChangeOf[w] = ChangeOf[t] /\ ChangeOf[t] \in Change
      /\ t \in HaltTasks(w) /\ t \in TasksOf(ChangeOf[t])
  BY StructureAssumption DEF StructureAssumption, HaltTasks, TasksOf
<1>1. CASE status[t] \in {"Doing", "Abort"} \/ (EnsureRun(t) /\ status[t] = "Do")
  <2>1. ~IsReady(status[t]) /\ ~AllReady(ChangeOf[t])
    BY <1>0, <1>1 DEF IsReady, AllReady
  <2>2. status[w] \in {"Done", "Undo"} /\ tomb[w] = "none"
    <3>1. CASE status[t] \in {"Doing", "Abort"}
      BY <3>1 DEF DoAlone
    <3>2. CASE EnsureRun(t) /\ status[t] = "Do"
      <4>1. status[w] = "Done"
        BY <3>2 DEF EnsureRun, Runnable, MustWait
      <4>2. tomb[w] # "cleanup"
        BY <1>0, <2>1 DEF AtRest
      <4> QED BY <1>0, <4>1, <4>2 DEF TombStatus, TypeOK
    <3> QED BY <1>1, <3>1, <3>2
  <2>3. ~EnsureRun(w)
    BY <1>0, <2>1, <2>2 DEF EnsureRun, Runnable, MustWait
  <2>4. ~EnsureClean(w)
    BY <1>0, <2>1, ReadyRests DEF EnsureClean, Cleanable
  <2>5. tomb'[w] = "none"
    BY <1>0, <2>2, <2>3, <2>4, TombSteps
  <2>6. ASSUME NEW s, Step(w, s) PROVE s \in {"Done", "Undo"}
    BY <2>2, <2>3, <2>6 DEF Step, AbortedStatus, EffectiveStatus, ErrorEnd, FailingBegun
  <2>7. status'[w] \in {"Done", "Undo"}
    BY <1>0, <2>2, <2>6, StatusSteps DEF Sets
  <2> QED BY <2>5, <2>7
<1>2. CASE ~(status[t] \in {"Doing", "Abort"} \/ (EnsureRun(t) /\ status[t] = "Do"))
  <2>1. ASSUME NEW s, Step(t, s), s \in {"Doing", "Abort"} PROVE FALSE
    <3>1. waited[t] \in {"Done", "Undone"}
      BY DEF StartInv, WaitedIs
    <3> QED BY <1>2, <2>1, <3>1 DEF Step, AbortedStatus, EffectiveStatus
  <2> QED BY <1>2, <2>1, StatusSteps DEF Sets
<1> QED BY <1>1, <1>2

LEMMA UndoAloneKept ==
  ASSUME TypeOK, ReadyInv, HoldInv, StartInv, FinalInv, UndoAlone, GivenTaken, [Next]_vars
  PROVE  UndoAlone'
<1> SUFFICES ASSUME NEW w \in Task, status'[w] = "Undoing"
             PROVE  /\ w \in HasUndo
                    /\ \A h \in HaltTasks(w) : /\ Settled(h)' /\ tomb'[h] = "none"
                                               /\ IsReady(status[h])' \/ CannotUndo(h)'
  BY DEF UndoAlone, HaltTasks
<1> USE DEF FinalInv
<1>0. ChangeOf[w] \in Change /\ w \in TasksOf(ChangeOf[w])
  BY StructureAssumption DEF StructureAssumption, TasksOf
<1>1. \A h \in HaltTasks(w) : h \in Task /\ ChangeOf[h] = ChangeOf[w]
  BY StructureAssumption DEF StructureAssumption, HaltTasks
<1>2. CASE status[w] = "Undoing" \/ (EnsureRun(w) /\ status[w] = "Undo")
  <2>1. ~AllReady(ChangeOf[w])
    BY <1>0, <1>2 DEF AllReady, IsReady
  <2>2. /\ w \in HasUndo
        /\ \A h \in HaltTasks(w) : /\ Settled(h) /\ tomb[h] = "none"
                                   /\ IsReady(status[h]) \/ CannotUndo(h)
    <3>1. CASE status[w] = "Undoing"
      BY <3>1 DEF UndoAlone
    <3>2. CASE EnsureRun(w) /\ status[w] = "Undo"
      <4>1. w \in HasUndo /\ \A h \in HaltTasks(w) : IsReady(status[h])
        BY <3>2 DEF EnsureRun, Runnable, MustWait, CannotUndo
      <4>2. \A h \in HaltTasks(w) : Settled(h)
        BY <1>1, <3>2 DEF GivenTaken, Given, EnsureRun, Considering, Holds, HoldInv, NoAbort
      <4>3. \A h \in HaltTasks(w) : tomb[h] # "cleanup"
        BY <1>1, <2>1 DEF AtRest
      <4>4. \A h \in HaltTasks(w) : tomb[h] = "none"
        BY <1>1, <4>1, <4>3 DEF TombStatus, TypeOK, IsReady
      <4> QED BY <4>1, <4>2, <4>4
    <3> QED BY <1>2, <3>1, <3>2
  <2> SUFFICES ASSUME NEW h \in HaltTasks(w)
               PROVE  Settled(h)' /\ tomb'[h] = "none" /\ (IsReady(status[h])' \/ CannotUndo(h)')
    BY <2>2
  <2>3. h \in Task /\ ChangeOf[h] = ChangeOf[w]
    BY <1>1
  <2>4. Settled(h)'
    BY <2>2, <2>3, SettledStays
  <2>5. ~EnsureRun(h)
    BY <2>2 DEF EnsureRun, Runnable, IsReady
  <2>6. ~EnsureClean(h)
    BY <1>0, <2>1, <2>3, ReadyRests DEF EnsureClean, Cleanable
  <2>7. tomb'[h] = "none"
    BY <2>2, <2>3, <2>5, <2>6, TombSteps
  <2>8. ASSUME NEW s, Step(h, s) PROVE IsReady(s) \/ (s = "Undo" /\ h \notin HasUndo)
    BY <2>2, <2>5, <2>8
    DEF Step, IsReady, CannotUndo, AbortedStatus, EffectiveStatus, Settled, GivenUp, Given
  <2>9. IsReady(status[h])' \/ CannotUndo(h)'
    BY <2>2, <2>3, <2>8, StatusSteps DEF Sets, CannotUndo
  <2> QED BY <2>4, <2>7, <2>9
<1>3. CASE ~(status[w] = "Undoing" \/ (EnsureRun(w) /\ status[w] = "Undo"))
  <2>1. ASSUME NEW s, Step(w, s), s = "Undoing" PROVE FALSE
    <3>1. waited[w] \in {"Done", "Undone"}
      BY DEF StartInv, WaitedIs
    <3> QED BY <1>3, <2>1, <3>1 DEF Step, AbortedStatus, EffectiveStatus
  <2> QED BY <1>3, <2>1, StatusSteps DEF Sets
<1> QED BY <1>2, <1>3

LEMMA GivenTakenKept ==
  ASSUME TypeOK, HoldInv, HoldInv', FinalInv, GivenTaken, [Next]_vars
  PROVE  GivenTaken'
<1> SUFFICES ASSUME NEW w \in Task, status'[w] \in Given, NEW h \in HaltTasks(w)
             PROVE  InQueue(h)' \/ Settled(h)'
  BY DEF GivenTaken, HaltTasks
<1> USE DEF FinalInv
<1>0. h \in Task
  BY DEF HaltTasks
<1>1. CASE InQueue(h) \/ Settled(h)
  <2>1. h \in seen' => Settled(h)'
    BY DEF HoldInv, SeenAborted, Settled
  <2> QED BY <1>0, <1>1, <2>1, QueueStays, SettledStays
<1>2. CASE ~InQueue(h) /\ ~Settled(h)
  <2>1. status[w] \notin Given
    BY <1>2 DEF GivenTaken
  <2>2. PICK s : Step(w, s) /\ s \in Given
    BY <2>1, StatusSteps DEF Sets
  <2>3. CASE AbortTask(w)
    <3>1. h \in HaltTasks(w)' /\ w \in seen'
      BY <2>3 DEF AbortTask, HaltTasks
    <3>2. h \in seen' \/ InQueue(h)'
      BY <3>1 DEF HoldInv, SeenAborted
    <3> QED BY <3>2 DEF HoldInv, SeenAborted, Settled
  <2>4. CASE ErrorEnd /\ w = failing
    <3>1. w \in seen
      BY <2>4, MatesTaken DEF LaneMates, TasksOf
    <3>2. h \in seen
      BY <1>2, <3>1 DEF HoldInv, SeenAborted
    <3> QED BY <1>2, <3>2 DEF HoldInv, SeenAborted, Settled
  <2>5. AbortTask(w) \/ (ErrorEnd /\ w = failing)
    BY <2>1, <2>2 DEF Step, Given
  <2> QED BY <2>3, <2>4, <2>5
<1> QED BY <1>1, <1>2

LEMMA FailureHolds ==
  ASSUME TypeOK, HoldInv, StartInv, FinalInv, UndoAlone, FailureHoldsWaiters, [Next]_vars
  PROVE  FailureHoldsWaiters'
<1> SUFFICES ASSUME NEW t \in Task, NEW w \in WaitTasks[t], status'[w] = "Error", w \notin HasUndo
             PROVE  status'[t] = "Hold"
  BY DEF FailureHoldsWaiters
<1> USE DEF FinalInv
<1>0. w \in Task /\ t \in HaltTasks(w)
  BY StructureAssumption DEF StructureAssumption, HaltTasks
<1>1. status[t] = "Hold"
  <2>1. CASE status[w] = "Error"
    BY <2>1 DEF FailureHoldsWaiters
  <2>2. CASE status[w] # "Error"
    <3>1. ErrorEnd /\ w = failing
      BY <1>0, <2>2, StatusMoves DEF Moves
    <3>2. NotDone(t)
      <4>1. status[w] \in {"Doing", "Abort"}
        BY <1>0, <3>1 DEF ErrorEnd, FailingBegun, UndoAlone
      <4> QED BY <1>0, <4>1 DEF StartInv, StartedAfter, Past
    <3>3. t \in seen
      <4>1. w \in seen /\ ~InQueue(t)
        BY <3>1, MatesTaken DEF LaneMates, TasksOf, ErrorEnd, AbortOver
      <4> QED BY <1>0, <4>1 DEF HoldInv, SeenAborted
    <3> QED BY <3>2, <3>3 DEF HoldInv, SeenAborted, GivenUp, Given, NotDone
  <2> QED BY <2>1, <2>2
<1>2. ASSUME NEW s, Step(t, s) PROVE s = "Hold"
  BY <1>1, <1>2
  DEF Step, EnsureRun, EnsureCannotUndo, Runnable, CannotUndo, AbortedStatus, EffectiveStatus,
      ErrorEnd, FailingBegun
<1> QED BY <1>1, <1>2, StatusSteps DEF Sets

LEMMA NextApart ==
  ASSUME ReadyInv, HoldInv, HoldInv', StartInv, FinalInv, ApartInv, [Next]_vars
  PROVE  ApartInv'
BY DoAloneKept, UndoAloneKept, GivenTakenKept, FailureHolds DEF ApartInv, ReadyInv
-----------------------------------------------------------------------------
LEMMA InitFinal == Init => StartInv /\ FinalInv /\ ApartInv
<1> SUFFICES ASSUME Init PROVE StartInv /\ FinalInv /\ ApartInv
  OBVIOUS
<1>1. \A t \in Task : status[t] = "Do" /\ waited[t] = "Done" /\ tomb[t] = "none"
  BY DEF Init
<1>2. StartInv
  BY <1>1 DEF Init, StartInv, WaitedIs, StartedAfter, Visited, Together, NotDone
<1>3. FinalInv
  BY <1>1 DEF Init, FinalInv, TombStatus, FailingBegun, AbortSafe, AtRest
<1>4. DoAlone /\ UndoAlone /\ GivenTaken
  BY <1>1 DEF DoAlone, UndoAlone, GivenTaken, Given
<1>5. FailureHoldsWaiters
  BY <1>1, StructureAssumption DEF FailureHoldsWaiters, StructureAssumption
<1> QED BY <1>2, <1>3, <1>4, <1>5 DEF ApartInv

EngineInv == ReadyInv /\ HoldInv /\ Woken /\ StartInv /\ FinalInv /\ ApartInv

LEMMA EngineKept ==
  ASSUME LanesApart
  PROVE  Spec => []EngineInv
<1>1. Init => EngineInv
  BY InitReady, InitWake, InitFinal DEF EngineInv
<1>2. EngineInv /\ [Next]_vars => EngineInv'
  <2> SUFFICES ASSUME EngineInv, [Next]_vars PROVE EngineInv'
    OBVIOUS
  <2> USE DEF EngineInv
  <2>1. TypeOK
    BY DEF ReadyInv
  <2>2. ReadyInv' /\ HoldInv' /\ Woken'
    BY <2>1, NextReady, NextWake
  <2>3. StartInv' /\ FinalInv'
    BY <2>1, NextStart, NextFinal DEF FinalInv, ReadyInv
  <2>4. ApartInv'
    BY <2>2, NextApart
  <2> QED BY <2>2, <2>3, <2>4
<1> QED BY <1>1, <1>2, PTL DEF Spec

(***************************************************************************)
(* No internal error: neither detectChangeReady nor taskCleanChanged ever  *)
(* panics, through every order of results, aborts, prunings and restarts,  *)
(* where the lanes of a change are apart.                                  *)
(***************************************************************************)
THEOREM PanicsNever ==
  ASSUME LanesApart
  PROVE  Spec => []NeverPanics
<1>1. EngineInv => NeverPanics
  BY DEF EngineInv, FinalInv, NeverPanics
<1> QED BY <1>1, EngineKept, PTL

(***************************************************************************)
(* What a client saw when the ready channel of a change closed is final:   *)
(* no step changes the status of a task of that change any more            *)
(* (Change.taskStatusChanged and abortTasks).                              *)
(***************************************************************************)
THEOREM ReadyStays ==
  ASSUME LanesApart
  PROVE  Spec => ReadyIsFinal
<1> DEFINE Final == \A t \in Task : ChangeOf[t] \in ready => status'[t] = status[t]
<1>1. EngineInv /\ [Next]_vars => [Final]_vars
  <2> SUFFICES ASSUME EngineInv, [Next]_vars, NEW t \in Task, ChangeOf[t] \in ready
               PROVE  status'[t] = status[t]
    OBVIOUS
  <2>1. ChangeOf[t] \in Change /\ t \in TasksOf(ChangeOf[t])
    BY StructureAssumption DEF StructureAssumption, TasksOf
  <2>2. AllReady(ChangeOf[t])
    BY <2>1, ReadyRests DEF EngineInv, FinalInv
  <2> QED BY <2>1, <2>2, RestIsFinal DEF EngineInv, FinalInv, ReadyInv
<1> QED BY <1>1, EngineKept, PTL DEF Spec, ReadyIsFinal

(***************************************************************************)
(* The handlers of tasks that depend on each other never run together, a   *)
(* task that failed for good holds those that wait for it, and cleanups    *)
(* run when the whole change is at rest (TaskRunner.mustWait, run and      *)
(* clean, Change.abortTasks).                                              *)
(***************************************************************************)
THEOREM DependenciesKept ==
  ASSUME LanesApart
  PROVE  Spec => []DependenciesHold
<1>1. EngineInv => DependenciesHold
  <2> SUFFICES ASSUME EngineInv PROVE DependenciesHold
    OBVIOUS
  <2> USE DEF EngineInv, FinalInv, ApartInv
  <2>1. DependenciesRespected
    <3> SUFFICES ASSUME NEW t \in Task, NEW w \in WaitTasks[t]
        PROVE /\ tomb[t] = "do" => tomb[w] = "none" /\ status[w] \in {"Done", "Undo"}
              /\ tomb[w] = "undo" => tomb[t] = "none" /\ (IsReady(status[t]) \/ CannotUndo(t))
      BY DEF DependenciesRespected
    <3>1. w \in Task /\ t \in HaltTasks(w)
      BY StructureAssumption DEF StructureAssumption, HaltTasks
    <3> QED BY <3>1 DEF TombStatus, DoAlone, UndoAlone
  <2>2. CleanupLast
    BY DEF AtRest, TombStatus, CleanupLast, AllReady, TasksOf, ReadyInv, TypeOK, IsReady
  <2> QED BY <2>1, <2>2 DEF DependenciesHold
<1> QED BY <1>1, EngineKept, PTL
=============================================================================
