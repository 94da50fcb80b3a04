------------------------------ MODULE StateFile ------------------------------
(***************************************************************************)
(* The state of the daemon and the file that keeps it: the state lock, the *)
(* checkpoint that every Unlock makes, the atomic file it is written with, *)
(* and what a start does with the file it finds: read it, see whether a    *)
(* reboot that was asked for has happened, and patch the state to the      *)
(* present level.                                                          *)
(*                                                                         *)
(* A snapshot stands for the JSON of the state.  It keeps the patch level, *)
(* whether accounts ("identities") are stored under the old top-level key  *)
(* or under the new one, the keys that follow a reboot, and how far each   *)
(* change has come.  Keys that nothing here tells apart are left out, and  *)
(* so are the checkpoints they cause.                                      *)
(***************************************************************************)
EXTENDS Integers, FiniteSets

CONSTANTS
  Changes,        \* the changes that may exist
  Level,          \* patch.Level: the patch level of this program
  MaxTentatives,  \* rebootMaxTentatives
  Boots           \* bound: the boot identifiers a run may reach, 1..Boots

ASSUME FileAssumption ==
  Level \in Nat /\ MaxTentatives \in Nat /\ Boots \in Nat \ {0}

NoOne   == "no one"
NoBoot  == 0
Statuses == {"none", "Do", "Doing", "Ready", "Clean"}

Snapshots ==
  [level: 0..(Level + 1), sub: 0..1, legacy: BOOLEAN, idents: BOOLEAN,
   from: 0..Boots, tent: 0..MaxTentatives, at: BOOLEAN,
   chg: [Changes -> Statuses]]

Blank == [level |-> 0, sub |-> 0, legacy |-> FALSE, idents |-> FALSE,
          from |-> NoBoot, tent |-> 0, at |-> FALSE,
          chg |-> [c \in Changes |-> "none"]]

Contents == [is: {"missing", "partial", "whole"}, s: Snapshots, synced: BOOLEAN]
Missing  == [is |-> "missing", s |-> Blank, synced |-> TRUE]
Partial  == [is |-> "partial", s |-> Blank, synced |-> FALSE]
Whole(s) == [is |-> "whole", s |-> s, synced |-> TRUE]
Unsynced(s) == [is |-> "whole", s |-> s, synced |-> FALSE]

VARIABLES
  main,     \* where the goroutine of runDaemon is
  boot,     \* the boot identifier of the running system
  persist,  \* the backend writes a file (PEBBLE_PERSIST is not "never")
  file,     \* what the path of the state file names
  durable,  \* what it would name after a loss of power: the last synced directory
  tmp,      \* the temporary file of the checkpoint under way
  mem,      \* the state in memory
  modified, \* State.modified
  lock,     \* the holder of the state lock
  phase,    \* how far the holder's checkpoint is
  trouble   \* bound: operations on the file that may still fail

fileVars == <<file, durable, tmp, phase, trouble>>
stateVars == <<main, boot, persist, mem, modified, lock, fileVars>>

Phases == {"idle", "create", "copy", "sync", "rename", "dirsync", "retry"}

-----------------------------------------------------------------------------
(* Locking and checkpointing *)

\* MarshalJSON does not write the accounts of the old key back.
Marshal(s) == [s EXCEPT !.legacy = FALSE]

\* Unlock: a modified state is written out before the lock is released.
Unlock(who, dirty) ==
  IF dirty /\ persist
    THEN lock' = who /\ phase' = "create" /\ modified' = TRUE
    ELSE lock' = NoOne /\ phase' = phase /\ modified' = FALSE

\* A critical section that sets a key of the state, and its Unlock.
Update(who, new) ==
  /\ lock = NoOne
  /\ mem' = new
  /\ Unlock(who, TRUE)
  /\ UNCHANGED <<file, durable, tmp, trouble, boot, persist>>

\* A critical section that only reads.
Look(who) ==
  /\ lock = NoOne
  /\ Unlock(who, modified)
  /\ UNCHANGED <<mem, file, durable, tmp, trouble, boot, persist>>

SameState == UNCHANGED <<boot, persist, mem, modified, lock, fileVars>>

-----------------------------------------------------------------------------
(* AtomicWriteFile, step by step *)

Writing == UNCHANGED <<main, boot, persist, mem, trouble>>

\* NewAtomicFile: a file of its own name in the same directory.
CreateTemp ==
  /\ phase = "create"
  /\ tmp' = Partial /\ phase' = "copy"
  /\ UNCHANGED <<file, durable, modified, lock>> /\ Writing

\* Mutant: the data is not synced before the rename.
CopyDataUnsynced ==
  /\ phase = "copy"
  /\ tmp' = Unsynced(Marshal(mem))
  /\ phase' = "rename"
  /\ UNCHANGED <<file, durable, modified, lock>> /\ Writing

\* io.Copy of the marshalled state.
CopyData ==
  /\ phase = "copy"
  /\ tmp' = Unsynced(Marshal(mem))
  /\ phase' = "sync"
  /\ UNCHANGED <<file, durable, modified, lock>> /\ Writing

\* commit: the data reaches the disk before the name does.
SyncTemp ==
  /\ phase = "sync"
  /\ tmp' = Whole(tmp.s) /\ phase' = "rename"
  /\ UNCHANGED <<file, durable, modified, lock>> /\ Writing

\* commit: the new file takes the name of the old one.
Rename ==
  /\ phase = "rename"
  /\ file' = tmp /\ tmp' = Missing /\ phase' = "dirsync"
  /\ UNCHANGED <<durable, modified, lock>> /\ Writing

\* The directory is synced, and Unlock releases the lock.
SyncDirectory ==
  /\ phase = "dirsync"
  /\ durable' = file /\ phase' = "idle"
  /\ modified' = FALSE /\ lock' = NoOne
  /\ UNCHANGED <<file, tmp>> /\ Writing

\* Cancel: the temporary file goes unless it was renamed already.
Cancel ==
  /\ phase \in {"create", "copy", "sync", "rename", "dirsync"}
  /\ trouble > 0 /\ trouble' = trouble - 1
  /\ tmp' = Missing /\ phase' = "retry"
  /\ UNCHANGED <<main, boot, persist, mem, modified, lock, file, durable>>

\* Unlock tries again after an interval, with the lock held.
RetryCheckpoint ==
  /\ phase = "retry" /\ phase' = "create"
  /\ UNCHANGED <<file, durable, tmp, modified, lock>> /\ Writing

Checkpoint ==
  \/ CreateTemp \/ CopyData \/ SyncTemp \/ Rename \/ SyncDirectory
  \/ Cancel \/ RetryCheckpoint

\* The process is gone, and with it what it held in memory.
ProcessEnds(next) ==
  /\ main' = next
  /\ mem' = Blank /\ modified' = FALSE /\ lock' = NoOne
  /\ phase' = "idle" /\ tmp' = Missing

\* The machine loses power: a name that was not synced may be the old or the
\* new one, and data that was not synced is gone.
AfterPowerLoss(c) == IF c.synced THEN c ELSE Partial
PowerIsLost ==
  \E c \in {file, durable} : file' = AfterPowerLoss(c) /\ durable' = AfterPowerLoss(c)

-----------------------------------------------------------------------------
(* A start reads the file *)

\* loadState and setupState: the file is read, or a state is made.
LoadState ==
  /\ main = "load"
  /\ \/ /\ ~persist
        /\ mem' = Blank /\ modified' = FALSE /\ main' = "patch.Init"
     \/ /\ persist /\ file.is = "missing"
        /\ mem' = Blank /\ modified' = TRUE /\ main' = "restart of a new state"
     \/ /\ persist /\ file.is = "whole"
        /\ mem' = file.s /\ modified' = FALSE /\ main' = "restart"
     \/ /\ persist /\ file.is = "partial"
        /\ mem' = Blank /\ modified' = FALSE /\ main' = "failed"
  /\ UNCHANGED <<boot, persist, lock, fileVars>>

\* Daemon.clearReboot
ClearReboot(s) == [s EXCEPT !.at = FALSE, !.tent = 0]

\* RestartManager.init: nothing was asked for, or the boot is another one.
RebootAsExpected(after) ==
  /\ mem.from # boot
  /\ Update("main", ClearReboot([mem EXCEPT !.from = NoBoot]))
  /\ main' = after

\* Daemon.RebootDidNotHappen: three more attempts, then it gives up.
RebootDidNotHappen(after) ==
  /\ mem.from = boot
  /\ IF mem.tent + 1 > MaxTentatives
       THEN /\ Update("main", ClearReboot([mem EXCEPT !.from = NoBoot]))
            /\ main' = after
       ELSE /\ Update("main", [mem EXCEPT !.tent = @ + 1])
            /\ main' = "reboot is missing"

\* initRestart, for a state that was read, one that is new and one in memory.
InitRestart ==
  \/ main = "restart" /\ (RebootAsExpected("patch.Apply") \/ RebootDidNotHappen("patch.Apply"))
  \/ /\ main = "restart of a new state"
     /\ (RebootAsExpected("patch.Init") \/ RebootDidNotHappen("patch.Init"))
  \/ main = "restart in memory" /\ RebootAsExpected("patch.Apply")

\* patch.Init stamps a new state with the present level.
PatchInit ==
  /\ main = "patch.Init"
  /\ Update("main", [mem EXCEPT !.level = Level, !.sub = 0])
  /\ main' = IF persist THEN "loaded" ELSE "restart in memory"

\* patch1 does nothing; patch2 moves the accounts to the new key, unless it is taken.
Patch(level, s) ==
  IF level = 2 /\ s.legacy /\ ~s.idents THEN [s EXCEPT !.idents = TRUE] ELSE s

\* applyOne: a patch and the level it reaches are saved together.
ApplyOne ==
  /\ main = "patch.Apply" /\ mem.level < Level
  /\ Update("main", [Patch(mem.level + 1, mem) EXCEPT !.level = mem.level + 1, !.sub = 0])
  /\ UNCHANGED main

\* patch.Apply: a sublevel of a later program is set back.
LowerSublevel ==
  /\ main = "patch.Apply" /\ mem.level = Level /\ mem.sub > 0
  /\ Update("main", [mem EXCEPT !.sub = 0])
  /\ UNCHANGED main

\* patch.Apply: the state is at the present level, or comes from a later program.
PatchApplied ==
  /\ main = "patch.Apply" /\ (mem.level > Level \/ (mem.level = Level /\ mem.sub = 0))
  /\ Look("main")
  /\ main' = IF mem.level > Level THEN "failed" ELSE "loaded"

Starting == LoadState \/ InitRestart \/ PatchInit \/ ApplyOne \/ LowerSublevel \/ PatchApplied
=============================================================================
