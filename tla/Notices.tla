------------------------------ MODULE Notices ------------------------------
(***************************************************************************)
(* The notices of the state, the requests that add, list and wait for      *)
(* them, and the commands "notify", "notices", "warnings" and "okay" of one*)
(* user, which keep what was listed and acknowledged in a file.            *)
(*                                                                         *)
(* Time is counted in ticks: each occurrence reads a later time than the   *)
(* one before (the clock is read under the state lock and does not go back)*)
(***************************************************************************)
EXTENDS Integers, FiniteSets, Sequences

CONSTANTS
  Public,        \* the user of a notice that everybody may see
  NoticeKeys,    \* records: user, type and key of a notice
  Procs,         \* commands that may run at the same time
  NoticeScenes,  \* bound: who runs them, with which filter, and which keys
                 \* occur
  ExpireAfter,   \* ticks after its last occurrence at which a notice expires
  Repeats,       \* the repeat-after durations asked for
  MaxNotices,    \* how many notices Prune keeps
  MaxClock       \* bound: ticks

ASSUME NoticesAssumption ==
  /\ {ExpireAfter, MaxNotices, MaxClock} \subseteq Nat /\ Repeats \subseteq 0..ExpireAfter
  /\ "free" \notin Procs
  /\ \A s \in NoticeScenes : s.keys \subseteq NoticeKeys /\ s.procs \subseteq Procs

VARIABLES
  scene,          \* who runs the commands and with which options: see NoticeScenes
  clock,
  notices,        \* State.notices: a function from some keys
  lastNoticeId,
  latestWarning,
  changes,        \* the changes whose notices may be pruned
  disk,           \* the notices and the last id in the state file
  lock,           \* who holds the state lock between two steps, or "free"
  cli,            \* the file of the command line
  proc,           \* the commands: pc, command, the state each has loaded, its answer
  ctx,            \* the context of its request: "live", "done", "called"
  shown,          \* history: the last repetition shown of each notice, by either command
  dropped         \* history: the last repetition that was pruned to keep MaxNotices

procVars == <<proc, ctx, cli, shown>>
stateVars == <<clock, notices, lastNoticeId, latestWarning, changes, disk, dropped>>
noticeVars == <<scene, lock, procVars, stateVars>>

Lists == {"notices", "warnings"}
Types == {"custom", "warning", "change-update"}
Newest(S) == IF S = {} THEN 0 ELSE CHOOSE t \in S : \A u \in S : u <= t
NoCli == [listed |-> [l \in Lists |-> 0], okayed |-> [l \in Lists |-> 0]]
Idle == [pc |-> "idle", cmd |-> "none", local |-> NoCli, waits |-> FALSE, answer |-> <<>>]

NoticesInit ==
  /\ scene \in NoticeScenes
  /\ clock = 0 /\ notices = <<>> /\ lastNoticeId = 0 /\ latestWarning = 0
  /\ changes = { k \in scene.keys : k.type = "change-update" }
  /\ disk = [notices |-> <<>>, last |-> 0]
  /\ lock = "free" /\ cli = NoCli
  /\ proc = [p \in Procs |-> Idle] /\ ctx = [p \in Procs |-> "live"]
  /\ shown = [l \in Lists |-> [k \in NoticeKeys |-> 0]]
  /\ dropped = [k \in NoticeKeys |-> 0]

-----------------------------------------------------------------------------
(* The state *)

Expired(n, now) == n.lastOccurred + ExpireAfter < now

\* What a request asks for: one user and the public ones, or all; some types;
\* only what was repeated after a time (0: not asked for).
Matches(f, k, n) ==
  /\ f.all \/ k.user \in {Public, f.user}
  /\ k.type \in f.types
  /\ f.after = 0 \/ n.lastRepeated > f.after

FlattenNotices(ns, now) == { k \in DOMAIN ns : ~Expired(ns[k], now) }

Matching(f) == { k \in FlattenNotices(notices, clock) : Matches(f, k, notices[k]) }

Entry(k) == [key |-> k, id |-> notices[k].id, lastRepeated |-> notices[k].lastRepeated]

\* The place of a notice among those listed: by the time of its last repetition.
Place(k, found) ==
  Cardinality({ j \in found : notices[j].lastRepeated <= notices[k].lastRepeated })

\* The matching notices, sorted.
ListNotices(f) ==
  LET found == Matching(f)
  IN [i \in 1..Cardinality(found) |-> Entry(CHOOSE k \in found : Place(k, found) = i)]

LatestIn(ns) ==
  Newest({ ns[k].lastRepeated : k \in { k \in DOMAIN ns : k.type = "warning" } })

\* What is written to the state file when the lock is released.
Checkpoint(ns, last, now) ==
  [notices |-> [k \in FlattenNotices(ns, now) |-> ns[k]], last |-> last]

\* sync.Cond.Broadcast: who waits goes on as soon as it has the lock.
Broadcast ==
  proc' = [p \in Procs |-> IF proc[p].pc = "asleep" THEN [proc[p] EXCEPT !.pc = "woken"]
                           ELSE proc[p]]

AddNotice(k, repeatAfter) ==
  LET now == clock + 1
      known == k \in DOMAIN notices
      repeats == known => (repeatAfter = 0 \/ now > notices[k].lastRepeated + repeatAfter)
      n == [id |-> IF known THEN notices[k].id ELSE lastNoticeId + 1,
            lastOccurred |-> now,
            lastRepeated |-> IF repeats THEN now ELSE notices[k].lastRepeated]
      ns == [j \in DOMAIN notices \cup {k} |-> IF j = k THEN n ELSE notices[j]]
  IN /\ lock = "free" /\ now <= MaxClock
     /\ clock' = now /\ notices' = ns
     /\ lastNoticeId' = IF known THEN lastNoticeId ELSE lastNoticeId + 1
     /\ latestWarning' = IF k.type = "warning" THEN Newest({latestWarning, n.lastRepeated})
                         ELSE latestWarning
     /\ disk' = Checkpoint(ns, lastNoticeId', now)
     /\ IF repeats THEN Broadcast ELSE UNCHANGED proc
     /\ UNCHANGED <<scene, changes, lock, cli, ctx, shown, dropped>>

\* POST /v1/notices, by a user with a uid, and "notify".
PostNotice(k, repeatAfter) == k.type = "custom" /\ k.user # Public /\ AddNotice(k, repeatAfter)
Notify(k) == \E r \in Repeats : PostNotice(k, r)

\* A warning (only programs that embed the daemon record them), and a change
\* whose status changes.
Warnf(k) == k.type = "warning" /\ \E r \in Repeats \ {0} : AddNotice(k, r)
NotifyStatusChange(k) == k \in changes /\ AddNotice(k, 0)

Tick ==
  /\ clock < MaxClock /\ clock' = clock + 1
  /\ UNCHANGED <<scene, lock, procVars, notices, lastNoticeId, latestWarning, changes, disk,
                 dropped>>

\* The oldest notices above the number to keep, by their last occurrence.
TooMany(ns) ==
  { k \in DOMAIN ns :
      Cardinality({ j \in DOMAIN ns : ns[j].lastOccurred > ns[k].lastOccurred }) >= MaxNotices }

\* Expired notices, those of changes that are gone, and those above the
\* maximum.  Only a change that goes marks the state as modified.
Prune ==
  \E gone \in SUBSET changes :
    LET kept == { k \in FlattenNotices(notices, clock) :
                    k.type = "change-update" => k \in changes \ gone }
        some == [k \in kept |-> notices[k]]
        most == [k \in kept \ TooMany(some) |-> notices[k]]
    IN /\ lock = "free"
       /\ changes' = changes \ gone
       /\ notices' = most
       /\ latestWarning' = LatestIn(some)
       /\ disk' = IF gone # {} THEN Checkpoint(most, lastNoticeId, clock) ELSE disk
       /\ dropped' = [k \in NoticeKeys |->
                        IF k \in TooMany(some) THEN notices[k].lastRepeated ELSE dropped[k]]
       /\ UNCHANGED <<scene, clock, lastNoticeId, lock, procVars>>

\* The notices that the state file holds and that have not expired.
Unflatten(saved) ==
  [k \in FlattenNotices(saved, clock) |-> saved[k]]

\* The daemon stops, or crashes, and starts again: requests that wait are lost.
Restart ==
  /\ notices' = Unflatten(disk.notices) /\ lastNoticeId' = disk.last
  /\ latestWarning' = LatestIn(Unflatten(disk.notices))
  /\ lock' = "free"
  /\ proc' = [p \in Procs |-> IF proc[p].pc \in {"registers", "asleep", "woken"} THEN Idle
                              ELSE proc[p]]
  /\ ctx' = [p \in Procs |-> IF proc[p].pc \in {"registers", "asleep", "woken"} THEN "live"
                             ELSE ctx[p]]
  /\ UNCHANGED <<scene, clock, changes, disk, cli, shown, dropped>>

-----------------------------------------------------------------------------
(* Requests *)

\* Whether GET /v1/notices is allowed, with the options of the scene.
MayList ==
  /\ scene.hasUid
  /\ scene.asks # "own" => scene.admin

\* Types that the daemon does not know are left out; if it knows none of those
\* asked for nothing is listed, and none asked for is all.
SanitizeTypes(asked) == IF asked = {} THEN Types ELSE asked \cap Types

\* The options of a command: one user's and the public ones, or all.
Options(cmd) ==
  [all |-> scene.asks = "all",
   user |-> IF scene.asks = "other" THEN scene.other ELSE scene.uid,
   types |-> SanitizeTypes(IF cmd = "warnings" THEN {"warning"} ELSE scene.types),
   after |-> 0]

\* What was not acknowledged yet, when the file was loaded.
Filter(p) == [Options(proc[p].cmd) EXCEPT !.after = proc[p].local.okayed[proc[p].cmd]]

Answer(p, seq) == proc' = [proc EXCEPT ![p].pc = "answered", ![p].answer = seq]

\* GET /v1/notices, up to its answer or to WaitNotices' first wait, for which it
\* still holds the lock.
GetNotices(p) ==
  /\ proc[p].pc = "loaded" /\ proc[p].cmd \in Lists /\ lock = "free"
  /\ \/ ~MayList /\ proc' = [proc EXCEPT ![p] = Idle] /\ UNCHANGED lock
     \/ /\ MayList
        /\ (proc[p].waits /\ Filter(p).types # {}) => ListNotices(Filter(p)) # <<>>
        /\ Answer(p, ListNotices(Filter(p))) /\ UNCHANGED lock
     \/ /\ MayList /\ proc[p].waits /\ Filter(p).types # {}
        /\ ListNotices(Filter(p)) = <<>>
        /\ proc' = [proc EXCEPT ![p].pc = "registers"] /\ lock' = p
  /\ UNCHANGED <<scene, cli, ctx, shown, stateVars>>

NoticeViewableByUser(k) == k.user = Public \/ scene.admin \/ k.user = scene.uid

\* GET /v1/notices/<id>: also one that expired and was not pruned yet.
GetNotice(p) ==
  /\ proc[p].pc = "loaded" /\ proc[p].cmd = "notice" /\ lock = "free"
  /\ \/ proc' = [proc EXCEPT ![p] = Idle]  \* no uid, no such notice, or not allowed
     \/ \E k \in DOMAIN notices :
          /\ scene.hasUid /\ NoticeViewableByUser(k)
          /\ Answer(p, <<Entry(k)>>)
  /\ UNCHANGED <<scene, lock, cli, ctx, shown, stateVars>>

\* cond.Wait: registered and the lock released in one step.
Sleep(p) ==
  /\ proc[p].pc = "registers" /\ lock = p
  /\ lock' = "free" /\ proc' = [proc EXCEPT ![p].pc = "asleep"]
  /\ UNCHANGED <<scene, cli, ctx, shown, stateVars>>

\* The timeout passes, or the client leaves.
ContextDone(p) ==
  /\ proc[p].pc \in {"registers", "asleep", "woken"} /\ ctx[p] = "live"
  /\ ctx' = [ctx EXCEPT ![p] = "done"]
  /\ UNCHANGED <<scene, lock, proc, cli, shown, stateVars>>

\* Mutant: it does not take the lock.
AfterFuncUnlocked(p) ==
  /\ ctx[p] = "done"
  /\ ctx' = [ctx EXCEPT ![p] = "called"]
  /\ Broadcast
  /\ UNCHANGED <<scene, lock, cli, shown, stateVars>>

\* The function that runs after it takes the lock to wake everybody.
AfterFunc(p) ==
  /\ ctx[p] = "done" /\ lock = "free"
  /\ ctx' = [ctx EXCEPT ![p] = "called"]
  /\ Broadcast
  /\ UNCHANGED <<scene, lock, cli, shown, stateVars>>

Wake(p) ==
  /\ proc[p].pc = "woken" /\ lock = "free"
  /\ IF ctx[p] # "live" THEN Answer(p, <<>>)
     ELSE IF ListNotices(Filter(p)) # <<>> THEN Answer(p, ListNotices(Filter(p)))
     ELSE proc' = [proc EXCEPT ![p].pc = "asleep"]
  /\ ctx' = [ctx EXCEPT ![p] = "live"]
  /\ UNCHANGED <<scene, lock, cli, shown, stateVars>>

-----------------------------------------------------------------------------
(* The commands, which load the file, ask, and write it as a whole *)

LoadCLIState == cli
SaveCLIState(st) == cli' = st

Load(p, cmd, waits) ==
  /\ proc[p].pc = "idle"
  /\ proc' = [proc EXCEPT ![p] = [Idle EXCEPT !.pc = "loaded", !.cmd = cmd,
                                              !.local = LoadCLIState, !.waits = waits]]
  /\ UNCHANGED <<scene, lock, cli, ctx, shown, stateVars>>

\* "notices", with or without a timeout, and "warnings".
ListsNotices(p) == "notices" \in scene.cmds /\ \E waits \in BOOLEAN : Load(p, "notices", waits)
ListsWarnings(p) == "warnings" \in scene.cmds /\ Load(p, "warnings", FALSE)

\* The last one of a list is what was listed last.
SaveListed(p) ==
  LET l == proc[p].cmd
      list == proc[p].answer
      Listed(k) == { list[i].lastRepeated : i \in { i \in DOMAIN list : list[i].key = k } }
  IN /\ proc[p].pc = "answered" /\ l \in Lists
     /\ proc' = [proc EXCEPT ![p] = Idle]
     /\ SaveCLIState(IF list = <<>> THEN cli
                     ELSE [proc[p].local EXCEPT !.listed[l] = list[Len(list)].lastRepeated])
     /\ shown' = [shown EXCEPT ![l] = [k \in NoticeKeys |-> Newest({@[k]} \cup Listed(k))]]
     /\ UNCHANGED <<scene, lock, ctx, stateVars>>

\* "notice" shows one and keeps no record of it.
ShowNotice(p) ==
  /\ proc[p].pc = "answered" /\ proc[p].cmd = "notice"
  /\ proc' = [proc EXCEPT ![p] = Idle]
  /\ UNCHANGED <<scene, lock, cli, ctx, shown, stateVars>>

\* Mutant: it acknowledges all that occurred by now.
OkayLatest(p, onlyWarnings) ==
  /\ proc[p].pc = "loaded" /\ proc[p].cmd = "okay"
  /\ SaveCLIState([proc[p].local EXCEPT !.okayed["notices"] = clock])
  /\ proc' = [proc EXCEPT ![p] = Idle]
  /\ UNCHANGED <<scene, lock, ctx, shown, stateVars>>

\* "okay", for both or for warnings only.
Okay(p, onlyWarnings) ==
  LET okays == { l \in Lists : proc[p].local.listed[l] # 0 /\ (onlyWarnings => l = "warnings") }
  IN /\ proc[p].pc = "loaded" /\ proc[p].cmd = "okay"
     /\ SaveCLIState([proc[p].local EXCEPT !.okayed =
                        [l \in Lists |-> IF l \in okays THEN proc[p].local.listed[l] ELSE @[l]]])
     /\ proc' = [proc EXCEPT ![p] = Idle]
     /\ UNCHANGED <<scene, lock, ctx, shown, stateVars>>

\* After each command: there are warnings that were repeated since the last list.
PresentsWarnings == latestWarning > cli.listed["warnings"]

Command(p) ==
  \/ ListsNotices(p) \/ ListsWarnings(p) \/ GetNotices(p) \/ SaveListed(p)
  \/ "okay" \in scene.cmds /\ Load(p, "okay", FALSE)
  \/ \E w \in BOOLEAN : Okay(p, w)
  \/ "notice" \in scene.cmds /\ Load(p, "notice", FALSE)
  \/ GetNotice(p) \/ ShowNotice(p)

NoticesNext ==
  \/ \E k \in scene.keys : Notify(k) \/ Warnf(k) \/ NotifyStatusChange(k)
  \/ Tick \/ Prune \/ Restart
  \/ \E p \in scene.procs :
       Command(p) \/ Sleep(p) \/ ContextDone(p) \/ AfterFunc(p) \/ Wake(p)

NoticesSpec == NoticesInit /\ [][NoticesNext]_noticeVars

-----------------------------------------------------------------------------
(* Properties *)

NoticesTypeOK ==
  /\ clock \in 0..MaxClock /\ lastNoticeId \in 0..clock
  /\ DOMAIN notices \subseteq NoticeKeys /\ latestWarning \in 0..clock
  /\ \A k \in DOMAIN notices :
       notices[k].lastRepeated \in 1..notices[k].lastOccurred /\ notices[k].lastOccurred <= clock
  /\ lock \in Procs \cup {"free"}
  /\ \A p \in Procs : lock = p <=> proc[p].pc = "registers"

\* What "okay" silences was shown: a notice that the same options list, and whose last
\* repetition is not after what was acknowledged, appeared in a list after that repetition.
Silenced(l) ==
  { k \in FlattenNotices(notices, clock) :
      Matches(Options(l), k, notices[k]) /\ notices[k].lastRepeated <= cli.okayed[l] }

SilencedWereShown ==
  \A l \in Lists : \A k \in Silenced(l) :
    shown[l][k] >= notices[k].lastRepeated \/ dropped[k] >= notices[k].lastRepeated

\* A warning that was not listed is announced at the end of the next command.
WarningsAnnounced ==
  \A k \in FlattenNotices(notices, clock) :
    (k.type = "warning" /\ notices[k].lastRepeated > cli.listed["warnings"]) => PresentsWarnings

\* Identifiers are given once, also over restarts.
IdsUnique ==
  /\ \A k \in DOMAIN notices : notices[k].id <= lastNoticeId
  /\ \A j, k \in DOMAIN notices : notices[j].id = notices[k].id => j = k
  /\ \A p \in Procs : \A i \in DOMAIN proc[p].answer :
       /\ proc[p].answer[i].id <= lastNoticeId
       /\ \A k \in DOMAIN notices :
            notices[k].id = proc[p].answer[i].id => k = proc[p].answer[i].key

\* Who is not an administrator gets its own notices and the public ones.
OwnNotices ==
  ~scene.admin => \A p \in Procs : \A i \in DOMAIN proc[p].answer :
                    proc[p].answer[i].key.user \in {Public, scene.uid}

\* A request does not sleep while there is something for it, or after its context ended.
NobodyOversleeps ==
  \A p \in Procs :
    proc[p].pc = "asleep" => ListNotices(Filter(p)) = <<>> /\ ctx[p] # "called"

\* What holds of the notices and of the file that remembers what was listed.
NoticesSound == NoticesTypeOK /\ SilencedWereShown /\ WarningsAnnounced /\ IdsUnique /\ OwnNotices
=============================================================================
