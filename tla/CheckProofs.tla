----------------------------- MODULE CheckProofs -----------------------------
(***************************************************************************)
(* A check that the plan enables is always run by a change or about to be, *)
(* and each time it goes down its failure handlers have run once: for      *)
(* every set of configurations, every threshold and any number of          *)
(* failures, updates and restarts.                                         *)
(*                                                                         *)
(* The two kinds of change make each other, so what matters is where the   *)
(* handler of a change can be when the change ends: an error is returned   *)
(* past the failure handlers only, and a handler that was not told to stop *)
(* returns only once it has saved that the check is to proceed.            *)
(***************************************************************************)
EXTENDS CheckManager, SequenceTheorems, TLAPS

\* What is true of a change and of the goroutine of its handler.
Quiet(c) ==
  /\ c.status = "Do" => c.pc = "none" /\ c.handled = 0
  /\ c.status = "Error" => c.kind = "perform" /\ c.handled = 1
  /\ c.pc # "none" => c.cached /\ c.status \in {"Doing", "Abort"}
  /\ c.dying => c.pc # "none"
  /\ c.pc \notin {"none", "return", "return error"} => c.handled = 0
  /\ c.pc \in {"below", "threshold", "return error"} => c.kind = "perform"
  /\ c.pc \in {"threshold", "return error"} => c.details.proceed
  /\ c.pc = "return error" => c.handled = 1
  /\ c.pc \in {"store", "succeeded"} /\ c.kind = "perform" => ~c.mine.proceed

\* Between a restart and the first PlanChanged, a task may be left to do whose configuration
\* is not cached.
Sound(c) == Quiet(c) /\ (c.status = "Do" => c.cached)

\* A handler that is to stop belongs to a change that is aborted, unless the runner stops;
\* and one that returns without being told to has a recover-check that proceeds.
Ends(c, stop) ==
  /\ c.dying => stop \/ c.status = "Abort"
  /\ c.pc = "return" => stop \/ c.status = "Abort" \/ (c.kind = "recover" /\ c.details.proceed)

\* A recover-check comes after the perform-check whose error it follows.
Recovers(cs, r) == \E p \in 1..(r - 1) : cs[p].status = "Error" /\ cs[p].kind = "perform"

AllRecover(cs) == \A r \in DOMAIN cs : cs[r].kind = "recover" => Recovers(cs, r)

AllSound(cs, stop) ==
  AllRecover(cs) /\ \A i \in DOMAIN cs : Sound(cs[i]) /\ Ends(cs[i], stop)

\* The check data names a change, if it names any.
DataInv == checks # NoData => checks.changeID \in 0..Len(change)

(***************************************************************************)
(* Unless the user started or stopped the check, an unready change of this *)
(* process is never aborted without another to take its place.             *)
(***************************************************************************)
Runs(cs) == \E i \in DOMAIN cs : Existing(cs[i]) /\ cs[i].status \in {"Do", "Doing"}

RunsInv ==
  /\ ~announced => plan \in Config
  /\ wish = "none" /\ ~stopping /\ ~panicked =>
       /\ Known(change) => Runs(change)
       /\ plan \in Enabled /\ announced => Runs(change)

CheckInv == TypeOK /\ AllSound(change, stopping) /\ DataInv /\ RunsInv /\ KnownPanics
-----------------------------------------------------------------------------
(***************************************************************************)
(* Lists of changes.                                                       *)
(***************************************************************************)
LEMMA NewIsSound ==
  ASSUME NEW kind \in {"perform", "recover"}, NEW config \in Config, NEW failures \in Nat,
         NEW stop
  PROVE  /\ NewChange(kind, config, failures) \in CheckChange
         /\ Sound(NewChange(kind, config, failures))
         /\ Ends(NewChange(kind, config, failures), stop)
<1> DEFINE n == NewChange(kind, config, failures)
<1>1. n \in CheckChange
  BY DEF NewChange, NewDetails, CheckChange, Details, Status, Point
<1>2. Sound(n) /\ Ends(n, stop)
  BY DEF NewChange, NewDetails, Sound, Quiet, Ends
<1> QED BY <1>1, <1>2

LEMMA Rewritten ==
  ASSUME NEW cs \in Seq(CheckChange), AllRecover(cs), NEW new \in Seq(CheckChange),
         Len(new) = Len(cs), NEW stop,
         \A j \in DOMAIN cs : /\ Sound(new[j]) /\ Ends(new[j], stop)
                              /\ new[j].kind = cs[j].kind
                              /\ cs[j].status = "Error" => new[j].status = "Error"
  PROVE  AllSound(new, stop)
<1>1. DOMAIN new = 1..Len(cs) /\ DOMAIN cs = 1..Len(cs)
  OBVIOUS
<1>2. ASSUME NEW r \in DOMAIN new, new[r].kind = "recover" PROVE Recovers(new, r)
  <2>1. r \in DOMAIN cs /\ cs[r].kind = "recover"
    BY <1>1, <1>2
  <2>2. PICK p \in 1..(r - 1) : cs[p].status = "Error" /\ cs[p].kind = "perform"
    BY <2>1 DEF AllSound, Recovers, AllRecover
  <2>3. p \in DOMAIN cs
    BY <1>1, <2>1
  <2> QED BY <2>2, <2>3 DEF Recovers, AllRecover
<1> QED BY <1>1, <1>2 DEF AllSound, AllRecover

LEMMA Appended ==
  ASSUME NEW cs \in Seq(CheckChange), NEW stop, AllSound(cs, stop), NEW n \in CheckChange,
         Sound(n), Ends(n, stop),
         n.kind = "recover" => \E p \in DOMAIN cs : cs[p].status = "Error" /\ cs[p].kind = "perform"
  PROVE  /\ Append(cs, n) \in Seq(CheckChange)
         /\ AllSound(Append(cs, n), stop)
         /\ Len(Append(cs, n)) = Len(cs) + 1
         /\ Append(cs, n)[Len(cs) + 1] = n
         /\ \A i \in DOMAIN cs : i \in DOMAIN Append(cs, n) /\ Append(cs, n)[i] = cs[i]
<1> DEFINE new == Append(cs, n)
<1>1. /\ new \in Seq(CheckChange) /\ Len(new) = Len(cs) + 1 /\ DOMAIN new = 1..(Len(cs) + 1)
      /\ \A j \in 1..Len(cs) : new[j] = cs[j]
      /\ new[Len(cs) + 1] = n
  OBVIOUS
<1> HIDE DEF new
<1>2. ASSUME NEW r \in DOMAIN new, new[r].kind = "recover" PROVE Recovers(new, r)
  <2>1. CASE r \in 1..Len(cs)
    <3>1. PICK p \in 1..(r - 1) : cs[p].status = "Error" /\ cs[p].kind = "perform"
      BY <1>1, <1>2, <2>1 DEF AllSound, Recovers, AllRecover
    <3>2. p \in 1..Len(cs)
      BY <2>1
    <3> QED BY <1>1, <3>1, <3>2 DEF Recovers, AllRecover
  <2>2. CASE r = Len(cs) + 1
    <3>1. PICK p \in 1..Len(cs) : cs[p].status = "Error" /\ cs[p].kind = "perform"
      BY <1>1, <1>2, <2>2
    <3> QED BY <1>1, <2>2, <3>1 DEF Recovers, AllRecover
  <2> QED BY <1>1, <2>1, <2>2
<1>3. \A j \in DOMAIN new : Sound(new[j]) /\ Ends(new[j], stop)
  BY <1>1 DEF AllSound
<1> QED BY <1>1, <1>2, <1>3 DEF AllSound, AllRecover, new

\* What PlanChanged and StopChecks make of a change.
LEMMA AbortedIs ==
  ASSUME NEW c \in CheckChange, NEW stop, Quiet(c), Ends(c, stop)
  PROVE  /\ Aborted(c) \in CheckChange /\ Sound(Aborted(c)) /\ Ends(Aborted(c), stop)
         /\ Aborted(c).kind = c.kind /\ Aborted(c).cached = c.cached
         /\ c.status = "Error" => Aborted(c).status = "Error"
<1>1. AbortedStatus(c.status) \in Status
  BY DEF AbortedStatus, CheckChange, Status
<1>2. Aborted(c) \in CheckChange
  BY <1>1 DEF Aborted, CheckChange
<1>3. /\ Aborted(c).kind = c.kind /\ Aborted(c).cached = c.cached /\ Aborted(c).pc = c.pc
      /\ Aborted(c).dying = c.dying /\ Aborted(c).handled = c.handled
      /\ Aborted(c).details = c.details /\ Aborted(c).mine = c.mine
      /\ Aborted(c).status = AbortedStatus(c.status)
  BY DEF Aborted, CheckChange
<1>4. Sound(Aborted(c)) /\ Ends(Aborted(c), stop)
  BY <1>3 DEF Sound, Quiet, Ends, AbortedStatus
<1> QED BY <1>2, <1>3, <1>4 DEF AbortedStatus
-----------------------------------------------------------------------------
(***************************************************************************)
(* PlanChanged.                                                            *)
(***************************************************************************)
LEMMA UpdatedIs ==
  ASSUME NEW id \in Nat, NEW failures \in Nat
  PROVE  UpdatedData(id, failures) \in CheckData /\ UpdatedData(id, failures).changeID = id
<1>1. CheckStatus(id, failures) \in {"", "up", "down", "inactive"}
  BY DEF CheckStatus
<1> QED BY <1>1 DEF UpdatedData, CheckData

LEMMA DataAfterIs ==
  ASSUME NEW cs, NEW data, NEW new
  PROVE  /\ StartsNow(cs, new) => DataAfter(cs, data, new) = UpdatedData(Len(cs) + 1, 0)
         /\ ~StartsNow(cs, new) => DataAfter(cs, data, new) \in {UpdatedData(0, 0), NoData, data}
<1>1. CASE StartsNow(cs, new)
  <2>1. Modified(cs, new) => Known(cs)
    BY DEF Modified, Known
  <2>2. ~(new \in Config \ Enabled /\ ~Known(cs)) /\ new # NoCheck
    BY <1>1, <2>1, CheckAssumption DEF StartsNow, CheckAssumption
  <2> QED BY <1>1, <2>2 DEF DataAfter
<1>2. CASE ~StartsNow(cs, new)
  BY <1>2 DEF DataAfter
<1> QED BY <1>1, <1>2

LEMMA PlanChangedKeeps ==
  ASSUME NEW cs \in Seq(CheckChange), NEW stop, AllRecover(cs),
         \A i \in DOMAIN cs : Quiet(cs[i]) /\ Ends(cs[i], stop),
         NEW data \in CheckData \cup {NoData}, data # NoData => data.changeID \in 0..Len(cs),
         NEW new \in Config \cup {NoCheck}
  PROVE  /\ ChangesAfter(cs, new) \in Seq(CheckChange)
         /\ AllSound(ChangesAfter(cs, new), stop)
         /\ DataAfter(cs, data, new) \in CheckData \cup {NoData}
         /\ DataAfter(cs, data, new) # NoData =>
              DataAfter(cs, data, new).changeID \in 0..Len(ChangesAfter(cs, new))
<1> DEFINE ended == [i \in DOMAIN cs |->
              IF IsReady(cs[i].status) \/ (cs[i].cached /\ Kept(cs[i], new))
              THEN cs[i] ELSE Aborted(cs[i])]
           started == NewChange("perform", new, 0)
<1>1. ASSUME NEW i \in DOMAIN cs
      PROVE  /\ ended[i] \in CheckChange /\ Sound(ended[i]) /\ Ends(ended[i], stop)
             /\ ended[i].kind = cs[i].kind
             /\ cs[i].status = "Error" => ended[i].status = "Error"
  <2>1. cs[i] \in CheckChange /\ Quiet(cs[i]) /\ Ends(cs[i], stop)
    OBVIOUS
  <2>2. CASE IsReady(cs[i].status) \/ (cs[i].cached /\ Kept(cs[i], new))
    <3>1. Sound(cs[i])
      BY <2>1, <2>2 DEF Sound, IsReady
    <3> QED BY <2>1, <2>2, <3>1
  <2>3. CASE ~(IsReady(cs[i].status) \/ (cs[i].cached /\ Kept(cs[i], new)))
    BY <2>1, <2>3, AbortedIs
  <2> QED BY <2>2, <2>3
<1>2. DOMAIN ended = DOMAIN cs /\ ended \in Seq(CheckChange) /\ Len(ended) = Len(cs)
  BY <1>1
<1> HIDE DEF ended
<1>3. AllSound(ended, stop)
  BY <1>1, <1>2, Rewritten
<1>4. ChangesAfter(cs, new) = IF StartsNow(cs, new) THEN Append(ended, started) ELSE ended
  BY DEF ChangesAfter, ended
<1>5. StartsNow(cs, new) => new \in Config
  BY CheckAssumption DEF StartsNow, CheckAssumption
<1>6. CASE StartsNow(cs, new)
  <2>1. started \in CheckChange /\ Sound(started) /\ Ends(started, stop) /\ started.kind = "perform"
    BY <1>5, <1>6, NewIsSound DEF NewChange
  <2>2. /\ ChangesAfter(cs, new) \in Seq(CheckChange) /\ AllSound(ChangesAfter(cs, new), stop)
        /\ Len(ChangesAfter(cs, new)) = Len(cs) + 1
    BY <1>2, <1>3, <1>4, <1>6, <2>1, Appended
  <2>3. DataAfter(cs, data, new) = UpdatedData(Len(cs) + 1, 0)
    BY <1>6, DataAfterIs
  <2>4. UpdatedData(Len(cs) + 1, 0) \in CheckData
        /\ UpdatedData(Len(cs) + 1, 0).changeID = Len(cs) + 1
    BY <1>2, UpdatedIs
  <2> QED BY <2>2, <2>3, <2>4
<1>7. CASE ~StartsNow(cs, new)
  <2>1. UpdatedData(0, 0) \in CheckData /\ UpdatedData(0, 0).changeID = 0
    BY UpdatedIs
  <2>2. DataAfter(cs, data, new) \in {UpdatedData(0, 0), NoData, data}
    BY <1>7, DataAfterIs
  <2> QED BY <1>2, <1>3, <1>4, <1>7, <2>1, <2>2
<1> QED BY <1>6, <1>7

\* An update leaves alone what runs the check, or starts the check again.
LEMMA PlanChangedRuns ==
  ASSUME NEW cs \in Seq(CheckChange), NEW new \in Config \cup {NoCheck},
         Known(cs) => Runs(cs), new \in Config \/ ~Known(cs)
  PROVE  /\ Known(ChangesAfter(cs, new)) => Runs(ChangesAfter(cs, new))
         /\ new \in Enabled => Runs(ChangesAfter(cs, new))
<1> DEFINE ended == [i \in DOMAIN cs |->
              IF IsReady(cs[i].status) \/ (cs[i].cached /\ Kept(cs[i], new))
              THEN cs[i] ELSE Aborted(cs[i])]
           started == NewChange("perform", new, 0)
<1>1. DOMAIN ended = DOMAIN cs
  OBVIOUS
<1>2. ChangesAfter(cs, new) = IF StartsNow(cs, new) THEN Append(ended, started) ELSE ended
  BY DEF ChangesAfter
<1>3. CASE StartsNow(cs, new)
  <2>1. DOMAIN ended = 1..Len(cs) /\ Len(ended) = Len(cs)
    OBVIOUS
  <2>2. /\ Len(cs) + 1 \in DOMAIN Append(ended, started)
        /\ Append(ended, started)[Len(cs) + 1] = started
    <3> HIDE DEF ended, started
    <3> QED BY <2>1
  <2>3. Existing(started) /\ started.status = "Do"
    BY DEF Existing, NewChange, IsReady
  <2> QED BY <1>2, <1>3, <2>2, <2>3 DEF Runs
<1>4. CASE ~StartsNow(cs, new)
  <2>1. ASSUME NEW i \in DOMAIN cs, Existing(ended[i]) PROVE Existing(cs[i])
    BY <2>1 DEF Existing, Aborted
  <2>2. Known(ended) => Known(cs)
    BY <1>1, <2>1 DEF Known
  <2>3. ASSUME NEW i \in DOMAIN cs, Existing(cs[i]) PROVE ended[i] = cs[i]
    <3>1. Known(cs)
      BY <2>3 DEF Known
    <3>2. new \in Config /\ new # NoCheck
      BY <3>1, CheckAssumption DEF CheckAssumption
    <3>3. Kept(cs[i], new)
      BY <1>4, <2>3, <3>2 DEF StartsNow, Modified
    <3> QED BY <2>3, <3>3 DEF Existing
  <2>4. Runs(cs) => Runs(ended)
    BY <1>1, <2>3 DEF Runs
  <2>5. new \in Enabled => Known(cs)
    BY <1>4 DEF StartsNow
  <2> QED BY <1>2, <1>4, <2>2, <2>4, <2>5
<1> QED BY <1>3, <1>4

(***************************************************************************)
(* The steps, by what they do to one change.                               *)
(***************************************************************************)
LEMMA OneChange ==
  ASSUME TypeOK, AllSound(change, stopping), DataInv,
         NEW i \in ID, NEW c \in CheckChange, change' = [change EXCEPT ![i] = c],
         stopping' = stopping,
         Sound(c), Ends(c, stopping), c.kind = change[i].kind,
         change[i].status = "Error" => c.status = "Error"
  PROVE  /\ change' \in Seq(CheckChange) /\ Len(change') = Len(change)
         /\ AllSound(change', stopping')
         /\ \A j \in ID : j \in DOMAIN change' /\ change'[j] = IF j = i THEN c ELSE change[j]
         /\ DOMAIN change' = ID
<1>1. change \in Seq(CheckChange) /\ ID = DOMAIN change
  BY DEF TypeOK, ID
<1>2. /\ change' \in Seq(CheckChange) /\ Len(change') = Len(change) /\ DOMAIN change' = ID
      /\ \A j \in ID : change'[j] = IF j = i THEN c ELSE change[j]
  BY <1>1
<1>3. \A j \in ID : /\ Sound(change'[j]) /\ Ends(change'[j], stopping')
                    /\ change'[j].kind = change[j].kind
                    /\ change[j].status = "Error" => change'[j].status = "Error"
  BY <1>1, <1>2 DEF AllSound
<1>4. AllSound(change', stopping')
  <2>1. AllRecover(change)
    BY DEF AllSound
  <2> QED BY <1>1, <1>2, <1>3, <2>1, Rewritten
<1> QED BY <1>2, <1>4

\* What runs the check still does when another change takes a step, or when the step leaves
\* the change neither ready nor aborted.
LEMMA OneRuns ==
  ASSUME RunsInv, NEW i \in ID, NEW c, DOMAIN change' = ID,
         \A j \in ID : change'[j] = IF j = i THEN c ELSE change[j],
         Existing(c) => Existing(change[i]),
         Existing(change[i]) /\ Live(i) => Existing(c) /\ c.status \in {"Do", "Doing"},
         UNCHANGED <<wish, stopping, plan, announced>>, ~panicked
  PROVE  RunsInv'
<1>1. Known(change') => Known(change)
  BY DEF Known, ID
<1>2. Runs(change) => Runs(change')
  BY DEF Runs, ID, Live
<1> QED BY <1>1, <1>2 DEF RunsInv

LEMMA ChangeStep ==
  ASSUME CheckInv, ~panicked, NEW i \in ID, NEW c \in CheckChange, Only(i, c),
         Sound(c), Ends(c, stopping), c.kind = change[i].kind,
         change[i].status = "Error" => c.status = "Error",
         Existing(c) => Existing(change[i]),
         Existing(change[i]) /\ Live(i) => Existing(c) /\ c.status \in {"Do", "Doing"},
         checks' \in CheckData \cup {NoData},
         checks' # NoData => checks'.changeID \in 0..Len(change),
         UNCHANGED <<plan, announced, request, stopping, wish, events>>, ~panicked',
         panicked' \in BOOLEAN, failed' \in 0..MaxFailures
  PROVE  CheckInv'
<1> USE DEF CheckInv
<1>1. change' = [change EXCEPT ![i] = c]
  BY DEF Only
<1>2. /\ change' \in Seq(CheckChange) /\ Len(change') = Len(change)
      /\ AllSound(change', stopping') /\ DOMAIN change' = ID
      /\ \A j \in ID : change'[j] = IF j = i THEN c ELSE change[j]
  BY <1>1, OneChange
<1>3. RunsInv'
  BY <1>2, OneRuns
<1>4. TypeOK'
  BY <1>2 DEF TypeOK
<1>5. DataInv'
  BY <1>2 DEF DataInv
<1>6. KnownPanics'
  BY DEF KnownPanics
<1> QED BY <1>2, <1>3, <1>4, <1>5, <1>6

\* The status of a change is set, and the change that is to follow it is made.
LEMMA SetStatusKeeps ==
  ASSUME CheckInv, ~panicked, NEW i \in ID, NEW s, NEW c, NEW d \in CheckChange,
         SetStatus(i, s, c), d = [c EXCEPT !.status = s], d.status = s,
         Sound(d), Ends(d, stopping), d.kind = change[i].kind,
         change[i].status = "Error" => s = "Error",
         Existing(d) => Existing(change[i]),
         Existing(change[i]) /\ Live(i) =>
           Follows(i, s) \/ stopping \/ (Existing(d) /\ s \in {"Do", "Doing"}),
         Follows(i, s) => change[i].cached \/ CutShort(d),
         UNCHANGED <<plan, announced, request, stopping, wish, boundVars>>
  PROVE  CheckInv'
<1> USE DEF CheckInv
<1> DEFINE updated == [change EXCEPT ![i] = d]
           follows == Follows(i, s) /\ change[i].cached
<1>1. change \in Seq(CheckChange) /\ ID = DOMAIN change /\ change[i] \in CheckChange
  BY DEF TypeOK, ID
<1>2. /\ change' = IF follows THEN Append(updated, Successor(i)) ELSE updated
      /\ checks' = IF follows THEN UpdatedData(Len(change) + 1, change[i].details.failures)
                   ELSE checks
      /\ panicked' = (Follows(i, s) /\ ~change[i].cached)
  BY DEF SetStatus
<1>3. /\ updated \in Seq(CheckChange) /\ Len(updated) = Len(change) /\ DOMAIN updated = ID
      /\ \A j \in ID : updated[j] = IF j = i THEN d ELSE change[j]
  BY <1>1
<1> HIDE DEF updated, follows
<1>4. AllSound(updated, stopping)
  <2>1. \A j \in ID : /\ Sound(updated[j]) /\ Ends(updated[j], stopping)
                      /\ updated[j].kind = change[j].kind
                      /\ change[j].status = "Error" => updated[j].status = "Error"
    BY <1>1, <1>3 DEF AllSound
  <2>2. AllRecover(change)
    BY DEF AllSound
  <2> QED BY <1>1, <1>3, <2>1, <2>2, Rewritten
<1>5. TypeOK' /\ AllSound(change', stopping') /\ DataInv'
  <2>1. CASE follows
    <3>1. /\ Successor(i) \in CheckChange /\ Sound(Successor(i)) /\ Ends(Successor(i), stopping)
          /\ Successor(i).kind = "recover" => change[i].kind = "perform"
      <4>1. change[i].config \in Config /\ change[i].details.failures \in Nat
        BY <1>1 DEF CheckChange, Details
      <4>2. \/ Successor(i) = NewChange("recover", change[i].config, change[i].details.failures)
               /\ change[i].kind = "perform"
            \/ Successor(i) = NewChange("perform", change[i].config, 0)
               /\ Successor(i).kind = "perform"
        BY DEF Successor, NewChange
      <4> QED BY <4>1, <4>2, NewIsSound
    <3>2. Successor(i).kind = "recover" =>
            \E p \in DOMAIN updated : updated[p].status = "Error" /\ updated[p].kind = "perform"
      BY <1>3, <2>1, <3>1 DEF Follows, follows
    <3>3. /\ change' \in Seq(CheckChange) /\ AllSound(change', stopping)
          /\ Len(change') = Len(change) + 1
      BY <1>2, <1>3, <1>4, <2>1, <3>1, <3>2, Appended
    <3>4. /\ checks' \in CheckData /\ checks'.changeID = Len(change) + 1
      <4>1. change[i].details.failures \in Nat /\ Len(change) + 1 \in Nat
        BY <1>1 DEF CheckChange, Details
      <4> QED BY <1>2, <2>1, <4>1, UpdatedIs
    <3>5. panicked' \in BOOLEAN
      BY <1>2
    <3>6. TypeOK'
      BY <3>3, <3>4, <3>5 DEF TypeOK, boundVars
    <3>7. Len(change) + 1 \in 0..Len(change')
      BY <1>1, <3>3
    <3> QED BY <3>3, <3>4, <3>6, <3>7 DEF DataInv
  <2>2. CASE ~follows
    <3>1. panicked' \in BOOLEAN
      BY <1>2
    <3>2. TypeOK'
      BY <1>2, <1>3, <2>2, <3>1 DEF TypeOK, boundVars
    <3> QED BY <1>2, <1>3, <1>4, <2>2, <3>2 DEF DataInv
  <2> QED BY <2>1, <2>2
<1>6. RunsInv'
  <2>1. ~announced' => plan' \in Config
    BY DEF RunsInv
  <2>2. ASSUME wish = "none", ~stopping, ~panicked'
        PROVE  /\ Known(change') => Runs(change')
               /\ plan \in Enabled /\ announced => Runs(change')
    <3>1. CASE follows
      <4>1. change' = Append(updated, Successor(i)) /\ Len(updated) \in Nat
        BY <1>2, <1>3, <3>1
      <4>2. /\ Len(updated) + 1 \in DOMAIN change'
            /\ change'[Len(updated) + 1] = Successor(i)
        BY <1>3, <4>1
      <4>3. Existing(Successor(i)) /\ Successor(i).status = "Do"
        BY DEF Successor, NewChange, Existing, IsReady
      <4> QED BY <4>2, <4>3 DEF Runs
    <3>2. CASE ~follows
      <4>1. ~Follows(i, s)
        BY <1>2, <2>2, <3>2 DEF follows
      <4>2. Existing(change[i]) /\ Live(i) => Existing(d) /\ d.status \in {"Do", "Doing"}
        BY <2>2, <4>1
      <4>3. change' = updated
        BY <1>2, <3>2
      <4> QED BY <1>3, <2>2, <4>2, <4>3, OneRuns DEF RunsInv
    <3> QED BY <3>1, <3>2
  <2> QED BY <2>1, <2>2 DEF RunsInv
<1>7. KnownPanics'
  <2> SUFFICES ASSUME panicked' PROVE KnownPanics'
    BY DEF KnownPanics
  <2>1. ~follows /\ CutShort(d)
    BY <1>2 DEF follows
  <2>2. change' = updated /\ i \in DOMAIN change' /\ change'[i] = d
    BY <1>2, <1>3, <2>1
  <2> QED BY <2>1, <2>2 DEF KnownPanics, ID
<1> QED BY <1>5, <1>6, <1>7

-----------------------------------------------------------------------------
(***************************************************************************)
(* The task engine and the handlers.                                       *)
(***************************************************************************)
LEMMA ChangeIs ==
  ASSUME CheckInv, NEW i \in ID
  PROVE  /\ change[i] \in CheckChange /\ Sound(change[i]) /\ Ends(change[i], stopping)
         /\ change \in Seq(CheckChange) /\ ID = 1..Len(change)
BY DEF CheckInv, TypeOK, ID, AllSound

\* A step of the engine or of a handler that sets no status.
LEMMA EngineKeeps ==
  ASSUME CheckInv, NEW i \in ID, EnsureRun(i) \/ EnsureKill(i) \/ Cleanup(i)
  PROVE  CheckInv'
<1> DEFINE c == change[i]
<1>0. c \in CheckChange /\ Sound(c) /\ Ends(c, stopping)
  BY ChangeIs
<1>1. checks \in CheckData \cup {NoData} /\ (checks # NoData => checks.changeID \in 0..Len(change))
  BY DEF CheckInv, TypeOK, DataInv
<1>2. failed \in 0..MaxFailures /\ panicked \in BOOLEAN
  BY DEF CheckInv, TypeOK
<1>3. CASE EnsureRun(i)
  <2> DEFINE d == [c EXCEPT !.status = "Doing", !.pc = "begin", !.mine = c.details]
  <2>1. d \in CheckChange
    BY <1>0 DEF CheckChange, Status, Point
  <2>2. /\ d.kind = c.kind /\ d.cached = c.cached /\ d.status = "Doing" /\ d.pc = "begin"
        /\ d.handled = c.handled /\ d.dying = c.dying
    BY <1>0 DEF CheckChange
  <2>3. (c.status = "Do" /\ c.cached /\ c.handled = 0 /\ ~c.dying) \/ stopping
    BY <1>0, <1>3 DEF EnsureRun, Sound, Quiet, Ends
  <2>4. Only(i, d) /\ ~panicked /\ ~stopping /\ panicked' = ~c.cached
    BY <1>3 DEF EnsureRun, Ensuring
  <2> HIDE DEF d
  <2>5. Sound(d) /\ Ends(d, stopping)
    BY <2>2, <2>3, <2>4 DEF Sound, Quiet, Ends
  <2>6. Existing(d) /\ Existing(c)
    BY <2>2, <2>3, <2>4 DEF Existing, IsReady
  <2> QED BY <1>1, <1>2, <1>3, <2>1, <2>2, <2>3, <2>4, <2>5, <2>6, ChangeStep
          DEF EnsureRun, boundVars
<1>4. CASE EnsureKill(i)
  <2> DEFINE d == [c EXCEPT !.dying = TRUE]
  <2>1. d \in CheckChange
    BY <1>0 DEF CheckChange
  <2>2. /\ d.kind = c.kind /\ d.cached = c.cached /\ d.status = c.status /\ d.pc = c.pc
        /\ d.handled = c.handled /\ d.details = c.details /\ d.mine = c.mine
    BY <1>0 DEF CheckChange
  <2>3. Only(i, d) /\ ~panicked /\ c.status = "Abort" /\ c.pc # "none" /\ panicked' = panicked
    BY <1>4 DEF EnsureKill, Ensuring
  <2> HIDE DEF d
  <2>4. Sound(d) /\ Ends(d, stopping)
    BY <1>0, <2>2, <2>3 DEF Sound, Quiet, Ends
  <2>5. (Existing(d) <=> Existing(c)) /\ ~Live(i)
    BY <2>2, <2>3 DEF Existing, Live
  <2> QED BY <1>1, <1>2, <1>4, <2>1, <2>2, <2>3, <2>4, <2>5, ChangeStep
          DEF EnsureKill, boundVars
<1>5. CASE Cleanup(i)
  <2> DEFINE d == [c EXCEPT !.cached = FALSE]
  <2>1. d \in CheckChange
    BY <1>0 DEF CheckChange
  <2>2. /\ d.kind = c.kind /\ d.status = c.status /\ d.pc = c.pc /\ d.dying = c.dying
        /\ d.handled = c.handled /\ d.details = c.details /\ d.mine = c.mine
    BY <1>0 DEF CheckChange
  <2>3. Only(i, d) /\ ~panicked /\ IsReady(c.status) /\ panicked' = panicked
    BY <1>5 DEF Cleanup, Ensuring
  <2> HIDE DEF d
  <2>4. Sound(d) /\ Ends(d, stopping)
    BY <1>0, <2>2, <2>3 DEF Sound, Quiet, Ends, IsReady
  <2>5. ~Existing(d) /\ ~Existing(c)
    BY <2>2, <2>3 DEF Existing
  <2> QED BY <1>1, <1>2, <1>5, <2>1, <2>2, <2>3, <2>4, <2>5, ChangeStep
          DEF Cleanup, boundVars
<1> QED BY <1>3, <1>4, <1>5

LEMMA HandlerKeeps ==
  ASSUME CheckInv, NEW i \in ID,
         \/ Begin(i) \/ Dying(i) \/ CheckFails(i) \/ CheckSucceeds(i) \/ RecordFailure(i)
         \/ CallFailureHandlers(i) \/ UpdateCheckData(i) \/ StoreDetails(i)
  PROVE  CheckInv'
<1> DEFINE c == change[i]
<1>0. c \in CheckChange /\ Sound(c) /\ Ends(c, stopping)
  BY ChangeIs
<1>1. /\ c.pc # "none" /\ ~panicked /\ ~panicked' /\ panicked' \in BOOLEAN
      /\ UNCHANGED <<plan, announced, request, stopping, wish, events>>
      /\ failed' \in 0..MaxFailures
  <2>1. failed \in 0..MaxFailures /\ panicked \in BOOLEAN
    BY DEF CheckInv, TypeOK
  <2>2. MaxFailures \in Nat
    BY CheckAssumption DEF CheckAssumption
  <2>3. CASE CheckFails(i)
    BY <2>1, <2>2, <2>3 DEF CheckFails, At
  <2>4. CASE ~CheckFails(i)
    BY <2>1, <2>4
    DEF Begin, Dying, CheckSucceeds, RecordFailure, CallFailureHandlers, UpdateCheckData,
        StoreDetails, Updates, At, boundVars
  <2> QED BY <2>3, <2>4
<1>2. c.status \in {"Doing", "Abort"} /\ c.cached
  BY <1>0, <1>1 DEF Sound, Quiet
\* What they do to the data of the check.
<1>3. /\ checks' \in CheckData \cup {NoData}
      /\ checks' # NoData => checks'.changeID \in 0..Len(change)
  <2>1. /\ checks \in CheckData \cup {NoData}
        /\ (checks # NoData => checks.changeID \in 0..Len(change))
    BY DEF CheckInv, TypeOK, DataInv
  <2>2. CASE UNCHANGED checks
    BY <2>1, <2>2
  <2>3. CASE EnsureCheck
    <3>1. [changeID |-> 0, status |-> "", failures |-> 0] \in CheckData
      BY DEF CheckData
    <3>2. 0 \in 0..Len(change)
      BY ChangeIs
    <3> QED BY <2>1, <2>3, <3>1, <3>2 DEF EnsureCheck, EnsuredCheck
  <2>4. CASE UpdateCheckData(i)
    <3>1. c.mine.failures \in Nat /\ i \in 0..Len(change) /\ i \in Nat
      BY <1>0, ChangeIs DEF CheckChange, Details
    <3>2. checks' = UpdatedData(i, c.mine.failures)
      BY <2>4 DEF UpdateCheckData
    <3> QED BY <3>1, <3>2, UpdatedIs
  <2>5. UNCHANGED checks \/ EnsureCheck \/ UpdateCheckData(i)
    BY DEF Begin, Dying, CheckFails, CheckSucceeds, RecordFailure, CallFailureHandlers, StoreDetails
  <2> QED BY <2>2, <2>3, <2>4, <2>5
\* What they do to the change: its kind, its status and its configuration stay.
<1>4. ASSUME NEW d \in CheckChange, Only(i, d), Sound(d), Ends(d, stopping),
             d.kind = c.kind, d.status = c.status, d.cached = c.cached
      PROVE  CheckInv'
  <2>1. /\ Existing(d) <=> Existing(c)
        /\ Existing(c) /\ Live(i) => Existing(d) /\ d.status \in {"Do", "Doing"}
    BY <1>4 DEF Existing, Live
  <2> QED BY <1>1, <1>3, <1>4, <2>1, ChangeStep
<1>5. ASSUME NEW point \in Point, Goes(i, point),
             LET d == [c EXCEPT !.pc = point] IN Sound(d) /\ Ends(d, stopping)
      PROVE  CheckInv'
  <2> DEFINE d == [c EXCEPT !.pc = point]
  <2>1. d \in CheckChange /\ d.kind = c.kind /\ d.status = c.status /\ d.cached = c.cached
    BY <1>0 DEF CheckChange
  <2> QED BY <1>4, <1>5, <2>1 DEF Goes
<1>6. CASE Begin(i) \/ Dying(i) \/ UpdateCheckData(i)
  <2>1. PICK point \in Point :
          /\ Goes(i, point)
          /\ \/ Begin(i) /\ point = "waiting" /\ c.pc = "begin"
             \/ Dying(i) /\ point = "return" /\ c.pc = "waiting" /\ c.dying
             \/ UpdateCheckData(i) /\ point = "waiting" /\ c.pc = "below"
             \/ UpdateCheckData(i) /\ point = "store" /\ c.pc \in {"succeeded", "failed"}
                /\ (c.pc = "succeeded" => c.kind = "perform")
                /\ (c.pc = "failed" => c.kind = "recover")
    BY <1>6 DEF Begin, Dying, UpdateCheckData, Updates, At, Point
  <2> DEFINE d == [c EXCEPT !.pc = point]
  <2>2. /\ d.kind = c.kind /\ d.status = c.status /\ d.cached = c.cached /\ d.dying = c.dying
        /\ d.handled = c.handled /\ d.details = c.details /\ d.mine = c.mine /\ d.pc = point
    BY <1>0 DEF CheckChange
  <2> HIDE DEF d
  <2>3. Sound(d) /\ Ends(d, stopping)
    BY <1>0, <1>2, <2>1, <2>2 DEF Sound, Quiet, Ends
  <2> QED BY <1>5, <2>1, <2>3 DEF d
<1>7. CASE CheckFails(i)
  <2> DEFINE d == [c EXCEPT !.pc = "failed", !.mine.failures = @ + 1]
  <2>1. /\ d.kind = c.kind /\ d.status = c.status /\ d.cached = c.cached /\ d.dying = c.dying
        /\ d.handled = c.handled /\ d.details = c.details /\ d.pc = "failed"
    BY <1>0 DEF CheckChange
  <2>2. d \in CheckChange
    <3>1. c.mine \in Details
      BY <1>0 DEF CheckChange
    <3>2. [c.mine EXCEPT !.failures = @ + 1] \in Details
      BY <3>1 DEF Details
    <3>3. "failed" \in Point
      BY DEF Point
    <3>4. d = [c EXCEPT !.pc = "failed", !.mine = [c.mine EXCEPT !.failures = @ + 1]]
      BY <1>0 DEF CheckChange
    <3> QED BY <1>0, <3>2, <3>3, <3>4 DEF CheckChange
  <2>3. c.pc = "waiting" /\ Only(i, d)
    BY <1>7 DEF CheckFails, At
  <2> HIDE DEF d
  <2>4. Sound(d) /\ Ends(d, stopping)
    BY <1>0, <1>2, <2>1, <2>3 DEF Sound, Quiet, Ends
  <2> QED BY <1>4, <2>1, <2>2, <2>3, <2>4
<1>8. CASE CheckSucceeds(i)
  <2> DEFINE mine == [failures |-> 0, proceed |-> c.kind = "recover"]
             d == [c EXCEPT !.pc = "succeeded", !.mine = mine]
  <2>1. /\ d.kind = c.kind /\ d.status = c.status /\ d.cached = c.cached /\ d.dying = c.dying
        /\ d.handled = c.handled /\ d.details = c.details /\ d.pc = "succeeded"
        /\ d.mine.proceed = (c.kind = "recover")
    BY <1>0 DEF CheckChange
  <2>2. d \in CheckChange
    BY <1>0 DEF CheckChange, Details, Point
  <2>3. c.pc = "waiting" /\ Only(i, d)
    BY <1>8 DEF CheckSucceeds, At
  <2> HIDE DEF d
  <2>4. Sound(d) /\ Ends(d, stopping)
    BY <1>0, <1>2, <2>1, <2>3 DEF Sound, Quiet, Ends
  <2> QED BY <1>4, <2>1, <2>2, <2>3, <2>4
<1>9. CASE RecordFailure(i)
  <2> DEFINE mine == [c.mine EXCEPT !.proceed = AtThreshold(c.mine.failures)]
             point == IF mine.proceed THEN "threshold" ELSE "below"
             d == [c EXCEPT !.mine = mine, !.details = mine, !.pc = point]
  <2>1. mine \in Details
    <3>1. c.mine \in Details /\ AtThreshold(c.mine.failures) \in BOOLEAN
      BY <1>0 DEF CheckChange, AtThreshold
    <3> QED BY <3>1 DEF Details
  <2>2. /\ d.kind = c.kind /\ d.status = c.status /\ d.cached = c.cached /\ d.dying = c.dying
        /\ d.handled = c.handled /\ d.details = mine /\ d.mine = mine /\ d.pc = point
    BY <1>0 DEF CheckChange
  <2>3. d \in CheckChange
    BY <1>0, <2>1 DEF CheckChange, Point
  <2>4. c.pc = "failed" /\ c.kind = "perform" /\ Only(i, d)
    BY <1>9 DEF RecordFailure, At
  <2> HIDE DEF d, mine
  <2>5. Sound(d) /\ Ends(d, stopping)
    BY <1>0, <1>2, <2>2, <2>4 DEF Sound, Quiet, Ends
  <2> QED BY <1>4, <2>2, <2>3, <2>4, <2>5
<1>10. CASE CallFailureHandlers(i)
  <2> DEFINE d == [c EXCEPT !.pc = "return error", !.handled = @ + 1]
  <2>0. c.pc = "threshold" /\ Only(i, d)
    BY <1>10 DEF CallFailureHandlers, At
  <2>1. /\ d.kind = c.kind /\ d.status = c.status /\ d.cached = c.cached /\ d.dying = c.dying
        /\ d.handled = 1 /\ d.details = c.details /\ d.mine = c.mine
        /\ d.pc = "return error" /\ d \in CheckChange
    <3>1. c.handled = 0
      BY <1>0, <2>0 DEF Sound, Quiet
    <3>2. d = [c EXCEPT !.pc = "return error", !.handled = 1]
      BY <1>0, <3>1 DEF CheckChange
    <3>3. 1 \in Nat /\ "return error" \in Point
      BY DEF Point
    <3> QED BY <1>0, <3>2, <3>3 DEF CheckChange
  <2> HIDE DEF d
  <2>2. Sound(d) /\ Ends(d, stopping)
    BY <1>0, <1>2, <2>0, <2>1 DEF Sound, Quiet, Ends
  <2> QED BY <1>4, <2>0, <2>1, <2>2
<1>11. CASE StoreDetails(i)
  <2> DEFINE point == IF c.mine.proceed THEN "return" ELSE "waiting"
             d == [c EXCEPT !.details = c.mine, !.pc = point]
  <2>1. /\ d.kind = c.kind /\ d.status = c.status /\ d.cached = c.cached /\ d.dying = c.dying
        /\ d.handled = c.handled /\ d.details = c.mine /\ d.mine = c.mine /\ d.pc = point
    BY <1>0 DEF CheckChange
  <2>2. d \in CheckChange
    BY <1>0 DEF CheckChange, Point
  <2>3. (c.pc = "store" \/ c.pc = "succeeded") /\ Only(i, d)
    BY <1>11 DEF StoreDetails, At
  <2>4. c.kind \in {"perform", "recover"}
    BY <1>0 DEF CheckChange
  <2> HIDE DEF d
  <2>5. Sound(d) /\ Ends(d, stopping)
    BY <1>0, <1>2, <2>1, <2>3, <2>4 DEF Sound, Quiet, Ends
  <2> QED BY <1>4, <2>1, <2>2, <2>3, <2>5
<1> QED BY <1>6, <1>7, <1>8, <1>9, <1>10, <1>11

LEMMA StatusKeeps ==
  ASSUME CheckInv, NEW i \in ID, EnsureTryUndo(i) \/ EnsureCannotUndo(i) \/ HandlerReturns(i)
  PROVE  CheckInv'
<1> DEFINE c == change[i]
<1>0. c \in CheckChange /\ Sound(c) /\ Ends(c, stopping)
  BY ChangeIs
<1>1. ~panicked /\ UNCHANGED <<plan, announced, request, stopping, wish, boundVars>>
  BY DEF EnsureTryUndo, EnsureCannotUndo, HandlerReturns, Ensuring
<1>2. CASE EnsureTryUndo(i) \/ EnsureCannotUndo(i)
  <2>1. PICK s \in {"Hold", "Done"} :
          /\ SetStatus(i, s, c)
          /\ (c.status = "Abort" /\ s = "Hold") \/ (c.status = "Undo" /\ s = "Done")
          /\ c.pc = "none"
    BY <1>0, <1>2 DEF EnsureTryUndo, EnsureCannotUndo, Sound, Quiet
  <2> DEFINE d == [c EXCEPT !.status = s]
  <2>2. /\ d \in CheckChange /\ d.status = s /\ d.kind = c.kind /\ d.pc = c.pc
        /\ d.dying = c.dying /\ d.cached = c.cached /\ d.handled = c.handled
        /\ d.details = c.details /\ d.mine = c.mine
    BY <1>0 DEF CheckChange, Status
  <2> HIDE DEF d
  <2>3. Sound(d) /\ Ends(d, stopping)
    BY <1>0, <2>1, <2>2 DEF Sound, Quiet, Ends
  <2>4. ~Existing(d) /\ ~Live(i)
    BY <2>1, <2>2 DEF Existing, IsReady, Live
  <2>5. Follows(i, s) => c.cached \/ CutShort(d)
    BY <2>1, <2>2 DEF Follows, CutShort
  <2> QED BY <1>1, <2>1, <2>2, <2>3, <2>4, <2>5, SetStatusKeeps DEF d
<1>3. CASE HandlerReturns(i)
  <2> DEFINE over == [c EXCEPT !.pc = "none", !.dying = FALSE, !.mine = NewDetails(0)]
  <2>1. /\ over.status = c.status /\ over.kind = c.kind /\ over.cached = c.cached
        /\ over.pc = "none" /\ over.dying = FALSE /\ over.handled = c.handled
        /\ over.details = c.details /\ over \in CheckChange
    BY <1>0 DEF CheckChange, Details, NewDetails, Point
  <2>2. PICK s \in {"Hold", "Error", "Undo", "Done", "Doing"} :
          /\ SetStatus(i, s, over)
          /\ \/ c.pc = "return error" /\ s = "Error" /\ ~stopping
             \/ c.pc = "return error" /\ s = Retried(c.status) /\ stopping
             \/ c.pc = "return" /\ s = "Undo" /\ c.status = "Abort"
             \/ c.pc = "return" /\ s = "Done" /\ c.status # "Abort"
    <3>1. c.pc # "none" => c.status \in {"Doing", "Abort"}
      BY <1>0 DEF Sound, Quiet
    <3> QED BY <1>3, <2>1, <3>1 DEF HandlerReturns, Retried
  <2> HIDE DEF over
  <2> DEFINE d == [over EXCEPT !.status = s]
  <2>3. /\ d \in CheckChange /\ d.status = s /\ d.kind = c.kind /\ d.pc = "none"
        /\ d.dying = FALSE /\ d.cached = c.cached /\ d.handled = c.handled
        /\ d.details = c.details
    BY <2>1 DEF CheckChange, Status
  <2> HIDE DEF d
  <2>4. c.pc # "none" /\ c.cached /\ c.status \in {"Doing", "Abort"}
    BY <1>0, <2>2 DEF Sound, Quiet
  <2>5. Sound(d) /\ Ends(d, stopping)
    BY <1>0, <2>2, <2>3, <2>4 DEF Sound, Quiet, Ends
  <2>6. Existing(d) => Existing(c)
    BY <2>3, <2>4 DEF Existing, IsReady
  <2>7. Live(i) => Follows(i, s) \/ stopping
    BY <1>0, <2>2, <2>4 DEF Live, Follows, Sound, Quiet, Ends
  <2> QED BY <1>1, <2>2, <2>3, <2>4, <2>5, <2>6, <2>7, SetStatusKeeps DEF d
<1> QED BY <1>2, <1>3

-----------------------------------------------------------------------------
(***************************************************************************)
(* The plan, the user and the daemon.                                      *)
(***************************************************************************)
LEMMA PlanKeeps ==
  ASSUME CheckInv, (\E new \in Config : UpdatePlan(new)) \/ PlanChanged \/ RequestStart
  PROVE  CheckInv'
<1> USE DEF CheckInv
<1>0. MaxEvents \in Nat /\ (Event => events' \in 0..MaxEvents)
  BY CheckAssumption DEF CheckAssumption, Event, TypeOK
<1>1. ASSUME NEW new \in Config, UpdatePlan(new) PROVE CheckInv'
  <2>1. TypeOK'
    BY <1>0, <1>1 DEF UpdatePlan, TypeOK
  <2>2. AllSound(change', stopping') /\ DataInv' /\ KnownPanics'
    BY <1>1 DEF UpdatePlan, DataInv, KnownPanics, ID
  <2>3. RunsInv'
    BY <1>1 DEF UpdatePlan, RunsInv
  <2> QED BY <2>1, <2>2, <2>3
<1>2. CASE RequestStart
  <2>1. TypeOK'
    BY <1>0, <1>2 DEF RequestStart, TypeOK
  <2>2. AllSound(change', stopping') /\ DataInv' /\ KnownPanics'
    BY <1>2 DEF RequestStart, DataInv, KnownPanics, ID
  <2>3. RunsInv'
    BY <1>2 DEF RequestStart, RunsInv
  <2> QED BY <2>1, <2>2, <2>3
<1>3. CASE PlanChanged
  <2>1. /\ change' = ChangesAfter(change, plan) /\ checks' = DataAfter(change, checks, plan)
        /\ UNCHANGED <<plan, request, stopping, panicked, wish, boundVars>> /\ announced'
        /\ ~panicked /\ plan \in Config
    BY <1>3 DEF PlanChanged, Serving, RunsInv
  <2>2. change \in Seq(CheckChange) /\ checks \in CheckData \cup {NoData}
    BY DEF TypeOK
  <2>3. /\ change' \in Seq(CheckChange) /\ AllSound(change', stopping')
        /\ checks' \in CheckData \cup {NoData} /\ DataInv'
    <3>1. /\ AllRecover(change)
          /\ \A i \in DOMAIN change : Quiet(change[i]) /\ Ends(change[i], stopping)
      BY DEF AllSound, Sound
    <3> QED BY <2>1, <2>2, <3>1, PlanChangedKeeps DEF DataInv
  <2>4. TypeOK'
    BY <2>1, <2>3 DEF TypeOK, boundVars, PlanChanged
  <2>5. RunsInv'
    BY <2>1, <2>2, PlanChangedRuns DEF RunsInv
  <2>6. KnownPanics'
    BY <2>1 DEF KnownPanics
  <2> QED BY <2>3, <2>4, <2>5, <2>6
<1> QED BY <1>1, <1>2, <1>3

LEMMA StartKeeps ==
  ASSUME CheckInv, StartChecks \/ Replan
  PROVE  CheckInv'
<1> USE DEF CheckInv
<1>1. PICK config \in Config : StartWith(config)
  BY CheckAssumption DEF StartChecks, Replan, TypeOK, CheckAssumption
<1>2. /\ UNCHANGED <<plan, announced, stopping, panicked, failed>> /\ ~panicked
      /\ request' \in Config \cup {NoCheck} /\ events' \in 0..MaxEvents /\ wish' = "start"
  <2>1. MaxEvents \in Nat
    BY CheckAssumption DEF CheckAssumption
  <2> QED BY <1>1, <2>1 DEF StartChecks, Replan, Serving, Event, StartWith, boundVars, TypeOK
<1>3. change \in Seq(CheckChange) /\ checks \in CheckData \cup {NoData}
  BY DEF TypeOK
<1>4. /\ change' \in Seq(CheckChange) /\ AllSound(change', stopping)
      /\ checks' \in CheckData \cup {NoData} /\ DataInv'
  <2>1. CASE Startable
    <3> DEFINE n == NewChange("perform", config, 0)
    <3>1. n \in CheckChange /\ Sound(n) /\ Ends(n, stopping) /\ n.kind = "perform"
      BY NewIsSound DEF NewChange
    <3> HIDE DEF n
    <3>2. change' = Append(change, n) /\ checks' = UpdatedData(Len(change) + 1, 0)
      BY <1>1, <2>1 DEF StartWith, n
    <3>3. /\ change' \in Seq(CheckChange) /\ AllSound(change', stopping)
          /\ Len(change') = Len(change) + 1
      BY <1>3, <3>1, <3>2, Appended
    <3>4. checks' \in CheckData /\ checks'.changeID = Len(change) + 1
      BY <1>3, <3>2, UpdatedIs
    <3> QED BY <1>3, <3>3, <3>4 DEF DataInv
  <2>2. CASE ~Startable
    BY <1>1, <1>3, <2>2 DEF StartWith, DataInv
  <2> QED BY <2>1, <2>2
<1>5. TypeOK'
  BY <1>2, <1>4 DEF TypeOK
<1>6. RunsInv' /\ KnownPanics'
  BY <1>2 DEF RunsInv, KnownPanics
<1> QED BY <1>2, <1>4, <1>5, <1>6

LEMMA StopChecksKeeps ==
  ASSUME CheckInv, StopChecks
  PROVE  CheckInv'
<1> USE DEF CheckInv
<1> DEFINE id == checks.changeID
           running == checks # NoData /\ id # 0
<1>1. /\ change' = IF running THEN [change EXCEPT ![id] = Aborted(change[id])] ELSE change
      /\ checks' = IF running THEN UpdatedData(0, checks.failures) ELSE checks
      /\ panicked' = (running /\ change[id].status = "Done")
      /\ wish' = IF checks = NoData THEN wish ELSE "stop"
      /\ UNCHANGED <<plan, announced, request, stopping, failed>> /\ ~panicked
  BY DEF StopChecks, Serving
<1>2. events' \in 0..MaxEvents /\ panicked' \in BOOLEAN
  BY <1>1, CheckAssumption DEF CheckAssumption, StopChecks, Event, TypeOK
<1>3. change \in Seq(CheckChange) /\ checks \in CheckData \cup {NoData} /\ DOMAIN change = ID
  BY DEF TypeOK, ID
<1>4. CASE running
  <2>1. id \in ID /\ checks \in CheckData /\ checks.failures \in Nat
    <3>1. checks \in CheckData /\ id \in 0..Len(change) /\ id # 0
      BY <1>3, <1>4 DEF DataInv
    <3>2. DOMAIN change = 1..Len(change) /\ Len(change) \in Nat
      BY <1>3
    <3> HIDE DEF id
    <3>3. id \in ID
      BY <1>3, <3>1, <3>2
    <3> QED BY <3>1, <3>3 DEF CheckData
  <2> DEFINE c == Aborted(change[id])
  <2>2. /\ c \in CheckChange /\ Sound(c) /\ Ends(c, stopping) /\ c.kind = change[id].kind
        /\ change[id].status = "Error" => c.status = "Error"
    <3>1. change[id] \in CheckChange /\ Quiet(change[id]) /\ Ends(change[id], stopping)
      BY <2>1, ChangeIs DEF Sound
    <3> QED BY <3>1, AbortedIs
  <2>3. change[id].status = "Done" => StoppedLate(c)
    BY <2>1, ChangeIs DEF Aborted, AbortedStatus, StoppedLate, CheckChange
  <2> HIDE DEF c
  <2>4. change' = [change EXCEPT ![id] = c] /\ stopping' = stopping
    BY <1>1, <1>4 DEF c
  <2> HIDE DEF id
  <2>5. /\ change' \in Seq(CheckChange) /\ Len(change') = Len(change)
        /\ AllSound(change', stopping') /\ DOMAIN change' = ID /\ change'[id] = c
    BY <2>1, <2>2, <2>4, OneChange
  <2>6. checks' \in CheckData /\ checks'.changeID = 0
    BY <1>1, <1>4, <2>1, UpdatedIs
  <2>7. TypeOK' /\ DataInv'
    BY <1>1, <1>2, <1>3, <1>4, <2>5, <2>6 DEF TypeOK, DataInv
  <2>8. RunsInv'
    BY <1>1, <1>4 DEF RunsInv
  <2>9. KnownPanics'
    BY <1>1, <2>1, <2>3, <2>5 DEF KnownPanics, ID
  <2> QED BY <2>5, <2>7, <2>8, <2>9
<1>5. CASE ~running
  <2>1. UNCHANGED <<change, checks>> /\ ~panicked'
    BY <1>1, <1>5
  <2>2. TypeOK' /\ DataInv'
    BY <1>1, <1>2, <2>1 DEF TypeOK, DataInv
  <2>3. RunsInv' /\ KnownPanics'
    BY <1>1, <2>1 DEF RunsInv, KnownPanics
  <2> QED BY <1>1, <2>1, <2>2, <2>3
<1> QED BY <1>4, <1>5

LEMMA StopKeeps ==
  ASSUME CheckInv, Stop
  PROVE  CheckInv'
<1> USE DEF CheckInv
<1>1. /\ stopping' = TRUE
      /\ UNCHANGED <<checks, plan, announced, request, panicked, wish, boundVars>>
      /\ change' = [i \in ID |-> [change[i] EXCEPT !.dying = change[i].pc # "none"]]
      /\ announced /\ ~panicked
  BY DEF Stop, Ensuring
<1>2. /\ change \in Seq(CheckChange)
      /\ ID = 1..Len(change)
      /\ ID = DOMAIN change
      /\ Len(change) \in Nat
  BY DEF TypeOK, ID
<1>3. ASSUME NEW j \in ID
      PROVE  /\ change'[j] \in CheckChange /\ Sound(change'[j]) /\ Ends(change'[j], TRUE)
             /\ change'[j].kind = change[j].kind
             /\ change[j].status = "Error" => change'[j].status = "Error"
  <2> DEFINE c == change[j]
             d == [c EXCEPT !.dying = c.pc # "none"]
  <2>1. c \in CheckChange /\ Sound(c)
    BY ChangeIs
  <2>2. /\ d \in CheckChange /\ d.kind = c.kind /\ d.status = c.status /\ d.cached = c.cached
        /\ d.pc = c.pc /\ d.handled = c.handled /\ d.details = c.details /\ d.mine = c.mine
        /\ d.dying = (c.pc # "none")
    BY <2>1 DEF CheckChange
  <2>3. change'[j] = d
    BY <1>1
  <2> HIDE DEF c, d
  <2>4. Sound(d) /\ Ends(d, TRUE)
    BY <2>1, <2>2 DEF Sound, Quiet, Ends
  <2> QED BY <2>2, <2>3, <2>4 DEF c
<1>4. change' \in Seq(CheckChange) /\ Len(change') = Len(change)
  <2>1. change' \in [1..Len(change) -> CheckChange]
    BY <1>1, <1>2, <1>3
  <2> QED BY <1>2, <2>1
<1>5. AllSound(change', TRUE)
  <2>1. AllRecover(change)
    BY DEF AllSound
  <2> QED BY <1>2, <1>3, <1>4, <2>1, Rewritten
<1>6. TypeOK' /\ DataInv'
  BY <1>1, <1>4 DEF TypeOK, DataInv, boundVars
<1>7. RunsInv' /\ KnownPanics'
  BY <1>1 DEF RunsInv, KnownPanics
<1> QED BY <1>1, <1>5, <1>6, <1>7

\* What no process runs is aborted, and an enabled check is started.
LEMMA FreshStart ==
  ASSUME NEW cs \in Seq(CheckChange), AllRecover(cs), ~Known(cs),
         \A i \in DOMAIN cs : Quiet(cs[i]) /\ Ends(cs[i], FALSE),
         change' = ChangesAfter(cs, OnDisk), checks' = DataAfter(cs, NoData, OnDisk),
         plan' = OnDisk, announced', ~panicked', stopping' = FALSE
  PROVE  /\ change' \in Seq(CheckChange) /\ checks' \in CheckData \cup {NoData}
         /\ AllSound(change', stopping') /\ DataInv' /\ RunsInv' /\ KnownPanics'
<1>1. OnDisk \in Config \cup {NoCheck}
  BY CheckAssumption DEF CheckAssumption
<1>2. /\ change' \in Seq(CheckChange) /\ AllSound(change', FALSE)
      /\ checks' \in CheckData \cup {NoData} /\ DataInv'
  BY <1>1, PlanChangedKeeps DEF DataInv
<1>3. /\ Known(change') => Runs(change')
      /\ OnDisk \in Enabled => Runs(change')
  BY <1>1, PlanChangedRuns
<1>4. RunsInv' /\ KnownPanics'
  BY <1>3 DEF RunsInv, KnownPanics
<1> QED BY <1>2, <1>4

LEMMA RestartKeeps ==
  ASSUME CheckInv, Restart
  PROVE  CheckInv'
<1> USE DEF CheckInv
<1> DEFINE kept == [i \in ID |-> Survivor(change[i])]
<1>1. /\ change' = ChangesAfter(kept, OnDisk) /\ checks' = DataAfter(kept, NoData, OnDisk)
      /\ plan' = OnDisk /\ announced' = TRUE /\ request' = NoCheck /\ stopping' = FALSE
      /\ panicked' = FALSE /\ wish' = "none" /\ failed' = failed
  BY DEF Restart
<1>2. /\ change \in Seq(CheckChange)
      /\ ID = 1..Len(change)
      /\ ID = DOMAIN change
      /\ Len(change) \in Nat
  BY DEF TypeOK, ID
<1>3. ASSUME NEW j \in ID
      PROVE  /\ kept[j] \in CheckChange /\ kept[j].kind = change[j].kind /\ ~kept[j].cached
             /\ kept[j].status = change[j].status /\ kept[j].handled = change[j].handled
             /\ kept[j].pc = "none" /\ ~kept[j].dying
  <2>1. change[j] \in CheckChange
    BY ChangeIs
  <2> QED BY <2>1 DEF Survivor, CheckChange, Details, NewDetails, Point
<1>4. kept \in Seq(CheckChange) /\ Len(kept) = Len(change) /\ DOMAIN kept = ID
  <2>1. kept \in [1..Len(change) -> CheckChange]
    BY <1>2, <1>3
  <2> QED BY <1>2, <2>1
<1> HIDE DEF kept
<1>5. \A j \in ID : Quiet(kept[j]) /\ Ends(kept[j], FALSE)
  <2> TAKE j \in ID
  <2>1. Sound(change[j])
    BY ChangeIs
  <2>2. /\ kept[j].kind = change[j].kind /\ kept[j].pc = "none" /\ ~kept[j].dying
        /\ kept[j].status = change[j].status /\ kept[j].handled = change[j].handled
    BY <1>3
  <2> QED BY <2>1, <2>2 DEF Sound, Quiet, Ends
<1>6. AllRecover(kept)
  <2> SUFFICES ASSUME NEW r \in ID, kept[r].kind = "recover" PROVE Recovers(kept, r)
    BY <1>4 DEF AllRecover
  <2>1. PICK p \in 1..(r - 1) : change[p].status = "Error" /\ change[p].kind = "perform"
    BY <1>2, <1>3 DEF AllSound, AllRecover, Recovers
  <2>2. p \in ID
    BY <1>2
  <2> QED BY <1>3, <2>1, <2>2 DEF Recovers
<1>7. ~Known(kept)
  BY <1>3, <1>4 DEF Known, Existing
<1>8. /\ change' \in Seq(CheckChange) /\ checks' \in CheckData \cup {NoData}
      /\ AllSound(change', stopping') /\ DataInv' /\ RunsInv' /\ KnownPanics'
  BY <1>1, <1>4, <1>5, <1>6, <1>7, FreshStart
<1>9. TypeOK'
  <2>1. events' \in 0..MaxEvents
    BY CheckAssumption DEF CheckAssumption, Restart, Event, TypeOK
  <2>2. OnDisk \in Config \cup {NoCheck}
    BY CheckAssumption DEF CheckAssumption
  <2> QED BY <1>1, <1>8, <2>1, <2>2 DEF TypeOK
<1> QED BY <1>8, <1>9

LEMMA InitChecks == Init => CheckInv
<1> SUFFICES ASSUME Init PROVE CheckInv
  OBVIOUS
<1>1. OnDisk \in Config \cup {NoCheck} /\ 0 \in 0..MaxFailures /\ 0 \in 0..MaxEvents
  BY CheckAssumption DEF CheckAssumption
<1>2. /\ << >> \in Seq(CheckChange) /\ AllRecover(<< >>) /\ ~Known(<< >>)
      /\ \A i \in DOMAIN << >> : Quiet(<< >>[i]) /\ Ends(<< >>[i], FALSE)
  BY DEF AllRecover, Known
<1>3. /\ change = ChangesAfter(<< >>, OnDisk) /\ checks = DataAfter(<< >>, NoData, OnDisk)
      /\ stopping = FALSE /\ plan = OnDisk /\ announced = TRUE /\ panicked = FALSE
  BY DEF Init
<1>4. /\ change \in Seq(CheckChange) /\ AllSound(change, FALSE)
      /\ checks \in CheckData \cup {NoData} /\ DataInv
  BY <1>1, <1>2, <1>3, PlanChangedKeeps DEF DataInv
<1>5. /\ Known(change) => Runs(change)
      /\ OnDisk \in Enabled => Runs(change)
  BY <1>1, <1>2, <1>3, PlanChangedRuns
<1>6. TypeOK
  BY <1>1, <1>3, <1>4 DEF Init, TypeOK
<1>7. RunsInv /\ KnownPanics
  BY <1>3, <1>5 DEF RunsInv, KnownPanics
<1> QED BY <1>3, <1>4, <1>6, <1>7 DEF CheckInv

LEMMA NextChecks == CheckInv /\ [Next]_vars => CheckInv'
<1> SUFFICES ASSUME CheckInv, [Next]_vars PROVE CheckInv'
  OBVIOUS
<1>1. CASE Next
  <2>1. ASSUME NEW i \in ID, Engine(i) \/ Handler(i) PROVE CheckInv'
    BY <2>1, EngineKeeps, HandlerKeeps, StatusKeeps DEF Engine, Handler
  <2> QED BY <1>1, <2>1, PlanKeeps, StartKeeps, StopChecksKeeps, StopKeeps, RestartKeeps DEF Next
<1>2. CASE UNCHANGED vars
  <2>1. TypeOK' /\ AllSound(change', stopping') /\ DataInv'
    BY <1>2 DEF CheckInv, TypeOK, DataInv, vars, boundVars
  <2>2. RunsInv' /\ KnownPanics'
    BY <1>2 DEF CheckInv, RunsInv, KnownPanics, ID, vars
  <2> QED BY <2>1, <2>2 DEF CheckInv
<1> QED BY <1>1, <1>2

LEMMA ChecksKept == Spec => []CheckInv
BY InitChecks, NextChecks, PTL DEF Spec

-----------------------------------------------------------------------------
(***************************************************************************)
(* A check that the plan enables and nobody stopped has a change that runs *)
(* it or is about to; a handler that runs finds its configuration cached;  *)
(* and the daemon panics in the two known ways only (PlanChanged,          *)
(* changeStatusChanged, doPerformCheck, doRecoverCheck and the cleanups    *)
(* of NewManager).                                                         *)
(***************************************************************************)
THEOREM ChecksRun == Spec => []ChecksSound
<1>1. CheckInv => ChecksSound
  <2> SUFFICES ASSUME CheckInv PROVE ChecksSound
    OBVIOUS
  <2>1. EnabledRuns
    BY DEF CheckInv, RunsInv, Runs, EnabledRuns, Live, ID
  <2>2. RunningIsCached
    BY ChangeIs DEF RunningIsCached, Sound, Quiet
  <2> QED BY <2>1, <2>2 DEF CheckInv, ChecksSound
<1> QED BY <1>1, ChecksKept, PTL

(***************************************************************************)
(* A perform-check ends in error only when its failure handlers have run,  *)
(* and once; and a recover-check always comes after one that did           *)
(* (doPerformCheck, changeStatusChanged), through restarts too.            *)
(***************************************************************************)
THEOREM FailureHandled == Spec => []DownIsHandled
<1>1. CheckInv => DownIsHandled
  <2> SUFFICES ASSUME CheckInv PROVE DownIsHandled
    OBVIOUS
  <2>1. \A i \in ID :
          change[i].status = "Error" => change[i].kind = "perform" /\ change[i].handled = 1
    BY ChangeIs DEF Sound, Quiet
  <2>2. \A r \in ID : change[r].kind = "recover" => Recovers(change, r)
    BY DEF CheckInv, AllSound, AllRecover, ID
  <2>3. ASSUME NEW r \in ID, Recovers(change, r)
        PROVE  \E p \in 1..(r - 1) : change[p].status = "Error" /\ change[p].kind = "perform"
    BY <2>3 DEF Recovers
  <2> QED BY <2>1, <2>2, <2>3 DEF DownIsHandled
<1> QED BY <1>1, ChecksKept, PTL
=============================================================================
