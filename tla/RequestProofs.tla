---------------------------- MODULE RequestProofs ----------------------------
(***************************************************************************)
(* Proofs about the requests that share state with others: pairing, for    *)
(* every set of clients, certificates, bodies and identities and for every *)
(* length of a window; notices, for every set of keys, processes and       *)
(* users; and a build-test, for every set of options and every number of   *)
(* retries, aborts and restarts.                                           *)
(***************************************************************************)
EXTENDS Notices, Pairing, BuildTest, TLAPS, FiniteSetTheorems, SequenceTheorems

(***************************************************************************)
(* Pairing.                                                                *)
(***************************************************************************)
\* What the requests are, whatever they ask for.
RequestShape ==
  /\ req = [c \in Clients |-> req[c]]
  /\ \A c \in Clients : req[c] = [pc |-> req[c].pc, r |-> req[c].r, user |-> req[c].user]

\* Why a pairing is the only one of its window: who is about to pair holds the lock of an
\* open window, and nobody has paired in an open window, nor ever if its mode is "single".
WindowInv ==
  /\ enabled => opened = 0
  /\ enabled /\ mode = "single" => ~paired
  /\ mu # "free" => enabled
  /\ expiry \in Nat /\ opened \in Nat /\ total \in 0..2

PairingInv == RequestShape /\ WindowInv /\ PairingSound

(***************************************************************************)
(* A step of one request leaves the others where they are, and ends with a *)
(* request in the place the step says.                                     *)
(***************************************************************************)
LEMMA FinishShape ==
  ASSUME RequestShape, NEW c \in Clients, Finish(c)
  PROVE  /\ RequestShape'
         /\ req'[c].pc = "idle"
         /\ \A d \in Clients \ {c} : req'[d] = req[d]
BY DEF RequestShape, Finish, Unserved

LEMMA MoveShape ==
  ASSUME RequestShape, NEW c \in Clients, NEW p, NEW u, Move(c, p, u)
  PROVE  /\ RequestShape'
         /\ req'[c].pc = p
         /\ \A d \in Clients \ {c} : req'[d] = req[d]
BY DEF RequestShape, Move

LEMMA ArriveShape ==
  ASSUME RequestShape, NEW c \in Clients, Arrive(c)
  PROVE  /\ RequestShape'
         /\ req'[c].pc = "arrived"
         /\ \A d \in Clients \ {c} : req'[d] = req[d]
BY DEF RequestShape, Arrive, Unserved

(***************************************************************************)
(* A step of one request that neither holds the lock nor takes it.         *)
(***************************************************************************)
LEMMA LockKept ==
  ASSUME PairingTypeOK, NEW c \in Clients, req[c].pc # "locks", req'[c].pc # "locks",
         \A d \in Clients \ {c} : req'[d] = req[d], mu' = mu
  PROVE  \A d \in Clients : mu' = d <=> req'[d].pc = "locks"
BY DEF PairingTypeOK

(***************************************************************************)
(* Every change of the identities saves them, and none gives two of them   *)
(* the same uid.                                                           *)
(***************************************************************************)
LEMMA SetAgrees ==
  ASSUME NEW ids, VerifyUniqueUserIDs(ids), Set(ids)
  PROVE  IdentitiesAgree'
BY DEF Set, IdentitiesAgree, VerifyUniqueUserIDs

LEMMA AddAgrees ==
  ASSUME NEW m, AddIdentities(m)
  PROVE  IdentitiesAgree'
BY SetAgrees DEF AddIdentities

LEMMA RemoveAgrees ==
  ASSUME IdentitiesAgree, NEW m, RemoveIdentities(m)
  PROVE  IdentitiesAgree'
<1> DEFINE rest == [n \in DOMAIN identities \ DOMAIN m |-> identities[n]]
<1>1. VerifyUniqueUserIDs(rest)
  BY DEF IdentitiesAgree, VerifyUniqueUserIDs
<1>2. Set(rest)
  BY DEF RemoveIdentities
<1> QED BY <1>1, <1>2, SetAgrees

LEMMA PostAgrees ==
  ASSUME IdentitiesAgree, NEW c \in Clients, PostIdentities(c)
  PROVE  IdentitiesAgree'
<1>1. CASE UNCHANGED <<identities, saved>>
  BY <1>1 DEF IdentitiesAgree, VerifyUniqueUserIDs
<1>2. ASSUME NEW m \in ReadIdentities, AddCommand(m)
      PROVE  IdentitiesAgree'
  BY <1>2, AddAgrees DEF AddCommand
<1>3. ASSUME NEW m \in ReadIdentities, RemoveCommand(m)
      PROVE  IdentitiesAgree'
  BY <1>3, RemoveAgrees DEF RemoveCommand
<1>4. ASSUME NEW m \in ReadIdentities, NEW replace \in BOOLEAN, UpdateCommand(m, replace)
      PROVE  IdentitiesAgree'
  <2>1. CASE ReplaceIdentities(m)
    BY <2>1, SetAgrees DEF ReplaceIdentities
  <2>2. CASE UpdateIdentities(m)
    BY <2>2, SetAgrees DEF UpdateIdentities
  <2> QED BY <1>4, <2>1, <2>2 DEF UpdateCommand
<1> QED BY <1>1, <1>2, <1>3, <1>4 DEF PostIdentities

LEMMA PairingInitInv == PairingInit => PairingInv
<1> SUFFICES ASSUME PairingInit PROVE PairingInv
  OBVIOUS
<1>1. RequestShape
  BY DEF PairingInit, IdentitiesInit, RequestShape, Unserved
<1>2. WindowInv
  BY DEF PairingInit, WindowInv
<1>3. PairingTypeOK
  <2>1. \A c \in Clients : "free" = c <=> req[c].pc = "locks"
    BY PairingAssumption DEF PairingAssumption, PairingInit, IdentitiesInit, Unserved
  <2>2. now \in 0..MaxNow /\ ensureAt \in 0..MaxNow
    BY PairingAssumption DEF PairingAssumption, PairingInit
  <2>3. mode \in Modes /\ enabled \in BOOLEAN /\ paired \in BOOLEAN /\ mu = "free"
    BY Zenon DEF PairingInit, Modes
  <2> QED BY <2>1, <2>2, <2>3 DEF PairingTypeOK
<1>4. IdentitiesAgree
  <2>1. DOMAIN <<>> = {}
    OBVIOUS
  <2>2. VerifyUniqueUserIDs(<<>>)
    BY <2>1 DEF VerifyUniqueUserIDs
  <2>3. identities = <<>> /\ saved = <<>>
    BY DEF PairingInit, IdentitiesInit
  <2> QED BY <2>2, <2>3, Zenon DEF IdentitiesAgree
<1>5. OnePairingPerWindow /\ SinglePairsOnce /\ WindowCloses
  BY DEF PairingInit, OnePairingPerWindow, SinglePairsOnce, WindowCloses
<1>6. PairedIsKept
  <2>1. total > 0 <=> paired
    BY DEF PairingInit
  <2>2. savedPaired = paired
    BY Zenon DEF PairingInit
  <2> QED BY <2>1, <2>2 DEF PairedIsKept
<1> QED BY <1>1, <1>2, <1>3, <1>4, <1>5, <1>6 DEF PairingInv, PairingSound

(***************************************************************************)
(* A request that does not pair: the window stays as it is.                *)
(***************************************************************************)
LEMMA PairRequestKeeps ==
  ASSUME PairingInv, NEW c \in Clients, UNCHANGED pairVars,
         req[c].pc # "locks", req'[c].pc # "locks", RequestShape',
         \A d \in Clients \ {c} : req'[d] = req[d], IdentitiesAgree'
  PROVE  PairingInv'
<1>1. WindowInv'
  BY DEF PairingInv, WindowInv, pairVars, windowVars
<1>2. \A d \in Clients : mu' = d <=> req'[d].pc = "locks"
  BY LockKept DEF PairingInv, PairingSound, pairVars
<1>3. PairingTypeOK'
  BY <1>2 DEF PairingInv, PairingSound, PairingTypeOK, pairVars, windowVars
<1>4. (OnePairingPerWindow /\ SinglePairsOnce /\ PairedIsKept /\ WindowCloses)'
  BY DEF PairingInv, PairingSound, OnePairingPerWindow, SinglePairsOnce, PairedIsKept,
         WindowCloses, pairVars, windowVars
<1> QED BY <1>1, <1>3, <1>4 DEF PairingInv, PairingSound

(***************************************************************************)
(* The window changes while nobody holds the lock and no request moves.    *)
(***************************************************************************)
LEMMA RequestsWait ==
  ASSUME PairingInv, UNCHANGED <<identities, saved, req>>
  PROVE  RequestShape' /\ IdentitiesAgree'
BY DEF PairingInv, PairingSound, RequestShape, IdentitiesAgree, VerifyUniqueUserIDs

(***************************************************************************)
(* The steps of the manager, of the overlord and of time.                  *)
(***************************************************************************)
LEMMA PlanChangedKeeps ==
  ASSUME PairingInv, PlanChanged
  PROVE  PairingInv'
<1>1. RequestShape' /\ IdentitiesAgree'
  BY RequestsWait DEF PlanChanged
<1>2. enabled' \in BOOLEAN /\ (enabled' => enabled /\ mode' = mode)
  BY DEF PlanChanged
<1>3. WindowInv'
  BY <1>2 DEF PairingInv, WindowInv, PlanChanged
<1>4. PairingTypeOK'
  BY <1>2 DEF PairingInv, PairingSound, PairingTypeOK, PlanChanged
<1>5. (OnePairingPerWindow /\ SinglePairsOnce /\ PairedIsKept /\ WindowCloses)'
  BY <1>2 DEF PairingInv, PairingSound, OnePairingPerWindow, SinglePairsOnce, PairedIsKept,
              WindowCloses, PlanChanged
<1> QED BY <1>1, <1>3, <1>4, <1>5 DEF PairingInv, PairingSound

LEMMA EnsureKeeps ==
  ASSUME PairingInv, Ensure
  PROVE  PairingInv'
<1>1. RequestShape' /\ IdentitiesAgree'
  BY RequestsWait DEF Ensure
<1>2. enabled' \in BOOLEAN /\ (enabled' => enabled)
  BY DEF Ensure, PairingInv, PairingSound, PairingTypeOK
<1>3. WindowInv'
  BY <1>2 DEF PairingInv, WindowInv, Ensure
<1>4. ensureAt' \in 0..MaxNow /\ (enabled' => ensureAt' <= expiry /\ now <= expiry)
  BY PairingAssumption
  DEF PairingAssumption, PairingInv, PairingSound, PairingTypeOK, WindowInv, Ensure,
      EnsureBefore, Earlier
<1>5. PairingTypeOK'
  BY <1>2, <1>4 DEF PairingInv, PairingSound, PairingTypeOK, Ensure
<1>6. (OnePairingPerWindow /\ SinglePairsOnce /\ PairedIsKept /\ WindowCloses)'
  BY <1>4 DEF PairingInv, PairingSound, OnePairingPerWindow, SinglePairsOnce, PairedIsKept,
              WindowCloses, Ensure
<1> QED BY <1>1, <1>3, <1>5, <1>6 DEF PairingInv, PairingSound

LEMMA EnablePairingKeeps ==
  ASSUME PairingInv, EnablePairing
  PROVE  PairingInv'
<1>1. RequestShape' /\ IdentitiesAgree'
  BY RequestsWait DEF EnablePairing
<1>2. PICK timeout \in Timeouts :
        /\ now + timeout <= MaxNow
        /\ expiry' = now + timeout /\ ensureAt' = EnsureBefore(ensureAt, timeout)
  BY DEF EnablePairing
<1>3. timeout \in Nat
  BY PairingAssumption DEF PairingAssumption
<1>4. /\ expiry' \in Nat /\ ensureAt' \in 0..MaxNow
      /\ ensureAt' <= expiry' /\ now <= expiry'
  BY <1>2, <1>3, PairingAssumption
  DEF PairingAssumption, PairingInv, PairingSound, PairingTypeOK, EnsureBefore, Earlier
<1>5. WindowInv'
  BY <1>4 DEF PairingInv, WindowInv, EnablePairing
<1>6. PairingTypeOK'
  BY <1>4 DEF PairingInv, PairingSound, PairingTypeOK, EnablePairing
<1>7. (OnePairingPerWindow /\ SinglePairsOnce /\ PairedIsKept /\ WindowCloses)'
  BY <1>4 DEF PairingInv, PairingSound, OnePairingPerWindow, SinglePairsOnce, PairedIsKept,
              WindowCloses, EnablePairing
<1> QED BY <1>1, <1>5, <1>6, <1>7 DEF PairingInv, PairingSound

LEMMA PairTickKeeps ==
  ASSUME PairingInv, PairTick
  PROVE  PairingInv'
<1>1. RequestShape' /\ IdentitiesAgree'
  BY RequestsWait DEF PairTick
<1>2. now' \in 0..MaxNow /\ (enabled => ensureAt <= expiry /\ now' <= expiry)
  BY PairingAssumption
  DEF PairingAssumption, PairingInv, PairingSound, PairingTypeOK, WindowInv, WindowCloses,
      PairTick
<1>3. WindowInv'
  BY DEF PairingInv, WindowInv, PairTick, windowVars
<1>4. PairingTypeOK'
  BY <1>2 DEF PairingInv, PairingSound, PairingTypeOK, PairTick, windowVars
<1>5. (OnePairingPerWindow /\ SinglePairsOnce /\ PairedIsKept /\ WindowCloses)'
  BY <1>2 DEF PairingInv, PairingSound, OnePairingPerWindow, SinglePairsOnce, PairedIsKept,
              WindowCloses, PairTick, windowVars
<1> QED BY <1>1, <1>3, <1>4, <1>5 DEF PairingInv, PairingSound

LEMMA PairRestartKeeps ==
  ASSUME PairingInv, PairRestart
  PROVE  PairingInv'
<1>1. RequestShape'
  BY DEF PairRestart, RequestShape, Unserved
<1>2. IdentitiesAgree'
  BY DEF PairingInv, PairingSound, PairRestart, LoadIdentities, IdentitiesAgree,
         VerifyUniqueUserIDs
<1>3. WindowInv'
  BY DEF PairingInv, WindowInv, PairRestart
<1>4. savedPaired = paired
  BY DEF PairingInv, PairingSound, PairedIsKept
<1>5. PairingTypeOK'
  <2>1. \A c \in Clients : mu' = c <=> req'[c].pc = "locks"
    BY PairingAssumption DEF PairingAssumption, PairRestart, Unserved
  <2>2. /\ now' \in 0..MaxNow /\ ensureAt' \in 0..MaxNow
        /\ mu' = "free" /\ mode' \in Modes /\ enabled' \in BOOLEAN
    BY DEF PairingInv, PairingSound, PairingTypeOK, PairRestart, Modes
  <2>3. paired' \in BOOLEAN
    BY <1>4, Zenon DEF PairingInv, PairingSound, PairingTypeOK, PairRestart
  <2> QED BY <2>1, <2>2, <2>3 DEF PairingTypeOK
<1>6. PairedIsKept'
  BY <1>4 DEF PairingInv, PairingSound, PairedIsKept, PairRestart
<1>7. (OnePairingPerWindow /\ SinglePairsOnce /\ WindowCloses)'
  BY DEF PairingInv, PairingSound, OnePairingPerWindow, SinglePairsOnce, WindowCloses,
         PairRestart
<1> QED BY <1>1, <1>2, <1>3, <1>5, <1>6, <1>7 DEF PairingInv, PairingSound

(***************************************************************************)
(* The steps of a request that pairs.                                      *)
(***************************************************************************)
LEMMA PairBeginKeeps ==
  ASSUME PairingInv, NEW c \in Clients, PairBegin(c)
  PROVE  PairingInv'
<1>1. RequestShape /\ req[c].pc = "handles" /\ mu = "free" /\ c # "free"
  BY PairingAssumption DEF PairingAssumption, PairingInv, PairBegin, Handles
<1>2. IdentitiesAgree'
  BY DEF PairingInv, PairingSound, PairBegin, IdentitiesAgree, VerifyUniqueUserIDs
<1>3. /\ RequestShape'
      /\ \A d \in Clients \ {c} : req'[d] = req[d]
      /\ enabled' \in BOOLEAN /\ (enabled' => enabled)
      /\ \/ mu' = mu /\ req'[c].pc = "idle"
         \/ mu' = c /\ enabled' /\ req'[c].pc = "locks"
  <2>1. enabled \in BOOLEAN
    BY DEF PairingInv, PairingSound, PairingTypeOK
  <2>2. CASE Finish(c) /\ UNCHANGED <<mu, enabled>>
    BY <1>1, <2>1, <2>2, FinishShape
  <2>3. CASE enabled /\ mu' = c /\ Move(c, "locks", req[c].user) /\ UNCHANGED enabled
    BY <1>1, <2>1, <2>3, MoveShape
  <2>4. CASE Finish(c) /\ enabled' = FALSE /\ UNCHANGED mu
    <3>1. enabled' \in BOOLEAN /\ ~enabled'
      BY <2>4
    <3> QED BY <1>1, <2>4, <3>1, FinishShape
  <2> QED BY <2>2, <2>3, <2>4 DEF PairBegin
<1>4. mu' # "free" => enabled'
  BY <1>1, <1>3
<1>5. WindowInv'
  BY <1>3, <1>4 DEF PairingInv, WindowInv, PairBegin
<1>6. \A d \in Clients : mu' = d <=> req'[d].pc = "locks"
  <2>1. \A d \in Clients : d # mu /\ req[d].pc # "locks"
    BY <1>1, PairingAssumption
    DEF PairingAssumption, PairingInv, PairingSound, PairingTypeOK
  <2>2. CASE mu' = mu /\ req'[c].pc = "idle"
    BY <1>3, <2>1, <2>2
  <2>3. CASE mu' = c /\ req'[c].pc = "locks"
    BY <1>3, <2>1, <2>3
  <2> QED BY <1>3, <2>2, <2>3
<1>7. PairingTypeOK'
  BY <1>1, <1>3, <1>6 DEF PairingInv, PairingSound, PairingTypeOK, PairBegin
<1>8. (OnePairingPerWindow /\ SinglePairsOnce /\ PairedIsKept /\ WindowCloses)'
  BY <1>3 DEF PairingInv, PairingSound, OnePairingPerWindow, SinglePairsOnce, PairedIsKept,
              WindowCloses, PairBegin
<1> QED BY <1>2, <1>3, <1>5, <1>7, <1>8 DEF PairingInv, PairingSound

LEMMA PairMTLSKeeps ==
  ASSUME PairingInv, NEW c \in Clients, PairMTLS(c)
  PROVE  PairingInv'
<1>1. /\ RequestShape'
      /\ req'[c].pc = "idle"
      /\ \A d \in Clients \ {c} : req'[d] = req[d]
  BY FinishShape DEF PairingInv, PairMTLS
<1>2. IdentitiesAgree'
  <2>1. CASE UNCHANGED <<identities, saved>>
    BY <2>1 DEF PairingInv, PairingSound, IdentitiesAgree, VerifyUniqueUserIDs
  <2>2. ASSUME NEW m, AddIdentities(m)
        PROVE  IdentitiesAgree'
    BY <2>2, AddAgrees
  <2> QED BY <2>1, <2>2 DEF PairMTLS
<1>3. /\ mu = c /\ mu' = "free" /\ ~enabled' /\ enabled' \in BOOLEAN
      /\ UNCHANGED <<now, mode, expiry, ensureAt>>
  BY DEF PairMTLS
<1>4. c # "free" /\ enabled /\ opened = 0
  BY <1>3, PairingAssumption DEF PairingAssumption, PairingInv, WindowInv
<1>5. PICK done \in BOOLEAN :
        /\ paired' = (paired \/ done) /\ savedPaired' = (savedPaired \/ done)
        /\ opened' = IF done THEN opened + 1 ELSE opened
        /\ total' = IF done THEN Earlier(total + 1, 2) ELSE total
        /\ late' = (late \/ (done /\ mode = "single" /\ total > 0))
  BY Zenon DEF PairMTLS
<1>6. total \in 0..2 /\ total' \in 0..2 /\ opened' \in Nat /\ opened' <= 1
  BY <1>4, <1>5 DEF PairingInv, WindowInv, Earlier
<1>7. WindowInv'
  BY <1>3, <1>6 DEF PairingInv, WindowInv
<1>8. PairingTypeOK'
  <2>1. \A d \in Clients : mu' = d <=> req'[d].pc = "locks"
    BY <1>1, <1>3, PairingAssumption
    DEF PairingAssumption, PairingInv, PairingSound, PairingTypeOK
  <2>2. paired' \in BOOLEAN
    BY <1>5, Zenon
  <2> QED BY <1>3, <2>1, <2>2 DEF PairingInv, PairingSound, PairingTypeOK
<1>9. PairedIsKept'
  <2>1. total' > 0 <=> paired'
    <3>1. CASE done
      <4>1. total' > 0
        BY <1>5, <1>6, <3>1 DEF Earlier
      <4>2. paired'
        BY <1>5, <3>1, Zenon
      <4> QED BY <4>1, <4>2
    <3>2. CASE ~done
      <4>1. total' = total
        BY <1>5, <3>2
      <4>2. paired' <=> paired
        BY <1>5, <3>2, Zenon
      <4> QED BY <4>1, <4>2 DEF PairingInv, PairingSound, PairedIsKept
    <3> QED BY <3>1, <3>2
  <2>2. savedPaired = paired
    BY DEF PairingInv, PairingSound, PairedIsKept
  <2>3. savedPaired' = paired'
    BY <1>5, <2>2, Zenon
  <2> QED BY <2>1, <2>3 DEF PairedIsKept
<1>10. SinglePairsOnce'
  <2>1. mode = "single" => ~(total > 0)
    BY <1>4 DEF PairingInv, WindowInv, PairingSound, PairedIsKept
  <2> QED BY <1>5, <2>1 DEF PairingInv, PairingSound, SinglePairsOnce
<1>11. OnePairingPerWindow' /\ WindowCloses'
  BY <1>3, <1>6 DEF OnePairingPerWindow, WindowCloses
<1> QED BY <1>1, <1>2, <1>7, <1>8, <1>9, <1>10, <1>11 DEF PairingInv, PairingSound

LEMMA PairingStep == PairingInv /\ [PairingNext]_identityVars => PairingInv'
<1> SUFFICES ASSUME PairingInv, [PairingNext]_identityVars PROVE PairingInv'
  OBVIOUS
<1>1. CASE PlanChanged \/ Ensure \/ EnablePairing \/ PairTick \/ PairRestart
  BY <1>1, PlanChangedKeeps, EnsureKeeps, EnablePairingKeeps, PairTickKeeps, PairRestartKeeps
<1>2. ASSUME NEW c \in Clients, PairBegin(c) \/ PairMTLS(c)
      PROVE  PairingInv'
  BY <1>2, PairBeginKeeps, PairMTLSKeeps
<1>3. ASSUME NEW c \in Clients, UNCHANGED pairVars,
             Arrive(c) \/ GetHandler(c) \/ PostIdentities(c) \/ ServeHTTP(c, enabled)
      PROVE  PairingInv'
  <2>1. RequestShape /\ IdentitiesAgree
    BY DEF PairingInv, PairingSound
  <2>2. CASE Arrive(c)
    <3>1. IdentitiesAgree' /\ req[c].pc # "locks"
      BY <2>1, <2>2 DEF Arrive, IdentitiesAgree, VerifyUniqueUserIDs
    <3> QED BY <1>3, <2>1, <2>2, <3>1, ArriveShape, PairRequestKeeps
  <2>3. CASE GetHandler(c)
    <3>1. IdentitiesAgree' /\ req[c].pc # "locks" /\ Finish(c)
      BY <2>1, <2>3 DEF GetHandler, IdentitiesAgree, VerifyUniqueUserIDs
    <3> QED BY <1>3, <2>1, <3>1, FinishShape, PairRequestKeeps
  <2>4. CASE PostIdentities(c)
    <3>1. IdentitiesAgree' /\ req[c].pc # "locks" /\ Finish(c)
      BY <2>1, <2>4, PostAgrees DEF PostIdentities, Handles
    <3> QED BY <1>3, <2>1, <3>1, FinishShape, PairRequestKeeps
  <2>5. CASE ServeHTTP(c, enabled)
    <3>1. IdentitiesAgree' /\ req[c].pc # "locks"
      BY <2>1, <2>5 DEF ServeHTTP, IdentitiesAgree, VerifyUniqueUserIDs
    <3>2. \/ Finish(c)
          \/ \E user : Move(c, "handles", user)
      BY <2>5 DEF ServeHTTP
    <3> QED BY <1>3, <2>1, <3>1, <3>2, FinishShape, MoveShape, PairRequestKeeps
  <2> QED BY <1>3, <2>2, <2>3, <2>4, <2>5
<1>4. CASE UNCHANGED identityVars
  <2>1. RequestShape' /\ IdentitiesAgree'
    BY <1>4, RequestsWait DEF identityVars
  <2>2. UNCHANGED <<req, pairVars>>
    BY <1>4 DEF identityVars
  <2>3. WindowInv'
    BY <2>2 DEF PairingInv, WindowInv, pairVars, windowVars
  <2>4. PairingTypeOK'
    BY <2>2 DEF PairingInv, PairingSound, PairingTypeOK, pairVars, windowVars
  <2>5. (OnePairingPerWindow /\ SinglePairsOnce /\ PairedIsKept /\ WindowCloses)'
    BY <2>2 DEF PairingInv, PairingSound, OnePairingPerWindow, SinglePairsOnce, PairedIsKept,
                WindowCloses, pairVars, windowVars
  <2> QED BY <2>1, <2>3, <2>4, <2>5 DEF PairingInv, PairingSound
<1> QED BY <1>1, <1>2, <1>3, <1>4 DEF PairingNext

(***************************************************************************)
(* A window lets in one client, in mode "single" only the first ever, what *)
(* was paired is kept, a window closes, and the identities agree with what *)
(* is saved and are unique, whatever requests race and however often the   *)
(* daemon restarts (PairMTLS, EnablePairing, Ensure and the identities).   *)
(***************************************************************************)
THEOREM PairingCorrect == PairingSpec => []PairingSound
<1>1. PairingInv => PairingSound
  BY DEF PairingInv
<1> QED BY PairingInitInv, PairingStep, <1>1, PTL DEF PairingSpec

(***************************************************************************)
(* Notices.                                                                *)
(***************************************************************************)
Files == [listed : [Lists -> Nat], okayed : [Lists -> Nat]]
EntryType == [key : NoticeKeys, id : Nat, lastRepeated : Nat]
Waits == {"registers", "asleep", "woken"}
ProcType ==
  [pc : {"idle", "loaded", "answered"} \cup Waits, cmd : {"none", "okay", "notice"} \cup Lists,
   local : Files, waits : BOOLEAN, answer : Seq(EntryType)]

\* The notices of the state or of its file: each repetition at a time of its own.
Table(ns, moment, last, ongoing) ==
  /\ DOMAIN ns \subseteq NoticeKeys
  /\ \A k \in DOMAIN ns :
       /\ ns[k].id \in 1..last
       /\ ns[k].lastOccurred \in 1..moment /\ ns[k].lastRepeated \in 1..ns[k].lastOccurred
       /\ k.type = "change-update" => k \in ongoing
  /\ \A j, k \in DOMAIN ns : ns[j].lastRepeated = ns[k].lastRepeated => j = k

StateTable == Table(notices, clock, lastNoticeId, changes)

NoticesTyped ==
  /\ NoticesTypeOK
  /\ scene \in NoticeScenes
  /\ StateTable
  /\ disk.last = lastNoticeId /\ Table(disk.notices, clock, lastNoticeId, changes)
  /\ changes \subseteq NoticeKeys
  /\ proc \in [Procs -> ProcType] /\ ctx \in [Procs -> {"live", "done", "called"}]
  /\ cli \in Files /\ shown \in [Lists -> [NoticeKeys -> Nat]]
  /\ dropped \in [NoticeKeys -> Nat]

\* What a restart brings back is there, or was dropped to keep MaxNotices.
DiskInv ==
  \A k \in FlattenNotices(disk.notices, clock) :
    IF k \in DOMAIN notices THEN disk.notices[k] = notices[k]
    ELSE dropped[k] >= disk.notices[k].lastRepeated

WarningInv ==
  \A k \in FlattenNotices(notices, clock) :
    k.type = "warning" => notices[k].lastRepeated <= latestWarning

\* Who goes by an identifier: in the state, in its file, or in an answer on its way.
Named(id, k) ==
  \/ k \in DOMAIN notices /\ notices[k].id = id
  \/ k \in DOMAIN disk.notices /\ disk.notices[k].id = id
  \/ \E p \in Procs : \E i \in DOMAIN proc[p].answer :
       proc[p].answer[i].id = id /\ proc[p].answer[i].key = k

IdsInv ==
  \A id \in Nat, j, k \in NoticeKeys : Named(id, j) /\ Named(id, k) => j = k /\ id <= lastNoticeId

\* A request that is about to sleep, or sleeps, has nothing to tell and was not called.
WaitOf(p) ==
  /\ proc[p].pc \in Waits => MayList /\ proc[p].cmd \in Lists
  /\ proc[p].pc \in {"registers", "asleep"} => Matching(Filter(p)) = {} /\ ctx[p] # "called"
  /\ proc[p].pc \notin Waits => ctx[p] = "live"

WaitInv == \A p \in Procs : WaitOf(p)

\* What the options of a list give and was repeated by a time was shown, or is in the
\* answer that is to be shown.
Seen(l, k) ==
  shown[l][k] >= notices[k].lastRepeated \/ dropped[k] >= notices[k].lastRepeated
Holds(answer, k) ==
  \E i \in DOMAIN answer :
    answer[i].key = k /\ answer[i].lastRepeated >= notices[k].lastRepeated

Covered(l, time) ==
  /\ time <= clock
  /\ \A k \in Matching(Options(l)) : notices[k].lastRepeated <= time => Seen(l, k)
FileCovered(file) ==
  \A l \in Lists : Covered(l, file.listed[l]) /\ Covered(l, file.okayed[l])
AnswerCovered(l, answer) ==
  \A i \in DOMAIN answer :
    /\ answer[i].lastRepeated <= clock
    /\ \A k \in Matching(Options(l)) :
         notices[k].lastRepeated <= answer[i].lastRepeated => Seen(l, k) \/ Holds(answer, k)

CoveredInv ==
  /\ FileCovered(cli)
  /\ \A p \in Procs :
       /\ FileCovered(proc[p].local)
       /\ proc[p].cmd \in Lists => AnswerCovered(proc[p].cmd, proc[p].answer)

NoticesInv ==
  NoticesTyped /\ DiskInv /\ WarningInv /\ IdsInv /\ OwnNotices /\ WaitInv /\ CoveredInv

(***************************************************************************)
(* The newest of some times, and the sorted list.                          *)
(***************************************************************************)
LEMMA NewestIs ==
  ASSUME NEW n \in Nat, NEW S \in SUBSET (0..n), S # {}
  PROVE  Newest(S) \in S /\ \A t \in S : t <= Newest(S)
<1> DEFINE T == { n - t : t \in S }
<1>1. T \subseteq Nat /\ T # {}
  <2>1. \A t \in S : n - t \in Nat
    OBVIOUS
  <2>2. PICK t \in S : TRUE
    OBVIOUS
  <2>3. n - t \in T
    OBVIOUS
  <2> QED BY <2>1, <2>3
<1>2. PICK x \in T : \A y \in T : ~(<<y, x>> \in OpToRel(<, Nat))
  BY <1>1, NatLessThanWellFounded, WFMin, Zenon
<1>3. \A y \in T : x <= y
  <2> SUFFICES ASSUME NEW y \in T, y < x PROVE FALSE
    BY <1>1
  <2> QED BY <1>1, <1>2 DEF OpToRel
<1>4. PICK t \in S : x = n - t
  BY <1>2
<1>5. \A u \in S : u <= t
  <2> SUFFICES ASSUME NEW u \in S PROVE u <= t
    OBVIOUS
  <2>1. x <= n - u
    BY <1>3
  <2> QED BY <2>1, <1>4
<1> QED BY <1>5 DEF Newest

LEMMA NewestOfTwo ==
  ASSUME NEW a \in Nat, NEW b \in Nat
  PROVE  Newest({a, b}) \in {a, b} /\ a <= Newest({a, b}) /\ b <= Newest({a, b})
<1>1. {a, b} \in SUBSET (0..(a + b))
  OBVIOUS
<1> QED BY <1>1, NewestIs

\* Each notice that is found has a place of its own, and each place its notice.
LEMMA Places ==
  ASSUME StateTable, clock \in Nat, NEW found \in SUBSET DOMAIN notices
  PROVE  /\ Cardinality(found) \in Nat /\ (Cardinality(found) = 0 <=> found = {})
         /\ \A k \in found : Place(k, found) \in 1..Cardinality(found)
         /\ \A j, k \in found : Place(j, found) = Place(k, found) => j = k
         /\ \A i \in 1..Cardinality(found) : \E k \in found : Place(k, found) = i
<1> DEFINE time(k) == notices[k].lastRepeated
           UpTo(k) == { j \in found : time(j) <= time(k) }
<1>1. \A k \in found : time(k) \in 1..clock
  BY DEF StateTable, Table
<1>2. \A j, k \in found : time(j) = time(k) => j = k
  BY DEF StateTable, Table
<1>3. IsFiniteSet(found)
  <2>1. [k \in found |-> time(k)] \in Injection(found, 1..clock)
    BY <1>1, <1>2 DEF Injection, IsInjective
  <2>2. IsFiniteSet(1..clock)
    BY FS_Interval
  <2> QED BY <2>1, <2>2, FS_Injection
<1>4. Cardinality(found) \in Nat /\ (Cardinality(found) = 0 <=> found = {})
  BY <1>3, FS_CardinalityType, FS_EmptySet
<1>5. \A k \in found : Place(k, found) = Cardinality(UpTo(k))
  BY DEF Place
<1>6. \A k \in found : IsFiniteSet(UpTo(k)) /\ Cardinality(UpTo(k)) \in 1..Cardinality(found)
  <2> SUFFICES ASSUME NEW k \in found
               PROVE  IsFiniteSet(UpTo(k)) /\ Cardinality(UpTo(k)) \in 1..Cardinality(found)
    OBVIOUS
  <2>1. UpTo(k) \in SUBSET found /\ k \in UpTo(k)
    BY <1>1
  <2>2. IsFiniteSet(UpTo(k)) /\ Cardinality(UpTo(k)) <= Cardinality(found)
    BY <2>1, <1>3, FS_Subset
  <2>3. Cardinality(UpTo(k)) \in Nat /\ Cardinality(UpTo(k)) # 0
    BY <2>1, <2>2, FS_CardinalityType, FS_EmptySet
  <2> QED BY <2>2, <2>3, <1>4
<1>7. \A j, k \in found : time(j) < time(k) => Cardinality(UpTo(j)) # Cardinality(UpTo(k))
  <2> SUFFICES ASSUME NEW j \in found, NEW k \in found, time(j) < time(k),
                      Cardinality(UpTo(j)) = Cardinality(UpTo(k))
               PROVE  FALSE
    OBVIOUS
  <2>1. UpTo(j) \in SUBSET UpTo(k)
    <3> SUFFICES ASSUME NEW i \in UpTo(j) PROVE time(i) <= time(k)
      OBVIOUS
    <3>1. time(i) \in 1..clock /\ time(j) \in 1..clock /\ time(k) \in 1..clock /\ time(i) <= time(j)
      BY <1>1
    <3> QED BY <3>1
  <2>2. UpTo(j) = UpTo(k)
    BY <2>1, <1>6, FS_Subset
  <2>3. k \in UpTo(k) /\ k \notin UpTo(j)
    BY <1>1
  <2> QED BY <2>2, <2>3
<1>8. \A j, k \in found : Place(j, found) = Place(k, found) => j = k
  <2> SUFFICES ASSUME NEW j \in found, NEW k \in found, Place(j, found) = Place(k, found)
               PROVE  j = k
    OBVIOUS
  <2>1. ~(time(j) < time(k)) /\ ~(time(k) < time(j))
    BY <1>5, <1>7
  <2>2. time(j) = time(k)
    BY <2>1, <1>1
  <2> QED BY <2>2, <1>2
<1>9. \A k \in found : Place(k, found) \in 1..Cardinality(found)
  BY <1>5, <1>6
<1>10. \A i \in 1..Cardinality(found) : \E k \in found : Place(k, found) = i
  <2> DEFINE place == [k \in found |-> Place(k, found)]
  <2>1. place \in Injection(found, 1..Cardinality(found))
    BY <1>8, <1>9 DEF Injection, IsInjective
  <2>2. /\ IsFiniteSet(1..Cardinality(found))
        /\ Cardinality(1..Cardinality(found)) = Cardinality(found)
    BY <1>4, FS_Interval
  <2>3. place \in Surjection(found, 1..Cardinality(found))
    BY <2>1, <2>2, FS_Injection
  <2> QED BY <2>3 DEF Surjection
<1> QED BY <1>4, <1>8, <1>9, <1>10

\* The list holds the matching notices, and nothing else.
LEMMA ListIs ==
  ASSUME StateTable, clock \in Nat, lastNoticeId \in Nat, NEW f
  PROVE  /\ ListNotices(f) \in Seq(EntryType)
         /\ \A i \in DOMAIN ListNotices(f) :
              \E k \in Matching(f) : ListNotices(f)[i] = Entry(k)
         /\ \A k \in Matching(f) :
              \E i \in DOMAIN ListNotices(f) : ListNotices(f)[i] = Entry(k)
         /\ ListNotices(f) = <<>> <=> Matching(f) = {}
<1> DEFINE found == Matching(f)
           n == Cardinality(found)
           at(i) == CHOOSE k \in found : Place(k, found) = i
<1>1. found \in SUBSET DOMAIN notices
  BY DEF Matching, FlattenNotices
<1>2. /\ n \in Nat /\ (n = 0 <=> found = {})
      /\ \A k \in found : Place(k, found) \in 1..n
      /\ \A j, k \in found : Place(j, found) = Place(k, found) => j = k
      /\ \A i \in 1..n : \E k \in found : Place(k, found) = i
  BY <1>1, Places
<1>3. \A i \in 1..n : at(i) \in found /\ Place(at(i), found) = i
  BY <1>2
<1>4. \A k \in found : at(Place(k, found)) = k
  BY <1>2, <1>3
<1>5. ListNotices(f) = [i \in 1..n |-> Entry(at(i))]
  BY DEF ListNotices
<1>6. \A k \in found : Entry(k) \in EntryType
  <2> SUFFICES ASSUME NEW k \in found PROVE Entry(k) \in EntryType
    OBVIOUS
  <2>1. k \in NoticeKeys /\ notices[k].id \in Nat /\ notices[k].lastRepeated \in Nat
    BY <1>1 DEF StateTable, Table
  <2> QED BY <2>1 DEF Entry, EntryType
<1> HIDE DEF found, n, at
<1>7. ListNotices(f) \in Seq(EntryType)
  BY <1>2, <1>3, <1>5, <1>6
<1>8. DOMAIN ListNotices(f) = 1..n
  BY <1>5
<1>9. ListNotices(f) = <<>> <=> n = 0
  BY <1>2, <1>5, <1>7, <1>8
<1> QED BY <1>2, <1>3, <1>4, <1>5, <1>7, <1>8, <1>9 DEF found

(***************************************************************************)
(* The notices of the state and of its file.                               *)
(***************************************************************************)
LEMMA FewerNotices ==
  ASSUME NEW ns, NEW moment \in Nat, NEW last \in Nat, NEW ongoing,
         Table(ns, moment, last, ongoing),
         NEW later \in Nat, moment <= later, NEW S \in SUBSET DOMAIN ns, NEW left,
         \A k \in S : k.type = "change-update" /\ k \in ongoing => k \in left,
         NEW some, some = [k \in S |-> ns[k]]
  PROVE  Table(some, later, last, left)
BY DEF Table

LEMMA OneMoreNotice ==
  ASSUME NEW ns, NEW moment \in Nat, NEW last \in Nat, NEW ongoing,
         Table(ns, moment, last, ongoing),
         NEW k \in NoticeKeys, NEW new, NEW n, k.type = "change-update" => k \in ongoing,
         n.id \in 1..new, new \in {last, last + 1},
         n.lastOccurred = moment + 1,
         n.lastRepeated = moment + 1 \/ (k \in DOMAIN ns /\ n.lastRepeated = ns[k].lastRepeated),
         NEW more, more = [j \in DOMAIN ns \cup {k} |-> IF j = k THEN n ELSE ns[j]]
  PROVE  Table(more, moment + 1, new, ongoing)
<1>1. DOMAIN more = DOMAIN ns \cup {k} /\ more[k] = n
      /\ \A j \in DOMAIN ns : j # k => more[j] = ns[j]
  OBVIOUS
<1>2. \A j \in DOMAIN ns : ns[j].lastRepeated \in 1..moment /\ ns[j].id \in 1..new
                           /\ ns[j].lastOccurred \in 1..(moment + 1)
  BY DEF Table
<1>3. n.lastRepeated \in 1..(moment + 1)
  BY <1>2
<1>4. \A j \in DOMAIN more : /\ more[j].id \in 1..new
                             /\ more[j].lastOccurred \in 1..(moment + 1)
                             /\ more[j].lastRepeated \in 1..more[j].lastOccurred
  BY <1>1, <1>2, <1>3 DEF Table
<1>5. \A i, j \in DOMAIN more : more[i].lastRepeated = more[j].lastRepeated => i = j
  <2>1. \A j \in DOMAIN ns : j # k => more[j].lastRepeated # n.lastRepeated
    BY <1>1, <1>2 DEF Table
  <2> QED BY <1>1, <2>1 DEF Table
<1> QED BY <1>1, <1>4, <1>5 DEF Table

LEMMA TableTypes ==
  ASSUME NoticesTyped
  PROVE  /\ clock \in Nat /\ lastNoticeId \in Nat /\ latestWarning \in 0..clock
         /\ MaxClock \in Nat
BY NoticesAssumption DEF NoticesTyped, NoticesTypeOK, NoticesAssumption

\* What an occurrence changes.
Occurs(k) == k.type = "change-update" => k \in changes

LEMMA AddNoticeIs ==
  ASSUME NoticesTyped, NEW k \in NoticeKeys, NEW r \in 0..ExpireAfter, AddNotice(k, r), Occurs(k)
  PROVE  /\ lock = "free" /\ clock' = clock + 1 /\ clock' \in Nat /\ clock' <= MaxClock
         /\ DOMAIN notices' = DOMAIN notices \cup {k}
         /\ \A j \in DOMAIN notices : j # k => notices'[j] = notices[j]
         /\ notices'[k].lastOccurred = clock + 1
         /\ \/ /\ k \in DOMAIN notices /\ notices'[k].id = notices[k].id
               /\ lastNoticeId' = lastNoticeId
            \/ /\ k \notin DOMAIN notices /\ notices'[k].id = lastNoticeId + 1
               /\ lastNoticeId' = lastNoticeId + 1
         /\ \/ notices'[k].lastRepeated = clock + 1 /\ Broadcast
            \/ /\ k \in FlattenNotices(notices, clock) /\ UNCHANGED proc
               /\ notices'[k].lastRepeated = notices[k].lastRepeated
         /\ disk' = Checkpoint(notices', lastNoticeId', clock')
         /\ StateTable' /\ lastNoticeId' \in 0..clock'
<1> DEFINE moment == clock + 1
           known == k \in DOMAIN notices
           repeats == known => (r = 0 \/ moment > notices[k].lastRepeated + r)
           n == [id |-> IF known THEN notices[k].id ELSE lastNoticeId + 1,
                 lastOccurred |-> moment,
                 lastRepeated |-> IF repeats THEN moment ELSE notices[k].lastRepeated]
<1>1. /\ lock = "free" /\ clock' = moment /\ clock' <= MaxClock
      /\ notices' = [j \in DOMAIN notices \cup {k} |-> IF j = k THEN n ELSE notices[j]]
      /\ lastNoticeId' = IF known THEN lastNoticeId ELSE lastNoticeId + 1
      /\ disk' = Checkpoint(notices', lastNoticeId', clock')
      /\ IF repeats THEN Broadcast ELSE UNCHANGED proc
      /\ UNCHANGED changes
  BY Zenon DEF AddNotice
<1>2. clock \in Nat /\ lastNoticeId \in 0..clock /\ StateTable
  BY TableTypes DEF NoticesTyped, NoticesTypeOK
<1>3. ~repeats => k \in FlattenNotices(notices, clock)
  BY <1>2, NoticesAssumption
  DEF FlattenNotices, Expired, StateTable, Table, NoticesAssumption
<1>4. n.id \in 1..lastNoticeId' /\ lastNoticeId' \in {lastNoticeId, lastNoticeId + 1}
  BY <1>1, <1>2 DEF StateTable, Table
<1>5. n.lastOccurred = clock + 1
      /\ (n.lastRepeated = clock + 1
          \/ (k \in DOMAIN notices /\ n.lastRepeated = notices[k].lastRepeated))
  OBVIOUS
<1> HIDE DEF n
<1>6. StateTable'
  <2>1. notices' = [j \in DOMAIN notices \cup {k} |-> IF j = k THEN n ELSE notices[j]]
    BY <1>1
  <2>2. Table(notices', clock + 1, lastNoticeId', changes)
    BY <2>1, <1>2, <1>4, <1>5, OneMoreNotice DEF StateTable, Occurs
  <2> QED BY <1>1, <2>2 DEF StateTable
<1>7. notices'[k] = n /\ DOMAIN notices' = DOMAIN notices \cup {k}
      /\ \A j \in DOMAIN notices : j # k => notices'[j] = notices[j]
  BY <1>1
<1> QED BY <1>1, <1>2, <1>3, <1>6, <1>7 DEF n

LEMMA LatestIs ==
  ASSUME NEW ns, NEW moment \in Nat, NEW last, NEW ongoing, Table(ns, moment, last, ongoing)
  PROVE  /\ LatestIn(ns) \in 0..moment
         /\ \A k \in DOMAIN ns : k.type = "warning" => ns[k].lastRepeated <= LatestIn(ns)
<1> DEFINE times == { ns[k].lastRepeated : k \in { k \in DOMAIN ns : k.type = "warning" } }
<1>1. times \in SUBSET (0..moment)
  BY DEF Table
<1>2. times # {} => Newest(times) \in times /\ \A t \in times : t <= Newest(times)
  BY <1>1, NewestIs
<1>3. times = {} => Newest(times) = 0
  BY DEF Newest
<1>4. \A k \in DOMAIN ns : k.type = "warning" => ns[k].lastRepeated \in times
  OBVIOUS
<1>5. LatestIn(ns) = Newest(times)
  BY DEF LatestIn
<1> HIDE DEF times
<1>6. Newest(times) \in 0..moment
  <2>1. CASE times = {}
    BY <2>1, <1>3
  <2>2. CASE times # {}
    BY <2>2, <1>1, <1>2
  <2> QED BY <2>1, <2>2
<1> QED BY <1>2, <1>4, <1>5, <1>6

\* A checkpoint writes what has not expired.
LEMMA CheckpointIs ==
  ASSUME StateTable', clock' \in Nat, lastNoticeId' \in Nat,
         disk' = Checkpoint(notices', lastNoticeId', clock')
  PROVE  /\ disk'.last = lastNoticeId'
         /\ Table(disk'.notices, clock', lastNoticeId', changes')
         /\ DiskInv'
         /\ \A k \in DOMAIN disk'.notices : k \in DOMAIN notices' /\ disk'.notices[k] = notices'[k]
<1> DEFINE S == FlattenNotices(notices', clock')
<1>1. S \in SUBSET DOMAIN notices'
  BY DEF FlattenNotices
<1>2. disk'.last = lastNoticeId' /\ disk'.notices = [k \in S |-> notices'[k]]
  BY DEF Checkpoint
<1>3. Table(disk'.notices, clock', lastNoticeId', changes')
  BY <1>1, <1>2, FewerNotices DEF StateTable
<1>4. \A k \in DOMAIN disk'.notices : k \in DOMAIN notices' /\ disk'.notices[k] = notices'[k]
  BY <1>1, <1>2
<1>5. DiskInv'
  BY <1>4 DEF DiskInv, FlattenNotices
<1> QED BY <1>2, <1>3, <1>4, <1>5

\* How the notices that have not expired move: they stay, or are repeated, or are brought
\* back by a restart after they were dropped.
Stays(k) ==
  /\ k \in FlattenNotices(notices, clock) /\ dropped'[k] = dropped[k]
  /\ notices'[k].lastRepeated = notices[k].lastRepeated
Repeated(k) == notices'[k].lastRepeated > clock
BroughtBack(k) == dropped'[k] >= notices'[k].lastRepeated

LEMMA LaterExpired ==
  ASSUME NEW n, NEW moment \in Nat, NEW later \in Nat, moment <= later, n.lastOccurred \in Nat,
         ~Expired(n, later)
  PROVE  ~Expired(n, moment)
BY NoticesAssumption DEF Expired, NoticesAssumption

LEMMA TickKeeps ==
  ASSUME NoticesTyped, DiskInv, WarningInv, Tick
  PROVE  /\ NoticesTyped' /\ DiskInv' /\ WarningInv' /\ clock <= clock'
         /\ \A k \in FlattenNotices(notices', clock') : Stays(k)
<1>1. clock \in Nat /\ clock' = clock + 1 /\ clock' <= MaxClock
      /\ UNCHANGED <<scene, lock, procVars, notices, lastNoticeId, latestWarning, changes, disk,
                     dropped>>
  BY TableTypes DEF Tick
<1>2. lastNoticeId \in 0..clock /\ StateTable /\ disk.last = lastNoticeId
      /\ Table(disk.notices, clock, lastNoticeId, changes)
  BY DEF NoticesTyped, NoticesTypeOK
<1>3. \A k \in FlattenNotices(notices', clock') : k \in FlattenNotices(notices, clock)
  BY <1>1, <1>2, LaterExpired DEF FlattenNotices, StateTable, Table
<1>4. \A k \in FlattenNotices(disk'.notices, clock') : k \in FlattenNotices(disk.notices, clock)
  BY <1>1, <1>2, LaterExpired DEF FlattenNotices, Table
<1>5. StateTable' /\ Table(disk'.notices, clock', lastNoticeId', changes')
  BY <1>1, <1>2 DEF StateTable, Table
<1>6. NoticesTypeOK'
  BY <1>1, <1>2 DEF NoticesTyped, NoticesTypeOK, StateTable, Table, procVars
<1>7. NoticesTyped'
  BY <1>1, <1>2, <1>5, <1>6 DEF NoticesTyped, procVars
<1>8. DiskInv' /\ WarningInv'
  BY <1>1, <1>3, <1>4 DEF DiskInv, WarningInv
<1> QED BY <1>1, <1>3, <1>7, <1>8 DEF Stays

LEMMA BroadcastIs ==
  ASSUME proc \in [Procs -> ProcType], Broadcast \/ UNCHANGED proc
  PROVE  /\ proc' \in [Procs -> ProcType]
         /\ \A p \in Procs :
              /\ proc'[p].answer = proc[p].answer /\ proc'[p].cmd = proc[p].cmd
              /\ proc'[p].local = proc[p].local
              /\ proc'[p].pc = proc[p].pc \/ (proc[p].pc = "asleep" /\ proc'[p].pc = "woken")
              /\ proc'[p].pc = "registers" <=> proc[p].pc = "registers"
<1>1. CASE UNCHANGED proc
  BY <1>1
<1>2. CASE Broadcast
  <2>1. \A p \in Procs : proc'[p] = IF proc[p].pc = "asleep" THEN [proc[p] EXCEPT !.pc = "woken"]
                                    ELSE proc[p]
    BY <1>2 DEF Broadcast
  <2>2. \A p \in Procs : proc[p] \in ProcType
    OBVIOUS
  <2>3. \A p \in Procs : [proc[p] EXCEPT !.pc = "woken"] \in ProcType
    BY <2>2 DEF ProcType, Waits
  <2>4. proc' \in [Procs -> ProcType]
    BY <1>2, <2>1, <2>2, <2>3 DEF Broadcast
  <2> QED BY <2>1, <2>2, <2>4 DEF ProcType
<1> QED BY <1>1, <1>2

LEMMA OccurrenceIs ==
  ASSUME NoticesTyped, NEW k \in scene.keys, Notify(k) \/ Warnf(k) \/ NotifyStatusChange(k)
  PROVE  k \in NoticeKeys /\ Occurs(k) /\ \E r \in 0..ExpireAfter : AddNotice(k, r)
BY NoticesAssumption
DEF NoticesTyped, NoticesAssumption, Notify, PostNotice, Warnf, NotifyStatusChange, Occurs

LEMMA AddNoticeKeeps ==
  ASSUME NoticesTyped, DiskInv, WarningInv, NEW k \in NoticeKeys, Occurs(k),
         NEW r \in 0..ExpireAfter, AddNotice(k, r)
  PROVE  /\ NoticesTyped' /\ DiskInv' /\ WarningInv' /\ clock <= clock'
         /\ \A j \in FlattenNotices(notices', clock') : Stays(j) \/ Repeated(j)
         /\ \/ Broadcast
            \/ UNCHANGED proc /\ \A j \in FlattenNotices(notices', clock') : Stays(j)
<1>1. clock \in Nat /\ latestWarning \in 0..clock /\ lastNoticeId \in 0..clock /\ StateTable
  BY TableTypes DEF NoticesTyped, NoticesTypeOK
<1>2. UNCHANGED <<scene, changes, lock, cli, ctx, shown, dropped>> /\ lock = "free"
  BY DEF AddNotice
<1>3. /\ clock' = clock + 1 /\ clock' \in Nat /\ clock' <= MaxClock
      /\ DOMAIN notices' = DOMAIN notices \cup {k}
      /\ \A j \in DOMAIN notices : j # k => notices'[j] = notices[j]
      /\ \/ notices'[k].lastRepeated = clock + 1 /\ Broadcast
         \/ /\ k \in FlattenNotices(notices, clock) /\ UNCHANGED proc
            /\ notices'[k].lastRepeated = notices[k].lastRepeated
      /\ disk' = Checkpoint(notices', lastNoticeId', clock')
      /\ StateTable' /\ lastNoticeId' \in 0..clock'
  BY AddNoticeIs
<1>4. /\ DiskInv' /\ disk'.last = lastNoticeId'
      /\ Table(disk'.notices, clock', lastNoticeId', changes')
  BY <1>3, CheckpointIs
<1>5. \A j \in DOMAIN notices :
        j # k /\ j \in FlattenNotices(notices', clock') => j \in FlattenNotices(notices, clock)
  BY <1>1, <1>3, LaterExpired DEF FlattenNotices, StateTable, Table
<1>6. latestWarning' = (IF k.type = "warning" THEN Newest({latestWarning, notices'[k].lastRepeated})
                        ELSE latestWarning)
  BY DEF AddNotice
<1>7. notices'[k].lastRepeated \in 1..clock' /\ notices'[k].lastRepeated \in Nat
  BY <1>3 DEF StateTable, Table
<1>8. /\ latestWarning' \in 0..clock' /\ latestWarning <= latestWarning'
      /\ k.type = "warning" => notices'[k].lastRepeated <= latestWarning'
  BY <1>1, <1>3, <1>6, <1>7, NewestOfTwo
<1>9. WarningInv'
  <2> SUFFICES ASSUME NEW j \in FlattenNotices(notices', clock'), j.type = "warning"
               PROVE  notices'[j].lastRepeated <= latestWarning'
    BY DEF WarningInv
  <2>1. CASE j = k
    BY <2>1, <1>8
  <2>2. CASE j # k
    <3>1. j \in FlattenNotices(notices, clock) /\ notices'[j] = notices[j]
      BY <2>2, <1>3, <1>5 DEF FlattenNotices
    <3>2. notices[j].lastRepeated <= latestWarning /\ notices[j].lastRepeated \in Nat
      BY <3>1, <1>1 DEF WarningInv, StateTable, Table, FlattenNotices
    <3> QED BY <3>1, <3>2, <1>1, <1>8
  <2> QED BY <2>1, <2>2
<1>10. /\ proc' \in [Procs -> ProcType]
       /\ \A p \in Procs : proc'[p].pc = "registers" <=> proc[p].pc = "registers"
  BY <1>3, BroadcastIs DEF NoticesTyped
<1>11. NoticesTypeOK'
  BY <1>2, <1>3, <1>8, <1>10 DEF NoticesTyped, NoticesTypeOK, StateTable, Table
<1>12. NoticesTyped'
  BY <1>2, <1>3, <1>4, <1>10, <1>11 DEF NoticesTyped
<1>13. \A j \in FlattenNotices(notices', clock') : j # k => Stays(j)
  BY <1>2, <1>3, <1>5 DEF Stays, FlattenNotices
<1>14. Stays(k) \/ Repeated(k)
  BY <1>1, <1>2, <1>3 DEF Stays, Repeated
<1>15. notices'[k].lastRepeated = notices[k].lastRepeated /\ k \in FlattenNotices(notices, clock)
       => Stays(k)
  BY <1>2 DEF Stays
<1> QED BY <1>1, <1>3, <1>4, <1>9, <1>12, <1>13, <1>14, <1>15

LEMMA PruneKeeps ==
  ASSUME NoticesTyped, DiskInv, Prune
  PROVE  /\ NoticesTyped' /\ DiskInv' /\ WarningInv'
         /\ UNCHANGED <<scene, clock, lock, procVars, lastNoticeId>>
         /\ \A k \in FlattenNotices(notices', clock') : Stays(k)
         /\ \A k \in DOMAIN notices' : k \in DOMAIN notices /\ notices'[k] = notices[k]
         /\ \A k \in DOMAIN disk'.notices :
              \/ k \in DOMAIN disk.notices /\ disk'.notices[k] = disk.notices[k]
              \/ k \in DOMAIN notices /\ disk'.notices[k] = notices[k]
<1> DEFINE alive == FlattenNotices(notices, clock)
<1>1. PICK gone \in SUBSET changes :
        LET kept == { k \in alive : k.type = "change-update" => k \in changes \ gone }
            some == [k \in kept |-> notices[k]]
            most == [k \in kept \ TooMany(some) |-> notices[k]]
        IN /\ lock = "free"
           /\ changes' = changes \ gone
           /\ notices' = most
           /\ latestWarning' = LatestIn(some)
           /\ disk' = IF gone # {} THEN Checkpoint(most, lastNoticeId, clock) ELSE disk
           /\ dropped' = [k \in NoticeKeys |->
                            IF k \in TooMany(some) THEN notices[k].lastRepeated ELSE dropped[k]]
           /\ UNCHANGED <<scene, clock, lastNoticeId, lock, procVars>>
  BY Zenon DEF Prune
<1> DEFINE kept == { k \in alive : k.type = "change-update" => k \in changes \ gone }
           some == [k \in kept |-> notices[k]]
           over == TooMany(some)
<1>2. /\ changes' = changes \ gone /\ notices' = [k \in kept \ over |-> notices[k]]
      /\ latestWarning' = LatestIn(some)
      /\ disk' = IF gone # {} THEN Checkpoint(notices', lastNoticeId, clock) ELSE disk
      /\ dropped' = [k \in NoticeKeys |-> IF k \in over THEN notices[k].lastRepeated
                                          ELSE dropped[k]]
      /\ UNCHANGED <<scene, clock, lastNoticeId, lock, procVars>>
  BY <1>1
<1>3. /\ clock \in Nat /\ lastNoticeId \in Nat /\ lastNoticeId \in 0..clock /\ StateTable
      /\ disk.last = lastNoticeId /\ Table(disk.notices, clock, lastNoticeId, changes)
      /\ dropped \in [NoticeKeys -> Nat] /\ changes \subseteq NoticeKeys
  BY TableTypes DEF NoticesTyped, NoticesTypeOK
<1>4. kept \subseteq alive /\ alive \subseteq DOMAIN notices /\ DOMAIN notices \subseteq NoticeKeys
      /\ over \subseteq kept
  BY <1>3 DEF FlattenNotices, StateTable, Table, TooMany
<1>5. \A k \in alive : k \in kept \/ k \in gone
  BY <1>3, <1>4 DEF StateTable, Table
<1>6. \A k \in kept : k.type = "change-update" => k \in changes'
  BY <1>2
<1>7. some = [k \in kept |-> notices[k]]
  OBVIOUS
<1> HIDE DEF alive, kept, over, some
<1>8. kept \in SUBSET DOMAIN notices /\ kept \ over \in SUBSET DOMAIN notices
  BY <1>4
<1>9. Table(notices, clock, lastNoticeId, changes)
  BY <1>3 DEF StateTable
<1>10. StateTable'
  <2>1. Table(notices', clock, lastNoticeId, changes')
    <3>1. notices' = [k \in kept \ over |-> notices[k]]
      BY <1>2
    <3>2. \A k \in kept \ over : k.type = "change-update" /\ k \in changes => k \in changes'
      BY <1>6
    <3>3. clock \in Nat /\ lastNoticeId \in Nat /\ clock <= clock
      BY <1>3
    <3> QED BY <3>1, <3>2, <3>3, <1>8, <1>9, FewerNotices
  <2> QED BY <2>1, <1>2 DEF StateTable
<1>11. LatestIn(some) \in 0..clock
      /\ \A k \in kept : k.type = "warning" => notices[k].lastRepeated <= LatestIn(some)
  <2>1. Table(some, clock, lastNoticeId, changes')
    BY <1>3, <1>6, <1>7, <1>8, <1>9, FewerNotices
  <2> QED BY <2>1, <1>3, <1>7, LatestIs
<1>12. DOMAIN notices' = kept \ over /\ \A k \in kept \ over : notices'[k] = notices[k]
  BY <1>2
<1>13. dropped' \in [NoticeKeys -> Nat]
  <2>1. \A k \in over : notices[k].lastRepeated \in Nat
    BY <1>3, <1>4 DEF StateTable, Table
  <2> QED BY <2>1, <1>2, <1>3
<1>14. WarningInv'
  BY <1>2, <1>11, <1>12 DEF WarningInv, FlattenNotices
<1>15. /\ disk'.last = lastNoticeId' /\ Table(disk'.notices, clock', lastNoticeId', changes')
       /\ DiskInv'
       /\ \A k \in DOMAIN disk'.notices :
            \/ k \in DOMAIN disk.notices /\ disk'.notices[k] = disk.notices[k]
            \/ k \in DOMAIN notices /\ disk'.notices[k] = notices[k]
  <2>1. CASE gone # {}
    <3>1. /\ disk'.last = lastNoticeId' /\ Table(disk'.notices, clock', lastNoticeId', changes')
          /\ DiskInv'
          /\ \A k \in DOMAIN disk'.notices : k \in DOMAIN notices' /\ disk'.notices[k] = notices'[k]
      BY <2>1, <1>2, <1>3, <1>10, CheckpointIs
    <3> QED BY <3>1, <1>4, <1>12
  <2>2. CASE gone = {}
    <3>1. disk' = disk /\ changes' = changes /\ clock' = clock /\ lastNoticeId' = lastNoticeId
      BY <2>2, <1>2
    <3>2. DiskInv'
      <4> SUFFICES ASSUME NEW k \in FlattenNotices(disk.notices, clock)
                   PROVE  IF k \in DOMAIN notices' THEN disk.notices[k] = notices'[k]
                          ELSE dropped'[k] >= disk.notices[k].lastRepeated
        BY <3>1 DEF DiskInv
      <4>1. /\ k \in NoticeKeys /\ disk.notices[k].lastRepeated \in Nat
            /\ ~Expired(disk.notices[k], clock)
        BY <1>3 DEF FlattenNotices, Table
      <4>2. CASE k \notin DOMAIN notices
        BY <4>1, <4>2, <1>2, <1>4, <1>12 DEF DiskInv
      <4>3. CASE k \in DOMAIN notices
        <5>1. disk.notices[k] = notices[k]
          BY <4>3 DEF DiskInv
        <5>2. k \in kept
          BY <4>1, <4>3, <5>1, <1>5, <2>2 DEF FlattenNotices, alive
        <5> QED BY <4>1, <5>1, <5>2, <1>2, <1>12
      <4> QED BY <4>2, <4>3
    <3> QED BY <3>1, <3>2, <1>3
  <2> QED BY <2>1, <2>2
<1>16. NoticesTypeOK'
  BY <1>2, <1>3, <1>4, <1>10, <1>11, <1>12
  DEF NoticesTyped, NoticesTypeOK, StateTable, Table, procVars
<1>17. NoticesTyped'
  BY <1>2, <1>3, <1>10, <1>13, <1>15, <1>16 DEF NoticesTyped, procVars
<1>18. \A k \in FlattenNotices(notices', clock') : Stays(k)
  <2> SUFFICES ASSUME NEW k \in FlattenNotices(notices', clock') PROVE Stays(k)
    OBVIOUS
  <2>1. k \in kept \ over
    BY <1>12 DEF FlattenNotices
  <2> QED BY <2>1, <1>2, <1>4, <1>12 DEF Stays, alive
<1> QED BY <1>2, <1>4, <1>12, <1>14, <1>15, <1>17, <1>18

\* The processes of the command line outlive the daemon; their requests do not.
Cut(p) == proc[p].pc \in Waits

LEMMA RestartKeeps ==
  ASSUME NoticesTyped, DiskInv, Restart
  PROVE  /\ NoticesTyped' /\ DiskInv' /\ WarningInv'
         /\ UNCHANGED <<scene, clock, changes, disk, cli, shown, dropped, lastNoticeId>>
         /\ \A k \in FlattenNotices(notices', clock') : Stays(k) \/ BroughtBack(k)
         /\ \A k \in DOMAIN notices' : k \in DOMAIN disk.notices /\ notices'[k] = disk.notices[k]
         /\ \A p \in Procs :
              /\ Cut(p) => proc'[p] = Idle /\ ctx'[p] = "live"
              /\ ~Cut(p) => proc'[p] = proc[p] /\ ctx'[p] = ctx[p]
<1> DEFINE S == FlattenNotices(disk.notices, clock)
<1>1. /\ notices' = [k \in S |-> disk.notices[k]] /\ lastNoticeId' = disk.last
      /\ latestWarning' = LatestIn(notices')
      /\ lock' = "free"
      /\ UNCHANGED <<scene, clock, changes, disk, cli, shown, dropped>>
  BY DEF Restart, Unflatten
<1>2. /\ clock \in Nat /\ lastNoticeId \in Nat /\ lastNoticeId \in 0..clock
      /\ disk.last = lastNoticeId /\ Table(disk.notices, clock, lastNoticeId, changes)
      /\ proc \in [Procs -> ProcType] /\ ctx \in [Procs -> {"live", "done", "called"}]
  BY TableTypes DEF NoticesTyped, NoticesTypeOK
<1>3. S \in SUBSET DOMAIN disk.notices
  BY DEF FlattenNotices
<1> HIDE DEF S
<1>4. Table(notices', clock, lastNoticeId, changes)
  BY <1>1, <1>2, <1>3, FewerNotices
<1>5. StateTable' /\ lastNoticeId' = lastNoticeId
  BY <1>1, <1>2, <1>4 DEF StateTable
<1>6. latestWarning' \in 0..clock
      /\ \A k \in DOMAIN notices' : k.type = "warning" => notices'[k].lastRepeated <= latestWarning'
  BY <1>1, <1>2, <1>4, LatestIs
<1>7. DOMAIN notices' = S /\ \A k \in S : notices'[k] = disk.notices[k]
  BY <1>1
<1>8. \A p \in Procs : /\ Cut(p) => proc'[p] = Idle /\ ctx'[p] = "live"
                       /\ ~Cut(p) => proc'[p] = proc[p] /\ ctx'[p] = ctx[p]
  BY DEF Restart, Cut, Waits
<1>9. Idle \in ProcType
  BY DEF Idle, NoCli, ProcType, Files
<1>10. /\ proc' \in [Procs -> ProcType] /\ ctx' \in [Procs -> {"live", "done", "called"}]
       /\ \A p \in Procs : proc'[p].pc # "registers"
  <2>1. DOMAIN proc' = Procs /\ proc' = [p \in Procs |-> proc'[p]]
        /\ DOMAIN ctx' = Procs /\ ctx' = [p \in Procs |-> ctx'[p]]
    BY DEF Restart
  <2>2. \A p \in Procs : proc'[p] \in ProcType /\ ctx'[p] \in {"live", "done", "called"}
    BY <1>2, <1>8, <1>9
  <2>3. Idle.pc = "idle"
    BY DEF Idle
  <2> QED BY <2>1, <2>2, <2>3, <1>8 DEF Cut, Waits
<1>11. DiskInv'
  BY <1>1, <1>7 DEF DiskInv, S
<1>12. NoticesTypeOK'
  BY <1>1, <1>2, <1>5, <1>6, <1>10, NoticesAssumption
  DEF NoticesTyped, NoticesTypeOK, StateTable, Table, NoticesAssumption
<1>13. NoticesTyped'
  BY <1>1, <1>2, <1>5, <1>10, <1>12 DEF NoticesTyped
<1>14. \A k \in FlattenNotices(notices', clock') : Stays(k) \/ BroughtBack(k)
  <2> SUFFICES ASSUME NEW k \in FlattenNotices(notices', clock') PROVE Stays(k) \/ BroughtBack(k)
    OBVIOUS
  <2>1. k \in S /\ notices'[k] = disk.notices[k] /\ ~Expired(notices'[k], clock)
    BY <1>1, <1>7 DEF FlattenNotices
  <2>2. CASE k \in DOMAIN notices
    <3>1. notices[k] = notices'[k]
      BY <2>1, <2>2 DEF DiskInv, S
    <3> QED BY <2>1, <2>2, <3>1, <1>1 DEF Stays, FlattenNotices
  <2>3. CASE k \notin DOMAIN notices
    BY <2>1, <2>3, <1>1 DEF DiskInv, S, BroughtBack
  <2> QED BY <2>2, <2>3
<1> QED BY <1>1, <1>3, <1>5, <1>6, <1>7, <1>8, <1>11, <1>13, <1>14 DEF WarningInv, FlattenNotices

(***************************************************************************)
(* The requests and commands.                                              *)
(***************************************************************************)
\* What a step of a request does to the file that a process has loaded and to the answer on
\* its way to it.
Moves(p) ==
  /\ proc'[p].local \in {proc[p].local, cli, NoCli}
  /\ \/ proc'[p].answer = <<>>
     \/ proc'[p].answer = proc[p].answer /\ proc'[p].cmd = proc[p].cmd
     \/ /\ MayList /\ proc[p].cmd \in Lists /\ proc'[p].cmd = proc[p].cmd
        /\ proc'[p].answer = ListNotices(Filter(p))
     \/ \E k \in DOMAIN notices :
          /\ NoticeViewableByUser(k) /\ proc'[p].cmd = "notice"
          /\ proc'[p].answer = <<Entry(k)>>

WaitsAndMoves ==
  /\ NoticesTyped' /\ WaitInv' /\ UNCHANGED <<scene, stateVars>>
  /\ \A p \in Procs : Moves(p)

\* One process takes a step: what is left to show of it.
LEMMA OneProcess ==
  ASSUME NoticesTyped, WaitInv, NEW p \in Procs, UNCHANGED <<scene, stateVars>>,
         NEW r \in ProcType, proc' = [proc EXCEPT ![p] = r],
         ctx' \in [Procs -> {"live", "done", "called"}],
         \A q \in Procs : q # p => ctx'[q] = ctx[q],
         cli' \in Files, shown' \in [Lists -> [NoticeKeys -> Nat]],
         \/ lock' = lock /\ (r.pc = "registers" <=> proc[p].pc = "registers")
         \/ lock = "free" /\ lock' = p /\ r.pc = "registers"
         \/ lock = p /\ lock' = "free" /\ r.pc # "registers",
         WaitOf(p)', Moves(p)
  PROVE  WaitsAndMoves
<1>1. proc \in [Procs -> ProcType] /\ NoticesTypeOK /\ "free" \notin Procs
  BY NoticesAssumption DEF NoticesTyped, NoticesAssumption
<1>2. /\ proc' \in [Procs -> ProcType] /\ proc'[p] = r
      /\ \A q \in Procs : q # p => proc'[q] = proc[q]
  BY <1>1
<1>3. lock' \in Procs \cup {"free"} /\ \A q \in Procs : lock' = q <=> proc'[q].pc = "registers"
  BY <1>1, <1>2 DEF NoticesTypeOK
<1>4. NoticesTypeOK'
  BY <1>1, <1>3 DEF NoticesTypeOK, stateVars
<1>5. NoticesTyped'
  BY <1>2, <1>4 DEF NoticesTyped, StateTable, stateVars
<1>6. \A q \in Procs : q # p => WaitOf(q)'
  <2> SUFFICES ASSUME NEW q \in Procs, q # p PROVE WaitOf(q)'
    OBVIOUS
  <2>1. proc'[q] = proc[q] /\ ctx'[q] = ctx[q] /\ WaitOf(q)
    BY <1>2 DEF WaitInv
  <2>2. MayList' = MayList /\ Matching(Filter(q))' = Matching(Filter(q))
    BY <2>1 DEF MayList, Matching, FlattenNotices, Expired, Matches, Filter, Options, stateVars
  <2> QED BY <2>1, <2>2 DEF WaitOf
<1>7. \A q \in Procs : q # p => Moves(q)
  BY <1>2 DEF Moves
<1> QED BY <1>5, <1>6, <1>7 DEF WaitsAndMoves, WaitInv

LEMMA ProcFields ==
  ASSUME NEW r \in ProcType, NEW pc \in {"idle", "loaded", "answered"} \cup Waits,
         NEW answer \in Seq(EntryType)
  PROVE  /\ [r EXCEPT !.pc = pc] \in ProcType
         /\ [r EXCEPT !.pc = pc, !.answer = answer] \in ProcType
BY DEF ProcType

LEMMA IdleProc == Idle \in ProcType /\ Idle.pc = "idle" /\ Idle.answer = <<>> /\ Idle.local = NoCli
BY DEF Idle, NoCli, ProcType, Files

\* An answer, or none, is on its way.
LEMMA AnswerMoves ==
  ASSUME NoticesTyped, WaitInv, NEW p \in Procs, UNCHANGED <<scene, cli, shown, stateVars>>,
         NEW list \in Seq(EntryType), Answer(p, list),
         UNCHANGED lock, proc[p].pc # "registers",
         ctx' = [ctx EXCEPT ![p] = "live"],
         \/ list = <<>>
         \/ MayList /\ proc[p].cmd \in Lists /\ list = ListNotices(Filter(p))
         \/ proc[p].cmd = "notice"
            /\ \E k \in DOMAIN notices : NoticeViewableByUser(k) /\ list = <<Entry(k)>>
  PROVE  WaitsAndMoves
<1> DEFINE r == [proc[p] EXCEPT !.pc = "answered", !.answer = list]
<1>1. proc[p] \in ProcType /\ proc' = [proc EXCEPT ![p] = r]
  BY DEF Answer, NoticesTyped
<1>2. r \in ProcType /\ r.pc = "answered" /\ r.cmd = proc[p].cmd /\ r.local = proc[p].local
      /\ r.answer = list
  BY <1>1, ProcFields DEF ProcType
<1> HIDE DEF r
<1>3. proc'[p] = r
  BY <1>1 DEF NoticesTyped
<1>4. ctx' \in [Procs -> {"live", "done", "called"}] /\ ctx'[p] = "live"
      /\ \A q \in Procs : q # p => ctx'[q] = ctx[q]
  BY DEF NoticesTyped
<1>5. WaitOf(p)' /\ Moves(p)
  BY <1>2, <1>3, <1>4 DEF WaitOf, Moves, Waits
<1>6. cli' \in Files /\ shown' \in [Lists -> [NoticeKeys -> Nat]]
  BY DEF NoticesTyped
<1> QED BY <1>1, <1>2, <1>4, <1>5, <1>6, OneProcess

\* A process is idle again, or has loaded its file.
LEMMA CommandMoves ==
  ASSUME NoticesTyped, WaitInv, NEW p \in Procs, UNCHANGED <<scene, lock, ctx, stateVars>>,
         NEW r \in ProcType, proc' = [proc EXCEPT ![p] = r], r.pc \in {"idle", "loaded"},
         r.answer = <<>>, r.local \in {cli, NoCli}, proc[p].pc \notin Waits,
         cli' \in Files, shown' \in [Lists -> [NoticeKeys -> Nat]]
  PROVE  WaitsAndMoves
<1>1. proc'[p] = r
  BY DEF NoticesTyped
<1>2. WaitOf(p)' /\ Moves(p)
  BY <1>1 DEF WaitOf, WaitInv, Moves, Waits
<1>3. ctx' \in [Procs -> {"live", "done", "called"}] /\ \A q \in Procs : ctx'[q] = ctx[q]
  BY DEF NoticesTyped
<1>4. r.pc # "registers" /\ proc[p].pc # "registers"
  BY DEF Waits
<1> QED BY <1>2, <1>3, <1>4, OneProcess

LEMMA ListOf ==
  ASSUME NoticesTyped
  PROVE  \A f : ListNotices(f) \in Seq(EntryType) /\ (ListNotices(f) = <<>> <=> Matching(f) = {})
BY TableTypes, ListIs DEF NoticesTyped

LEMMA GetNoticesMoves ==
  ASSUME NoticesTyped, WaitInv, NEW p \in Procs, GetNotices(p)
  PROVE  WaitsAndMoves
<1>1. /\ proc[p].pc = "loaded" /\ proc[p].cmd \in Lists /\ lock = "free"
      /\ UNCHANGED <<scene, cli, ctx, shown, stateVars>>
  BY DEF GetNotices
<1>2. /\ ctx[p] = "live" /\ ctx' = [ctx EXCEPT ![p] = "live"] /\ proc[p] \in ProcType
      /\ cli' \in Files /\ shown' \in [Lists -> [NoticeKeys -> Nat]]
      /\ ctx' \in [Procs -> {"live", "done", "called"}]
  BY <1>1 DEF WaitInv, WaitOf, Waits, NoticesTyped
<1>3. CASE proc' = [proc EXCEPT ![p] = Idle] /\ UNCHANGED lock
  BY <1>1, <1>2, <1>3, IdleProc, CommandMoves DEF Waits
<1>4. CASE MayList /\ Answer(p, ListNotices(Filter(p))) /\ UNCHANGED lock
  <2>1. ListNotices(Filter(p)) \in Seq(EntryType)
    BY ListOf
  <2> QED BY <2>1, <1>1, <1>2, <1>4, AnswerMoves
<1>5. CASE /\ MayList /\ ListNotices(Filter(p)) = <<>>
           /\ proc' = [proc EXCEPT ![p].pc = "registers"] /\ lock' = p
  <2> DEFINE r == [proc[p] EXCEPT !.pc = "registers"]
  <2>1. Matching(Filter(p)) = {}
    BY <1>5, ListOf
  <2>2. proc' = [proc EXCEPT ![p] = r]
    BY <1>5 DEF NoticesTyped
  <2>3. r \in ProcType /\ r.pc = "registers" /\ r.cmd = proc[p].cmd /\ r.local = proc[p].local
        /\ r.answer = proc[p].answer
    BY <1>2 DEF ProcType, Waits
  <2> HIDE DEF r
  <2>4. proc'[p] = r
    BY <2>2 DEF NoticesTyped
  <2>5. MayList' /\ Matching(Filter(p))' = {}
    BY <2>1, <2>3, <2>4, <1>1, <1>5
    DEF MayList, Matching, FlattenNotices, Expired, Matches, Filter, Options, stateVars
  <2>6. WaitOf(p)' /\ Moves(p)
    BY <2>3, <2>4, <2>5, <1>1, <1>2 DEF WaitOf, Moves, Waits
  <2> QED BY <2>2, <2>3, <2>6, <1>1, <1>2, <1>5, OneProcess
<1> QED BY <1>3, <1>4, <1>5 DEF GetNotices

LEMMA GetNoticeMoves ==
  ASSUME NoticesTyped, WaitInv, NEW p \in Procs, GetNotice(p)
  PROVE  WaitsAndMoves
<1>1. /\ proc[p].pc = "loaded" /\ proc[p].cmd = "notice"
      /\ UNCHANGED <<scene, lock, cli, ctx, shown, stateVars>>
  BY DEF GetNotice
<1>2. /\ ctx[p] = "live" /\ ctx' = [ctx EXCEPT ![p] = "live"]
      /\ cli' \in Files /\ shown' \in [Lists -> [NoticeKeys -> Nat]]
  BY <1>1 DEF WaitInv, WaitOf, Waits, NoticesTyped
<1>3. CASE proc' = [proc EXCEPT ![p] = Idle]
  BY <1>1, <1>2, <1>3, IdleProc, CommandMoves DEF Waits
<1>4. ASSUME NEW k \in DOMAIN notices, NoticeViewableByUser(k), Answer(p, <<Entry(k)>>)
      PROVE  WaitsAndMoves
  <2>1. k \in NoticeKeys /\ notices[k].id \in Nat /\ notices[k].lastRepeated \in Nat
    BY TableTypes DEF NoticesTyped, StateTable, Table
  <2>2. <<Entry(k)>> \in Seq(EntryType)
    BY <2>1 DEF Entry, EntryType
  <2> QED BY <2>2, <1>1, <1>2, <1>4, AnswerMoves
<1> QED BY <1>3, <1>4 DEF GetNotice

LEMMA SleepMoves ==
  ASSUME NoticesTyped, WaitInv, NEW p \in Procs, Sleep(p)
  PROVE  WaitsAndMoves
<1>1. /\ proc[p].pc = "registers" /\ lock = p /\ lock' = "free"
      /\ proc' = [proc EXCEPT ![p].pc = "asleep"]
      /\ UNCHANGED <<scene, cli, ctx, shown, stateVars>>
  BY DEF Sleep
<1>2. /\ proc[p] \in ProcType /\ WaitOf(p)
      /\ cli' \in Files /\ shown' \in [Lists -> [NoticeKeys -> Nat]]
      /\ ctx' \in [Procs -> {"live", "done", "called"}]
  BY <1>1 DEF NoticesTyped, WaitInv
<1> DEFINE r == [proc[p] EXCEPT !.pc = "asleep"]
<1>3. proc' = [proc EXCEPT ![p] = r]
  BY <1>1 DEF NoticesTyped
<1>4. r \in ProcType /\ r.pc = "asleep" /\ r.cmd = proc[p].cmd /\ r.local = proc[p].local
      /\ r.answer = proc[p].answer
  BY <1>2 DEF ProcType, Waits
<1> HIDE DEF r
<1>5. proc'[p] = r
  BY <1>3 DEF NoticesTyped
<1>6. MayList' = MayList /\ Matching(Filter(p))' = Matching(Filter(p))
  BY <1>1, <1>4, <1>5
  DEF MayList, Matching, FlattenNotices, Expired, Matches, Filter, Options, stateVars
<1>7. WaitOf(p)' /\ Moves(p)
  BY <1>1, <1>2, <1>4, <1>5, <1>6 DEF WaitOf, Moves, Waits
<1> QED BY <1>1, <1>2, <1>3, <1>4, <1>7, OneProcess

LEMMA ContextDoneMoves ==
  ASSUME NoticesTyped, WaitInv, NEW p \in Procs, ContextDone(p)
  PROVE  WaitsAndMoves
<1>1. /\ proc[p].pc \in Waits /\ ctx' = [ctx EXCEPT ![p] = "done"]
      /\ UNCHANGED <<scene, lock, proc, cli, shown, stateVars>>
  BY DEF ContextDone, Waits
<1>2. /\ proc[p] \in ProcType /\ WaitOf(p) /\ proc' = [proc EXCEPT ![p] = proc[p]]
      /\ cli' \in Files /\ shown' \in [Lists -> [NoticeKeys -> Nat]]
      /\ ctx' \in [Procs -> {"live", "done", "called"}] /\ ctx'[p] = "done"
      /\ \A q \in Procs : q # p => ctx'[q] = ctx[q]
  BY <1>1 DEF NoticesTyped, WaitInv
<1>3. MayList' = MayList /\ Matching(Filter(p))' = Matching(Filter(p))
  BY <1>1
  DEF MayList, Matching, FlattenNotices, Expired, Matches, Filter, Options, stateVars
<1>4. WaitOf(p)' /\ Moves(p)
  BY <1>1, <1>2, <1>3 DEF WaitOf, Moves
<1> QED BY <1>1, <1>2, <1>4, OneProcess

LEMMA AfterFuncMoves ==
  ASSUME NoticesTyped, WaitInv, NEW p \in Procs, AfterFunc(p)
  PROVE  WaitsAndMoves
<1>1. /\ ctx[p] = "done" /\ lock = "free" /\ ctx' = [ctx EXCEPT ![p] = "called"] /\ Broadcast
      /\ UNCHANGED <<scene, lock, cli, shown, stateVars>>
  BY DEF AfterFunc
<1>2. NoticesTypeOK /\ proc \in [Procs -> ProcType] /\ "free" \notin Procs
  BY NoticesAssumption DEF NoticesTyped, NoticesAssumption
<1>3. /\ proc' \in [Procs -> ProcType]
      /\ \A q \in Procs :
           /\ proc'[q].answer = proc[q].answer /\ proc'[q].cmd = proc[q].cmd
           /\ proc'[q].local = proc[q].local
           /\ proc'[q].pc = proc[q].pc \/ (proc[q].pc = "asleep" /\ proc'[q].pc = "woken")
           /\ proc'[q].pc # "registers" /\ proc'[q].pc # "asleep"
  <2>1. \A q \in Procs : proc[q].pc # "registers" /\ proc'[q].pc # "asleep"
    BY <1>1, <1>2 DEF NoticesTypeOK, Broadcast
  <2> QED BY <2>1, <1>1, <1>2, BroadcastIs
<1>4. NoticesTyped'
  BY <1>1, <1>3, <1>2 DEF NoticesTyped, NoticesTypeOK, StateTable, stateVars
<1>5. MayList' = MayList
  BY <1>1 DEF MayList
<1>6. \A q \in Procs : WaitOf(q)'
  <2> SUFFICES ASSUME NEW q \in Procs PROVE WaitOf(q)'
    OBVIOUS
  <2>1. WaitOf(q) /\ (q # p => ctx'[q] = ctx[q])
    BY <1>1 DEF WaitInv, NoticesTyped
  <2>2. WaitOf(p) => proc[p].pc \in Waits
    BY <1>1 DEF WaitOf
  <2> QED BY <2>1, <2>2, <1>3, <1>5 DEF WaitOf, Waits, WaitInv
<1> QED BY <1>1, <1>3, <1>4, <1>6 DEF WaitsAndMoves, WaitInv, Moves

LEMMA WakeMoves ==
  ASSUME NoticesTyped, WaitInv, NEW p \in Procs, Wake(p)
  PROVE  WaitsAndMoves
<1>1. /\ proc[p].pc = "woken" /\ ctx' = [ctx EXCEPT ![p] = "live"]
      /\ UNCHANGED <<scene, lock, cli, shown, stateVars>>
  BY DEF Wake
<1>2. /\ proc[p] \in ProcType /\ WaitOf(p) /\ MayList /\ proc[p].cmd \in Lists
      /\ cli' \in Files /\ shown' \in [Lists -> [NoticeKeys -> Nat]]
      /\ ctx' \in [Procs -> {"live", "done", "called"}] /\ ctx'[p] = "live"
      /\ \A q \in Procs : q # p => ctx'[q] = ctx[q]
  BY <1>1 DEF NoticesTyped, WaitInv, WaitOf, Waits
<1>3. CASE Answer(p, <<>>)
  <2>1. <<>> \in Seq(EntryType)
    OBVIOUS
  <2> QED BY <2>1, <1>1, <1>3, AnswerMoves
<1>4. CASE Answer(p, ListNotices(Filter(p)))
  <2>1. ListNotices(Filter(p)) \in Seq(EntryType)
    BY ListOf
  <2> QED BY <2>1, <1>1, <1>2, <1>4, AnswerMoves
<1>5. CASE ListNotices(Filter(p)) = <<>> /\ proc' = [proc EXCEPT ![p].pc = "asleep"]
  <2> DEFINE r == [proc[p] EXCEPT !.pc = "asleep"]
  <2>1. Matching(Filter(p)) = {}
    BY <1>5, ListOf
  <2>2. proc' = [proc EXCEPT ![p] = r]
    BY <1>5 DEF NoticesTyped
  <2>3. r \in ProcType /\ r.pc = "asleep" /\ r.cmd = proc[p].cmd /\ r.local = proc[p].local
        /\ r.answer = proc[p].answer
    BY <1>2 DEF ProcType, Waits
  <2> HIDE DEF r
  <2>4. proc'[p] = r
    BY <2>2 DEF NoticesTyped
  <2>5. MayList' /\ Matching(Filter(p))' = {}
    BY <2>1, <2>3, <2>4, <1>1, <1>2
    DEF MayList, Matching, FlattenNotices, Expired, Matches, Filter, Options, stateVars
  <2>6. WaitOf(p)' /\ Moves(p)
    BY <2>3, <2>4, <2>5, <1>2 DEF WaitOf, Moves, Waits
  <2> QED BY <2>2, <2>3, <2>6, <1>1, <1>2, OneProcess
<1> QED BY <1>3, <1>4, <1>5 DEF Wake

LEMMA LoadMoves ==
  ASSUME NoticesTyped, WaitInv, NEW p \in Procs, NEW cmd \in Lists \cup {"okay", "notice"},
         NEW waits \in BOOLEAN, Load(p, cmd, waits)
  PROVE  WaitsAndMoves
<1> DEFINE r == [Idle EXCEPT !.pc = "loaded", !.cmd = cmd, !.local = cli, !.waits = waits]
<1>1. proc[p].pc = "idle" /\ proc' = [proc EXCEPT ![p] = r]
      /\ UNCHANGED <<scene, lock, cli, ctx, shown, stateVars>>
  BY DEF Load, LoadCLIState
<1>2. r \in ProcType /\ r.pc = "loaded" /\ r.answer = <<>> /\ r.local = cli
  <2>1. Idle \in ProcType /\ Idle.answer = <<>> /\ cli \in Files
    BY IdleProc DEF NoticesTyped
  <2> QED BY <2>1 DEF ProcType
<1>3. cli' \in Files /\ shown' \in [Lists -> [NoticeKeys -> Nat]] /\ proc[p].pc \notin Waits
  BY <1>1 DEF NoticesTyped, Waits
<1> HIDE DEF r
<1> QED BY <1>1, <1>2, <1>3, CommandMoves

\* What "notices" or "warnings" shows and saves.
ListedOf(list, k) == { list[i].lastRepeated : i \in { i \in DOMAIN list : list[i].key = k } }

LEMMA SaveListedMoves ==
  ASSUME NoticesTyped, WaitInv, CoveredInv, NEW p \in Procs, SaveListed(p)
  PROVE  /\ WaitsAndMoves
         /\ \A l \in Lists, k \in NoticeKeys :
              /\ shown'[l][k] >= shown[l][k]
              /\ l = proc[p].cmd => \A t \in ListedOf(proc[p].answer, k) : shown'[l][k] >= t
         /\ \/ cli' = cli
            \/ /\ proc[p].answer # <<>>
               /\ cli' = [proc[p].local EXCEPT !.listed[proc[p].cmd] =
                            proc[p].answer[Len(proc[p].answer)].lastRepeated]
<1> DEFINE l == proc[p].cmd
           list == proc[p].answer
<1>1. /\ proc[p].pc = "answered" /\ l \in Lists /\ proc' = [proc EXCEPT ![p] = Idle]
      /\ cli' = IF list = <<>> THEN cli
                ELSE [proc[p].local EXCEPT !.listed[l] = list[Len(list)].lastRepeated]
      /\ shown' = [shown EXCEPT ![l] = [k \in NoticeKeys |->
                                          Newest({@[k]} \cup ListedOf(list, k))]]
      /\ UNCHANGED <<scene, lock, ctx, stateVars>>
  BY DEF SaveListed, SaveCLIState, ListedOf
<1>2. /\ proc[p] \in ProcType /\ cli \in Files /\ shown \in [Lists -> [NoticeKeys -> Nat]]
      /\ clock \in Nat
  BY TableTypes DEF NoticesTyped
<1>3. list \in Seq(EntryType) /\ proc[p].local \in Files
  BY <1>2 DEF ProcType
<1>4. AnswerCovered(l, list)
  BY <1>1 DEF CoveredInv
<1> HIDE DEF l, list
<1>5. \A i \in DOMAIN list : list[i].lastRepeated \in 0..clock
  <2>1. \A i \in DOMAIN list : list[i] \in EntryType /\ list[i].lastRepeated <= clock
    BY <1>3, <1>4 DEF AnswerCovered
  <2> QED BY <2>1, <1>2 DEF EntryType
<1>6. \A k \in NoticeKeys :
        /\ Newest({shown[l][k]} \cup ListedOf(list, k)) \in Nat
        /\ \A t \in {shown[l][k]} \cup ListedOf(list, k) :
             t <= Newest({shown[l][k]} \cup ListedOf(list, k))
  <2> SUFFICES ASSUME NEW k \in NoticeKeys
               PROVE  /\ Newest({shown[l][k]} \cup ListedOf(list, k)) \in Nat
                      /\ \A t \in {shown[l][k]} \cup ListedOf(list, k) :
                           t <= Newest({shown[l][k]} \cup ListedOf(list, k))
    OBVIOUS
  <2> DEFINE S == {shown[l][k]} \cup ListedOf(list, k)
             n == shown[l][k] + clock
  <2>1. shown[l][k] \in Nat
    BY <1>1, <1>2
  <2>2. \A t \in ListedOf(list, k) : t \in 0..clock
    BY <1>5 DEF ListedOf
  <2>3. S \in SUBSET (0..n) /\ S # {} /\ n \in Nat
    BY <2>1, <2>2, <1>2
  <2>4. Newest(S) \in S /\ \A t \in S : t <= Newest(S)
    BY <2>3, NewestIs
  <2> QED BY <2>3, <2>4
<1>7. \A m \in Lists, k \in NoticeKeys :
        shown'[m][k] = IF m = l THEN Newest({shown[l][k]} \cup ListedOf(list, k)) ELSE shown[m][k]
  BY <1>1, <1>2
<1>8. shown' \in [Lists -> [NoticeKeys -> Nat]]
  BY <1>1, <1>2, <1>6
<1>9. cli' \in Files
  <2>1. CASE list = <<>>
    BY <2>1, <1>1, <1>2
  <2>2. CASE list # <<>>
    <3>1. list[Len(list)].lastRepeated \in Nat
      <4>1. Len(list) \in DOMAIN list
        BY <2>2, <1>3
      <4> QED BY <4>1, <1>2, <1>5
    <3> QED BY <3>1, <2>2, <1>1, <1>3 DEF Files
  <2> QED BY <2>1, <2>2
<1>10. WaitsAndMoves
  BY <1>1, <1>8, <1>9, IdleProc, CommandMoves DEF Waits
<1>11. \A m \in Lists, k \in NoticeKeys :
        /\ shown'[m][k] >= shown[m][k]
        /\ m = l => \A t \in ListedOf(list, k) : shown'[m][k] >= t
  <2> SUFFICES ASSUME NEW m \in Lists, NEW k \in NoticeKeys
               PROVE  /\ shown'[m][k] >= shown[m][k]
                      /\ m = l => \A t \in ListedOf(list, k) : shown'[m][k] >= t
    OBVIOUS
  <2>1. CASE m = l
    <3>1. shown'[m][k] = Newest({shown[l][k]} \cup ListedOf(list, k)) /\ shown'[m][k] \in Nat
      BY <2>1, <1>6, <1>7
    <3>2. shown[m][k] <= shown'[m][k] /\ \A t \in ListedOf(list, k) : t <= shown'[m][k]
      BY <2>1, <3>1, <1>6
    <3>3. shown[m][k] \in Nat /\ \A t \in ListedOf(list, k) : t \in Nat
      BY <1>2, <1>5 DEF ListedOf
    <3> QED BY <3>1, <3>2, <3>3
  <2>2. CASE m # l
    <3>1. shown[m][k] \in Nat
      BY <1>2
    <3>2. shown'[m][k] = shown[m][k]
      BY <2>2, <1>7
    <3> QED BY <2>2, <3>1, <3>2
  <2> QED BY <2>1, <2>2
<1> QED BY <1>1, <1>10, <1>11 DEF l, list

LEMMA ShowNoticeMoves ==
  ASSUME NoticesTyped, WaitInv, NEW p \in Procs, ShowNotice(p)
  PROVE  WaitsAndMoves
<1>1. proc[p].pc = "answered" /\ proc' = [proc EXCEPT ![p] = Idle]
      /\ UNCHANGED <<scene, lock, cli, ctx, shown, stateVars>>
  BY DEF ShowNotice
<1>2. cli' \in Files /\ shown' \in [Lists -> [NoticeKeys -> Nat]]
  BY <1>1 DEF NoticesTyped
<1> QED BY <1>1, <1>2, IdleProc, CommandMoves DEF Waits

LEMMA OkayMoves ==
  ASSUME NoticesTyped, WaitInv, NEW p \in Procs, NEW w \in BOOLEAN, Okay(p, w)
  PROVE  /\ WaitsAndMoves /\ UNCHANGED shown
         /\ \A l \in Lists :
              /\ cli'.listed[l] = proc[p].local.listed[l]
              /\ cli'.okayed[l] \in {proc[p].local.listed[l], proc[p].local.okayed[l]}
<1>1. PICK okays \in SUBSET Lists :
        /\ proc[p].pc = "loaded"
        /\ cli' = [proc[p].local EXCEPT !.okayed =
                     [l \in Lists |-> IF l \in okays THEN proc[p].local.listed[l] ELSE @[l]]]
        /\ proc' = [proc EXCEPT ![p] = Idle]
        /\ UNCHANGED <<scene, lock, ctx, shown, stateVars>>
  BY DEF Okay, SaveCLIState
<1>2. proc[p] \in ProcType /\ shown' \in [Lists -> [NoticeKeys -> Nat]]
  BY <1>1 DEF NoticesTyped
<1>3. proc[p].local \in Files
  BY <1>2 DEF ProcType
<1>4. cli' \in Files
      /\ \A l \in Lists :
              /\ cli'.listed[l] = proc[p].local.listed[l]
              /\ cli'.okayed[l] \in {proc[p].local.listed[l], proc[p].local.okayed[l]}
  BY <1>1, <1>3 DEF Files
<1> QED BY <1>1, <1>2, <1>4, IdleProc, CommandMoves DEF Waits

(***************************************************************************)
(* What was shown.                                                         *)
(***************************************************************************)
\* The same after a step.
MatchingThen(f) ==
  { k \in FlattenNotices(notices', clock') : Matches(f, k, notices'[k]) }
SeenThen(l, k) ==
  shown'[l][k] >= notices'[k].lastRepeated \/ dropped'[k] >= notices'[k].lastRepeated
HoldsThen(answer, k) ==
  \E i \in DOMAIN answer :
    answer[i].key = k /\ answer[i].lastRepeated >= notices'[k].lastRepeated
CoveredThen(l, time) ==
  /\ time <= clock'
  /\ \A k \in MatchingThen(Options(l)) : notices'[k].lastRepeated <= time => SeenThen(l, k)
AnswerThen(l, answer) ==
  \A i \in DOMAIN answer :
    /\ answer[i].lastRepeated <= clock'
    /\ \A k \in MatchingThen(Options(l)) :
         notices'[k].lastRepeated <= answer[i].lastRepeated =>
           SeenThen(l, k) \/ HoldsThen(answer, k)

Drift ==
  /\ NoticesTyped /\ NoticesTyped' /\ clock <= clock' /\ UNCHANGED scene
  /\ \A k \in FlattenNotices(notices', clock') : Stays(k) \/ Repeated(k) \/ BroughtBack(k)
  /\ \A l \in Lists, k \in NoticeKeys : shown'[l][k] >= shown[l][k]

LEMMA DriftIs ==
  ASSUME Drift, NEW l \in Lists, NEW k \in MatchingThen(Options(l)), NEW time \in Nat,
         time <= clock,
         notices'[k].lastRepeated <= time
  PROVE  \/ SeenThen(l, k)
         \/ /\ k \in Matching(Options(l)) /\ notices'[k].lastRepeated = notices[k].lastRepeated
            /\ Seen(l, k) => SeenThen(l, k)
<1>1. /\ clock \in Nat /\ clock' \in Nat /\ StateTable /\ StateTable'
      /\ shown \in [Lists -> [NoticeKeys -> Nat]] /\ shown' \in [Lists -> [NoticeKeys -> Nat]]
      /\ dropped \in [NoticeKeys -> Nat]
  BY TableTypes, NoticesAssumption DEF Drift, NoticesTyped, NoticesTypeOK, NoticesAssumption
<1>2. k \in FlattenNotices(notices', clock') /\ Matches(Options(l), k, notices'[k])
  BY DEF MatchingThen
<1>3. k \in NoticeKeys /\ notices'[k].lastRepeated \in Nat
  BY <1>1, <1>2 DEF FlattenNotices, StateTable, Table
<1>4. shown[l][k] \in Nat /\ shown'[l][k] \in Nat /\ shown'[l][k] >= shown[l][k]
  BY <1>1, <1>3 DEF Drift
<1>5. CASE Stays(k)
  <2>1. k \in Matching(Options(l))
    BY <1>2, <1>5 DEF Stays, Matching, Matches, Options
  <2>2. Seen(l, k) => SeenThen(l, k)
    BY <1>1, <1>3, <1>4, <1>5 DEF Seen, SeenThen, Stays
  <2> QED BY <2>1, <2>2, <1>5 DEF Stays
<1>6. CASE Repeated(k)
  BY <1>1, <1>3, <1>6 DEF Repeated
<1>7. CASE BroughtBack(k)
  BY <1>7 DEF BroughtBack, SeenThen
<1> QED BY <1>2, <1>5, <1>6, <1>7 DEF Drift

LEMMA CoveredKept ==
  ASSUME Drift, NEW l \in Lists, NEW time \in Nat, Covered(l, time)
  PROVE  CoveredThen(l, time)
<1>1. time <= clock /\ time <= clock'
  BY TableTypes, NoticesAssumption
  DEF Covered, Drift, NoticesTyped, NoticesTypeOK, NoticesAssumption
<1> QED BY <1>1, DriftIs DEF Covered, CoveredThen

LEMMA AnswerKept ==
  ASSUME Drift, NEW l \in Lists, NEW answer \in Seq(EntryType), AnswerCovered(l, answer)
  PROVE  AnswerThen(l, answer)
<1> SUFFICES ASSUME NEW i \in DOMAIN answer
             PROVE  /\ answer[i].lastRepeated <= clock'
                    /\ \A k \in MatchingThen(Options(l)) :
                         notices'[k].lastRepeated <= answer[i].lastRepeated =>
                           SeenThen(l, k) \/ HoldsThen(answer, k)
  BY DEF AnswerThen
<1>1. answer[i] \in EntryType
  OBVIOUS
<1>2. answer[i].lastRepeated \in Nat
  BY <1>1 DEF EntryType
<1>3. answer[i].lastRepeated <= clock
  BY DEF AnswerCovered
<1>4. clock \in Nat /\ clock' \in Nat /\ clock <= clock'
  BY TableTypes, NoticesAssumption
  DEF Drift, NoticesTyped, NoticesTypeOK, NoticesAssumption
<1>5. ASSUME NEW k \in MatchingThen(Options(l)),
             notices'[k].lastRepeated <= answer[i].lastRepeated
      PROVE  SeenThen(l, k) \/ HoldsThen(answer, k)
  <2>1. \/ SeenThen(l, k)
        \/ /\ k \in Matching(Options(l)) /\ notices'[k].lastRepeated = notices[k].lastRepeated
           /\ Seen(l, k) => SeenThen(l, k)
    BY <1>2, <1>3, <1>5, DriftIs
  <2>2. CASE /\ k \in Matching(Options(l)) /\ notices'[k].lastRepeated = notices[k].lastRepeated
             /\ Seen(l, k) => SeenThen(l, k)
    <3>1. Seen(l, k) \/ Holds(answer, k)
      BY <2>2, <1>5 DEF AnswerCovered
    <3> QED BY <3>1, <2>2 DEF Holds, HoldsThen
  <2> QED BY <2>1, <2>2
<1> QED BY <1>2, <1>3, <1>4, <1>5

LEMMA FileThen ==
  ASSUME UNCHANGED scene,
         \A l \in Lists : CoveredThen(l, cli'.listed[l]) /\ CoveredThen(l, cli'.okayed[l])
  PROVE  FileCovered(cli)'
<1>1. \A l \in Lists : Matching(Options(l))' = MatchingThen(Options(l))
  BY DEF Matching, MatchingThen, Options
<1>2. ASSUME NEW l \in Lists PROVE Covered(l, cli.listed[l])'
  <2>1. CoveredThen(l, cli'.listed[l]) /\ Matching(Options(l))' = MatchingThen(Options(l))
    BY <1>1
  <2> QED BY <2>1 DEF Covered, CoveredThen, Seen, SeenThen
<1>3. ASSUME NEW l \in Lists PROVE Covered(l, cli.okayed[l])'
  <2>1. CoveredThen(l, cli'.okayed[l]) /\ Matching(Options(l))' = MatchingThen(Options(l))
    BY <1>1
  <2> QED BY <2>1 DEF Covered, CoveredThen, Seen, SeenThen
<1> QED BY <1>2, <1>3 DEF FileCovered

\* The answer to a list has what was repeated since the file was loaded; what is older was
\* covered by it.
LEMMA ListCovers ==
  ASSUME NoticesTyped, NEW l \in Lists, NEW f, NEW time \in Nat, Covered(l, time),
         f = [Options(l) EXCEPT !.after = time]
  PROVE  AnswerCovered(l, ListNotices(f))
<1> DEFINE list == ListNotices(f)
<1>1. /\ \A i \in DOMAIN list : \E k \in Matching(f) : list[i] = Entry(k)
      /\ \A k \in Matching(f) : \E i \in DOMAIN list : list[i] = Entry(k)
  BY TableTypes, ListIs DEF NoticesTyped
<1>2. /\ clock \in Nat
      /\ \A k \in FlattenNotices(notices, clock) : notices[k].lastRepeated \in 1..clock
  BY TableTypes DEF NoticesTyped, StateTable, Table, FlattenNotices
<1>3. \A k \in Matching(Options(l)) : k \in Matching(f) \/ notices[k].lastRepeated <= time
  <2> SUFFICES ASSUME NEW k \in Matching(Options(l)), ~(notices[k].lastRepeated <= time)
               PROVE  k \in Matching(f)
    OBVIOUS
  <2>1. k \in FlattenNotices(notices, clock) /\ Matches(Options(l), k, notices[k])
    BY DEF Matching
  <2>2. Matches(f, k, notices[k])
    BY <2>1, <1>2 DEF Matches, Options
  <2> QED BY <2>1, <2>2 DEF Matching
<1> HIDE DEF list
<1>4. \A i \in DOMAIN list : list[i].lastRepeated <= clock
  BY <1>1, <1>2 DEF Entry, Matching
<1>5. \A k \in Matching(f) : Holds(list, k)
  <2> SUFFICES ASSUME NEW k \in Matching(f) PROVE Holds(list, k)
    OBVIOUS
  <2>1. PICK i \in DOMAIN list : list[i] = Entry(k)
    BY <1>1
  <2>2. notices[k].lastRepeated \in Nat
    BY <1>2 DEF Matching
  <2> QED BY <2>1, <2>2 DEF Holds, Entry
<1> QED BY <1>3, <1>4, <1>5 DEF AnswerCovered, Covered, list

(***************************************************************************)
(* A step of a request.                                                    *)
(***************************************************************************)
RequestStep(p) ==
  Command(p) \/ Sleep(p) \/ ContextDone(p) \/ AfterFunc(p) \/ Wake(p)

LEMMA NothingDrifts ==
  ASSUME NoticesTyped, WaitsAndMoves,
         \A l \in Lists, k \in NoticeKeys : shown'[l][k] >= shown[l][k]
  PROVE  Drift
<1>1. clock \in Nat
  BY TableTypes
<1>2. UNCHANGED <<notices, clock, dropped, scene>> /\ NoticesTyped'
  BY DEF WaitsAndMoves, stateVars
<1>3. \A k \in FlattenNotices(notices', clock') : Stays(k)
  BY <1>2 DEF Stays, FlattenNotices, Expired
<1> QED BY <1>1, <1>2, <1>3 DEF Drift

LEMMA AnswersKept ==
  ASSUME NoticesTyped, CoveredInv, WaitsAndMoves, Drift, FileCovered(cli)'
  PROVE  CoveredInv'
<1>1. /\ clock \in Nat /\ proc \in [Procs -> ProcType] /\ proc' \in [Procs -> ProcType]
      /\ cli \in Files /\ NoCli \in Files
  BY TableTypes, IdleProc DEF NoticesTyped, WaitsAndMoves, ProcType
<1>2. \A p \in Procs : proc[p] \in ProcType /\ proc'[p] \in ProcType
  BY <1>1
<1>3. \A l \in Lists : Covered(l, 0)
  BY <1>1 DEF Covered, Matching, FlattenNotices, NoticesTyped, StateTable, Table
<1>4. ASSUME NEW p \in Procs
      PROVE  \A l \in Lists : /\ CoveredThen(l, proc'[p].local.listed[l])
                              /\ CoveredThen(l, proc'[p].local.okayed[l])
  <2>1. proc'[p].local \in {proc[p].local, cli, NoCli}
    BY <1>4 DEF WaitsAndMoves, Moves
  <2>2. \A file \in {proc[p].local, cli, NoCli}, l \in Lists :
          /\ file.listed[l] \in Nat /\ file.okayed[l] \in Nat
          /\ Covered(l, file.listed[l]) /\ Covered(l, file.okayed[l])
    BY <1>1, <1>2, <1>3 DEF CoveredInv, FileCovered, Files, ProcType, NoCli
  <2> QED BY <2>1, <2>2, CoveredKept
<1>5. ASSUME NEW p \in Procs, proc'[p].cmd \in Lists
      PROVE  AnswerThen(proc'[p].cmd, proc'[p].answer)
  <2>1. CASE proc'[p].answer = <<>>
    BY <2>1 DEF AnswerThen
  <2>2. CASE proc'[p].answer = proc[p].answer /\ proc'[p].cmd = proc[p].cmd
    <3>1. proc[p].answer \in Seq(EntryType)
      BY <1>2 DEF ProcType
    <3> QED BY <3>1, <2>2, <1>5, AnswerKept DEF CoveredInv
  <2>3. CASE /\ MayList /\ proc[p].cmd \in Lists /\ proc'[p].cmd = proc[p].cmd
             /\ proc'[p].answer = ListNotices(Filter(p))
    <3> DEFINE time == proc[p].local.okayed[proc[p].cmd]
    <3>1. time \in Nat /\ Covered(proc[p].cmd, time)
      BY <1>2, <2>3 DEF CoveredInv, FileCovered, ProcType, Files
    <3>2. AnswerCovered(proc[p].cmd, ListNotices(Filter(p)))
      BY <2>3, <3>1, ListCovers DEF Filter
    <3>3. ListNotices(Filter(p)) \in Seq(EntryType)
      BY ListOf
    <3> QED BY <2>3, <3>2, <3>3, AnswerKept
  <2>4. proc'[p].cmd # "notice"
    BY <1>5 DEF Lists
  <2> QED BY <2>1, <2>2, <2>3, <2>4 DEF WaitsAndMoves, Moves
<1>6. \A l \in Lists : Matching(Options(l))' = MatchingThen(Options(l))
  BY DEF Drift, Matching, MatchingThen, Options
<1>7. \A p \in Procs : FileCovered(proc[p].local)'
  BY <1>4, <1>6 DEF FileCovered, Covered, CoveredThen, Seen, SeenThen
<1>8. \A p \in Procs : proc'[p].cmd \in Lists => AnswerCovered(proc[p].cmd, proc[p].answer)'
  BY <1>5, <1>6 DEF AnswerCovered, AnswerThen, Seen, SeenThen, Holds, HoldsThen
<1> QED BY <1>7, <1>8 DEF CoveredInv

\* The file that is saved, and what was shown by then.
LEMMA RequestKeeps ==
  ASSUME NoticesInv, NEW p \in Procs, RequestStep(p)
  PROVE  WaitsAndMoves /\ CoveredInv'
<1>1. NoticesTyped /\ WaitInv /\ CoveredInv
  BY DEF NoticesInv
<1>2. /\ shown \in [Lists -> [NoticeKeys -> Nat]] /\ proc[p] \in ProcType
      /\ proc[p].local \in Files /\ cli \in Files
  BY <1>1 DEF NoticesTyped, ProcType
<1>3. \A l \in Lists, k \in NoticeKeys : shown[l][k] \in Nat /\ shown[l][k] >= shown[l][k]
  BY <1>2
<1>4. CASE UNCHANGED <<cli, shown>> /\ WaitsAndMoves
  <2>1. Drift
    BY <1>1, <1>3, <1>4, NothingDrifts
  <2>2. \A l \in Lists : CoveredThen(l, cli'.listed[l]) /\ CoveredThen(l, cli'.okayed[l])
    BY <2>1, <1>1, <1>2, <1>4, CoveredKept DEF CoveredInv, FileCovered, Files
  <2>3. FileCovered(cli)'
    BY <2>1, <2>2, FileThen DEF Drift
  <2> QED BY <2>1, <2>3, <1>1, <1>4, AnswersKept
<1>5. ASSUME NEW w \in BOOLEAN, Okay(p, w)
      PROVE  WaitsAndMoves /\ CoveredInv'
  <2>1. /\ WaitsAndMoves /\ UNCHANGED shown
        /\ \A l \in Lists :
              /\ cli'.listed[l] = proc[p].local.listed[l]
              /\ cli'.okayed[l] \in {proc[p].local.listed[l], proc[p].local.okayed[l]}
    BY <1>1, <1>5, OkayMoves
  <2>2. Drift
    BY <2>1, <1>1, <1>3, NothingDrifts
  <2>3. \A l \in Lists : /\ proc[p].local.listed[l] \in Nat /\ proc[p].local.okayed[l] \in Nat
                         /\ Covered(l, proc[p].local.listed[l])
                         /\ Covered(l, proc[p].local.okayed[l])
    BY <1>1, <1>2 DEF CoveredInv, FileCovered, Files
  <2>4. \A l \in Lists : CoveredThen(l, cli'.listed[l]) /\ CoveredThen(l, cli'.okayed[l])
    BY <2>1, <2>2, <2>3, CoveredKept
  <2>5. FileCovered(cli)'
    BY <2>2, <2>4, FileThen DEF Drift
  <2> QED BY <2>1, <2>2, <2>5, <1>1, AnswersKept
<1>6. CASE SaveListed(p)
  <2> DEFINE l == proc[p].cmd
             list == proc[p].answer
             last == list[Len(list)].lastRepeated
  <2>1. /\ WaitsAndMoves
        /\ \A m \in Lists, k \in NoticeKeys :
             /\ shown'[m][k] >= shown[m][k]
             /\ m = l => \A t \in ListedOf(list, k) : shown'[m][k] >= t
        /\ \/ cli' = cli
           \/ list # <<>> /\ cli' = [proc[p].local EXCEPT !.listed[l] = last]
    BY <1>1, <1>6, SaveListedMoves
  <2>2. Drift
    BY <2>1, <1>1, NothingDrifts
  <2>3. l \in Lists /\ list \in Seq(EntryType)
    BY <1>2, <1>6 DEF SaveListed, ProcType
  <2>4. AnswerThen(l, list)
    BY <2>2, <2>3, <1>1, AnswerKept DEF CoveredInv
  <2>5. \A k \in NoticeKeys : shown'[l][k] \in Nat
    BY <2>1, <2>3 DEF WaitsAndMoves, NoticesTyped
  <2>6. ASSUME list # <<>> PROVE CoveredThen(l, last)
    <3>1. Len(list) \in DOMAIN list
      BY <2>3, <2>6
    <3>2. SUFFICES ASSUME NEW k \in MatchingThen(Options(l)), notices'[k].lastRepeated <= last,
                          HoldsThen(list, k)
                   PROVE  SeenThen(l, k)
      BY <2>4, <3>1 DEF CoveredThen, AnswerThen
    <3>3. PICK i \in DOMAIN list : /\ list[i].key = k
                                   /\ list[i].lastRepeated >= notices'[k].lastRepeated
      BY <3>2 DEF HoldsThen
    <3>4. list[i].lastRepeated \in ListedOf(list, k)
      BY <3>3 DEF ListedOf
    <3>5. k \in NoticeKeys /\ list[i].lastRepeated \in Nat /\ notices'[k].lastRepeated \in Nat
      <4>1. list[i] \in EntryType
        BY <2>3, <3>3
      <4>2. StateTable' /\ k \in DOMAIN notices' /\ clock' \in Nat
        BY <2>2, TableTypes, NoticesAssumption
        DEF Drift, NoticesTyped, NoticesTypeOK, NoticesAssumption, MatchingThen, FlattenNotices
      <4> QED BY <3>3, <4>1, <4>2 DEF EntryType, StateTable, Table
    <3>6. shown'[l][k] >= list[i].lastRepeated
      BY <2>1, <2>3, <3>4, <3>5
    <3> QED BY <2>5, <3>3, <3>5, <3>6 DEF SeenThen
  <2>7. \A m \in Lists : CoveredThen(m, cli'.listed[m]) /\ CoveredThen(m, cli'.okayed[m])
    <3>1. \A file \in {proc[p].local, cli}, m \in Lists :
            /\ file.listed[m] \in Nat /\ file.okayed[m] \in Nat
            /\ Covered(m, file.listed[m]) /\ Covered(m, file.okayed[m])
      BY <1>1, <1>2 DEF CoveredInv, FileCovered, Files
    <3>2. \A file \in {proc[p].local, cli}, m \in Lists :
            CoveredThen(m, file.listed[m]) /\ CoveredThen(m, file.okayed[m])
      BY <3>1, <2>2, CoveredKept
    <3>3. CASE cli' = cli
      BY <3>2, <3>3
    <3>4. CASE list # <<>> /\ cli' = [proc[p].local EXCEPT !.listed[l] = last]
      <4>1. CoveredThen(l, last)
        BY <2>6, <3>4
      <4>2. \A m \in Lists : /\ cli'.okayed[m] = proc[p].local.okayed[m]
                             /\ cli'.listed[m] = IF m = l THEN last ELSE proc[p].local.listed[m]
        BY <1>2, <3>4 DEF Files
      <4> HIDE DEF l, last
      <4> QED BY <3>2, <4>1, <4>2
    <3> QED BY <2>1, <3>3, <3>4
  <2>8. FileCovered(cli)'
    BY <2>2, <2>7, FileThen DEF Drift
  <2> QED BY <2>1, <2>2, <2>8, <1>1, AnswersKept
<1>7. CASE GetNotices(p) \/ GetNotice(p) \/ Sleep(p) \/ ContextDone(p) \/ AfterFunc(p) \/ Wake(p)
           \/ ShowNotice(p)
  <2>1. WaitsAndMoves
    BY <1>1, <1>7, GetNoticesMoves, GetNoticeMoves, SleepMoves, ContextDoneMoves, AfterFuncMoves,
       WakeMoves, ShowNoticeMoves
  <2>2. UNCHANGED <<cli, shown>>
    BY <1>7 DEF GetNotices, GetNotice, Sleep, ContextDone, AfterFunc, Wake, ShowNotice
  <2> QED BY <2>1, <2>2, <1>4
<1>8. ASSUME NEW cmd \in Lists \cup {"okay", "notice"}, NEW waits \in BOOLEAN, Load(p, cmd, waits)
      PROVE  WaitsAndMoves /\ CoveredInv'
  <2>1. WaitsAndMoves
    BY <1>1, <1>8, LoadMoves
  <2>2. UNCHANGED <<cli, shown>>
    BY <1>8 DEF Load
  <2> QED BY <2>1, <2>2, <1>4
<1>9. \/ \E w \in BOOLEAN : Okay(p, w)
      \/ SaveListed(p)
      \/ GetNotices(p) \/ GetNotice(p) \/ Sleep(p) \/ ContextDone(p) \/ AfterFunc(p) \/ Wake(p)
         \/ ShowNotice(p)
      \/ \E cmd \in Lists \cup {"okay", "notice"}, waits \in BOOLEAN : Load(p, cmd, waits)
  BY DEF RequestStep, Command, ListsNotices, ListsWarnings, Lists
<1> QED BY <1>5, <1>6, <1>7, <1>8, <1>9

(***************************************************************************)
(* A step of the notices, of identifiers and of who sees what.             *)
(***************************************************************************)
\* A process keeps its answer, or loses it.
Keeps(p) ==
  /\ proc'[p].local \in {proc[p].local, NoCli}
  /\ \/ proc'[p].answer = <<>>
     \/ proc'[p].answer = proc[p].answer /\ proc'[p].cmd = proc[p].cmd

LEMMA DriftCovers ==
  ASSUME NoticesInv, Drift, UNCHANGED <<cli, shown>>, \A p \in Procs : Keeps(p)
  PROVE  CoveredInv'
<1>1. /\ NoticesTyped /\ CoveredInv /\ clock \in Nat
  BY TableTypes DEF NoticesInv
<1>2. /\ cli \in Files /\ NoCli \in Files /\ \A p \in Procs : proc[p] \in ProcType
  BY <1>1, IdleProc DEF NoticesTyped, ProcType
<1>3. \A l \in Lists : Covered(l, 0)
  BY <1>1 DEF Covered, Matching, FlattenNotices, NoticesTyped, StateTable, Table
<1>4. ASSUME NEW p \in Procs
      PROVE  \A l \in Lists : /\ CoveredThen(l, proc'[p].local.listed[l])
                              /\ CoveredThen(l, proc'[p].local.okayed[l])
  <2>1. \A file \in {proc[p].local, NoCli}, l \in Lists :
          /\ file.listed[l] \in Nat /\ file.okayed[l] \in Nat
          /\ Covered(l, file.listed[l]) /\ Covered(l, file.okayed[l])
    BY <1>1, <1>2, <1>3 DEF CoveredInv, FileCovered, Files, ProcType, NoCli
  <2> QED BY <2>1, CoveredKept DEF Keeps
<1>5. \A l \in Lists : CoveredThen(l, cli'.listed[l]) /\ CoveredThen(l, cli'.okayed[l])
  <2>1. \A l \in Lists : /\ cli.listed[l] \in Nat /\ cli.okayed[l] \in Nat
                         /\ Covered(l, cli.listed[l]) /\ Covered(l, cli.okayed[l])
    BY <1>1, <1>2 DEF CoveredInv, FileCovered, Files
  <2> QED BY <2>1, CoveredKept
<1>6. FileCovered(cli)'
  BY <1>5, FileThen DEF Drift
<1>7. ASSUME NEW p \in Procs, proc'[p].cmd \in Lists
      PROVE  AnswerThen(proc'[p].cmd, proc'[p].answer)
  <2>1. CASE proc'[p].answer = <<>>
    BY <2>1 DEF AnswerThen
  <2>2. CASE proc'[p].answer = proc[p].answer /\ proc'[p].cmd = proc[p].cmd
    <3>1. proc[p].answer \in Seq(EntryType)
      BY <1>2 DEF ProcType
    <3> QED BY <3>1, <2>2, <1>1, <1>7, AnswerKept DEF CoveredInv
  <2> QED BY <2>1, <2>2 DEF Keeps
<1>8. \A l \in Lists : Matching(Options(l))' = MatchingThen(Options(l))
  BY DEF Drift, Matching, MatchingThen, Options
<1>9. \A p \in Procs : FileCovered(proc[p].local)'
  BY <1>4, <1>8 DEF FileCovered, Covered, CoveredThen, Seen, SeenThen
<1>10. \A p \in Procs : proc'[p].cmd \in Lists => AnswerCovered(proc[p].cmd, proc[p].answer)'
  BY <1>7, <1>8 DEF AnswerCovered, AnswerThen, Seen, SeenThen, Holds, HoldsThen
<1> QED BY <1>6, <1>9, <1>10 DEF CoveredInv

LEMMA KeepsOwn ==
  ASSUME OwnNotices, UNCHANGED scene, \A p \in Procs : Keeps(p)
  PROVE  OwnNotices'
BY DEF OwnNotices, Keeps

LEMMA MovesOwn ==
  ASSUME NoticesTyped, OwnNotices, WaitsAndMoves
  PROVE  OwnNotices'
<1> SUFFICES ASSUME ~scene.admin, NEW p \in Procs, NEW i \in DOMAIN proc'[p].answer
             PROVE  proc'[p].answer[i].key.user \in {Public, scene.uid}
  BY DEF OwnNotices, WaitsAndMoves
<1>1. Moves(p)
  BY DEF WaitsAndMoves
<1>2. CASE proc'[p].answer = proc[p].answer
  BY <1>2 DEF OwnNotices
<1>3. CASE MayList /\ proc'[p].answer = ListNotices(Filter(p))
  <2>1. PICK k \in Matching(Filter(p)) : proc'[p].answer[i] = Entry(k)
    BY <1>3, TableTypes, ListIs DEF NoticesTyped
  <2>2. scene.asks = "own"
    BY <1>3 DEF MayList
  <2>3. Filter(p).all = FALSE /\ Filter(p).user = scene.uid
    BY <2>2 DEF Filter, Options
  <2>4. k.user \in {Public, scene.uid}
    BY <2>3 DEF Matching, Matches
  <2> QED BY <2>1, <2>4 DEF Entry
<1>4. ASSUME NEW k \in DOMAIN notices, NoticeViewableByUser(k), proc'[p].answer = <<Entry(k)>>
      PROVE  proc'[p].answer[i].key.user \in {Public, scene.uid}
  <2>1. proc'[p].answer[i] = Entry(k)
    BY <1>4
  <2> QED BY <2>1, <1>4 DEF NoticeViewableByUser, Entry
<1> QED BY <1>1, <1>2, <1>3, <1>4 DEF Moves

\* No step gives an identifier to two: it goes by it already, or the identifier is new.
LEMMA IdsStep ==
  ASSUME NoticesTyped, IdsInv, NEW new,
         lastNoticeId' = lastNoticeId \/ lastNoticeId' = lastNoticeId + 1,
         \A id \in Nat, k \in NoticeKeys :
           Named(id, k)' => \/ Named(id, k)
                            \/ id = lastNoticeId + 1 /\ k = new /\ id = lastNoticeId'
  PROVE  IdsInv'
<1>1. lastNoticeId \in Nat
  BY TableTypes
<1> SUFFICES ASSUME NEW id \in Nat, NEW j \in NoticeKeys, NEW k \in NoticeKeys,
                    Named(id, j)', Named(id, k)'
             PROVE  j = k /\ id <= lastNoticeId'
  BY DEF IdsInv
<1>2. CASE id = lastNoticeId + 1 /\ id = lastNoticeId'
  <2>1. ~Named(id, j) /\ ~Named(id, k)
    BY <1>1, <1>2 DEF IdsInv
  <2> QED BY <2>1, <1>2
<1>3. CASE ~(id = lastNoticeId + 1 /\ id = lastNoticeId')
  <2>1. Named(id, j) /\ Named(id, k)
    BY <1>3
  <2>2. j = k /\ id <= lastNoticeId
    BY <2>1 DEF IdsInv
  <2> QED BY <2>2, <1>1
<1> QED BY <1>2, <1>3

LEMMA MovesIds ==
  ASSUME NoticesTyped, IdsInv, WaitsAndMoves
  PROVE  IdsInv'
<1>1. UNCHANGED <<notices, disk, lastNoticeId>>
  BY DEF WaitsAndMoves, stateVars
<1>2. ASSUME NEW id \in Nat, NEW k \in NoticeKeys, Named(id, k)'
      PROVE  Named(id, k)
  <2>1. CASE (k \in DOMAIN notices' /\ notices'[k].id = id)
             \/ (k \in DOMAIN disk'.notices /\ disk'.notices[k].id = id)
    BY <1>1, <2>1 DEF Named
  <2>2. ASSUME NEW p \in Procs, NEW i \in DOMAIN proc'[p].answer,
               proc'[p].answer[i].id = id, proc'[p].answer[i].key = k
        PROVE  Named(id, k)
    <3>1. Moves(p)
      BY DEF WaitsAndMoves
    <3>2. CASE proc'[p].answer = proc[p].answer
      BY <2>2, <3>2 DEF Named
    <3>3. CASE proc'[p].answer = ListNotices(Filter(p))
      <4>1. PICK j \in Matching(Filter(p)) : proc'[p].answer[i] = Entry(j)
        BY <2>2, <3>3, TableTypes, ListIs DEF NoticesTyped
      <4> QED BY <2>2, <4>1 DEF Matching, FlattenNotices, Entry, Named
    <3>4. ASSUME NEW j \in DOMAIN notices, proc'[p].answer = <<Entry(j)>>
          PROVE  Named(id, k)
      <4>1. proc'[p].answer[i] = Entry(j)
        BY <2>2, <3>4
      <4> QED BY <2>2, <4>1 DEF Entry, Named
    <3> QED BY <2>2, <3>1, <3>2, <3>3, <3>4 DEF Moves
  <2> QED BY <1>2, <2>1, <2>2 DEF Named
<1> QED BY <1>1, <1>2, IdsStep

LEMMA KeepsIds ==
  ASSUME NoticesTyped, IdsInv, \A p \in Procs : Keeps(p), NEW new,
         \/ lastNoticeId' = lastNoticeId
         \/ lastNoticeId' = lastNoticeId + 1 /\ notices'[new].id = lastNoticeId + 1,
         \A k \in DOMAIN notices' :
           \/ k \in DOMAIN notices /\ notices'[k].id = notices[k].id
           \/ k \in DOMAIN disk.notices /\ notices'[k].id = disk.notices[k].id
           \/ k = new /\ lastNoticeId' = lastNoticeId + 1,
         \A k \in DOMAIN disk'.notices :
           \/ k \in DOMAIN notices' /\ disk'.notices[k].id = notices'[k].id
           \/ k \in DOMAIN notices /\ disk'.notices[k].id = notices[k].id
           \/ k \in DOMAIN disk.notices /\ disk'.notices[k].id = disk.notices[k].id
  PROVE  IdsInv'
<1>1. ASSUME NEW id \in Nat, NEW k \in NoticeKeys, Named(id, k)'
      PROVE  \/ Named(id, k)
             \/ id = lastNoticeId + 1 /\ k = new /\ id = lastNoticeId'
  <2>1. CASE k \in DOMAIN notices' /\ notices'[k].id = id
    BY <2>1, TableTypes DEF Named
  <2>2. CASE k \in DOMAIN disk'.notices /\ disk'.notices[k].id = id
    BY <2>1, <2>2 DEF Named
  <2>3. ASSUME NEW p \in Procs, NEW i \in DOMAIN proc'[p].answer,
               proc'[p].answer[i].id = id, proc'[p].answer[i].key = k
        PROVE  Named(id, k)
    <3>1. proc'[p].answer = proc[p].answer
      BY <2>3 DEF Keeps
    <3> QED BY <2>3, <3>1 DEF Named
  <2> QED BY <1>1, <2>1, <2>2, <2>3 DEF Named
<1> QED BY <1>1, IdsStep

(***************************************************************************)
(* A step of the state, and the theorems.                                  *)
(***************************************************************************)
\* A request goes on waiting when nothing new occurs.
LEMMA StillWaits ==
  ASSUME NoticesTyped, WaitInv, UNCHANGED scene,
         \A p \in Procs :
           \/ proc'[p].pc \notin Waits /\ ctx'[p] = "live"
           \/ /\ proc'[p] = proc[p] /\ ctx'[p] = ctx[p]
              /\ \A k \in FlattenNotices(notices', clock') : Stays(k)
  PROVE  WaitInv'
<1> SUFFICES ASSUME NEW p \in Procs PROVE WaitOf(p)'
  BY DEF WaitInv
<1>1. UNCHANGED scene
  OBVIOUS
<1>2. CASE proc'[p].pc \notin Waits /\ ctx'[p] = "live"
  BY <1>2 DEF WaitOf, Waits
<1>3. CASE /\ proc'[p] = proc[p] /\ ctx'[p] = ctx[p]
           /\ \A k \in FlattenNotices(notices', clock') : Stays(k)
  <2>1. MayList' = MayList /\ Filter(p)' = Filter(p)
    BY <1>1, <1>3 DEF MayList, Filter, Options
  <2>2. Matching(Filter(p))' \subseteq Matching(Filter(p))
    <3> SUFFICES ASSUME NEW k \in FlattenNotices(notices', clock'),
                        Matches(Filter(p)', k, notices'[k])
                 PROVE  k \in Matching(Filter(p))
      BY DEF Matching
    <3>1. k \in FlattenNotices(notices, clock) /\ notices'[k].lastRepeated = notices[k].lastRepeated
      BY <1>3 DEF Stays
    <3>2. Matches(Filter(p), k, notices[k])
      BY <3>1, <2>1 DEF Matches
    <3> QED BY <3>1, <3>2 DEF Matching
  <2>3. WaitOf(p)
    BY DEF WaitInv
  <2> QED BY <1>3, <2>1, <2>2, <2>3 DEF WaitOf
<1> QED BY <1>2, <1>3

\* Everybody who sleeps is woken: no request is left to sleep, and none is about to.
LEMMA AllWoken ==
  ASSUME NoticesTyped, WaitInv, lock = "free", Broadcast, UNCHANGED <<scene, ctx>>
  PROVE  WaitInv'
<1>1. proc \in [Procs -> ProcType] /\ "free" \notin Procs
      /\ \A p \in Procs : proc[p].pc # "registers"
  BY NoticesAssumption DEF NoticesTyped, NoticesTypeOK, NoticesAssumption
<1>2. \A p \in Procs : /\ proc'[p].cmd = proc[p].cmd /\ proc'[p].pc \notin {"registers", "asleep"}
                       /\ proc'[p].pc \in Waits <=> proc[p].pc \in Waits
  <2>1. \A p \in Procs : proc'[p].pc # "asleep"
    BY <1>1 DEF Broadcast
  <2> QED BY <2>1, <1>1, BroadcastIs DEF Waits
<1>3. MayList' = MayList
  BY DEF MayList
<1> QED BY <1>2, <1>3 DEF WaitInv, WaitOf

LEMMA AddNoticeStep ==
  ASSUME NoticesInv, NEW k \in NoticeKeys, Occurs(k), NEW r \in 0..ExpireAfter, AddNotice(k, r)
  PROVE  NoticesInv'
<1>1. NoticesTyped /\ DiskInv /\ WarningInv /\ IdsInv /\ OwnNotices /\ WaitInv
  BY DEF NoticesInv
<1>2. /\ NoticesTyped' /\ DiskInv' /\ WarningInv' /\ clock <= clock'
      /\ \A j \in FlattenNotices(notices', clock') : Stays(j) \/ Repeated(j)
      /\ \/ Broadcast
         \/ UNCHANGED proc /\ \A j \in FlattenNotices(notices', clock') : Stays(j)
  BY <1>1, AddNoticeKeeps
<1>3. lock = "free" /\ UNCHANGED <<scene, changes, lock, cli, ctx, shown, dropped>>
  BY DEF AddNotice
<1>4. /\ \A p \in Procs : Keeps(p)
      /\ shown \in [Lists -> [NoticeKeys -> Nat]]
  BY <1>1, <1>2, BroadcastIs DEF Keeps, NoticesTyped
<1>5. WaitInv'
  BY <1>1, <1>2, <1>3, AllWoken, StillWaits
<1>6. Drift
  BY <1>1, <1>2, <1>3, <1>4 DEF Drift
<1>7. CoveredInv'
  BY <1>3, <1>4, <1>6, DriftCovers
<1>8. OwnNotices'
  BY <1>1, <1>3, <1>4, KeepsOwn
<1>9. IdsInv'
  <2>1. /\ lastNoticeId' \in 0..clock' /\ clock' \in Nat /\ StateTable'
        /\ DOMAIN notices' = DOMAIN notices \cup {k}
        /\ \A j \in DOMAIN notices : j # k => notices'[j] = notices[j]
        /\ \/ /\ k \in DOMAIN notices /\ notices'[k].id = notices[k].id
              /\ lastNoticeId' = lastNoticeId
           \/ /\ k \notin DOMAIN notices /\ notices'[k].id = lastNoticeId + 1
              /\ lastNoticeId' = lastNoticeId + 1
        /\ disk' = Checkpoint(notices', lastNoticeId', clock')
    BY <1>1, AddNoticeIs
  <2>2. \A j \in DOMAIN disk'.notices : j \in DOMAIN notices' /\ disk'.notices[j] = notices'[j]
    BY <2>1, CheckpointIs
  <2> QED BY <1>1, <1>4, <2>1, <2>2, KeepsIds
<1> QED BY <1>2, <1>5, <1>7, <1>8, <1>9 DEF NoticesInv

LEMMA TickStep ==
  ASSUME NoticesInv, Tick
  PROVE  NoticesInv'
<1>1. NoticesTyped /\ DiskInv /\ WarningInv /\ IdsInv /\ OwnNotices /\ WaitInv
  BY DEF NoticesInv
<1>2. /\ NoticesTyped' /\ DiskInv' /\ WarningInv' /\ clock <= clock'
      /\ \A k \in FlattenNotices(notices', clock') : Stays(k)
  BY <1>1, TickKeeps
<1>3. UNCHANGED <<scene, lock, proc, ctx, cli, shown, notices, lastNoticeId, disk>>
  BY DEF Tick, procVars
<1>4. (\A p \in Procs : Keeps(p)) /\ shown \in [Lists -> [NoticeKeys -> Nat]]
  BY <1>1, <1>3 DEF Keeps, NoticesTyped
<1>5. WaitInv'
  BY <1>1, <1>2, <1>3, StillWaits
<1>6. Drift
  BY <1>1, <1>2, <1>3, <1>4 DEF Drift
<1>7. CoveredInv'
  BY <1>3, <1>4, <1>6, DriftCovers
<1>8. OwnNotices' /\ IdsInv'
  BY <1>1, <1>3, <1>4, KeepsOwn, KeepsIds
<1> QED BY <1>2, <1>5, <1>7, <1>8 DEF NoticesInv

LEMMA PruneStep ==
  ASSUME NoticesInv, Prune
  PROVE  NoticesInv'
<1>1. NoticesTyped /\ DiskInv /\ WarningInv /\ IdsInv /\ OwnNotices /\ WaitInv
  BY DEF NoticesInv
<1>2. /\ NoticesTyped' /\ DiskInv' /\ WarningInv'
      /\ UNCHANGED <<scene, clock, lock, procVars, lastNoticeId>>
      /\ \A k \in FlattenNotices(notices', clock') : Stays(k)
      /\ \A k \in DOMAIN notices' : k \in DOMAIN notices /\ notices'[k] = notices[k]
      /\ \A k \in DOMAIN disk'.notices :
           \/ k \in DOMAIN disk.notices /\ disk'.notices[k] = disk.notices[k]
           \/ k \in DOMAIN notices /\ disk'.notices[k] = notices[k]
  BY <1>1, PruneKeeps
<1>3. UNCHANGED <<proc, ctx, cli, shown>> /\ clock \in Nat
  BY <1>1, <1>2, TableTypes DEF procVars
<1>4. (\A p \in Procs : Keeps(p)) /\ shown \in [Lists -> [NoticeKeys -> Nat]]
  BY <1>1, <1>3 DEF Keeps, NoticesTyped
<1>5. WaitInv'
  BY <1>1, <1>2, <1>3, StillWaits
<1>6. Drift
  BY <1>1, <1>2, <1>3, <1>4 DEF Drift
<1>7. CoveredInv'
  BY <1>3, <1>4, <1>6, DriftCovers
<1>8. OwnNotices' /\ IdsInv'
  BY <1>1, <1>2, <1>4, KeepsOwn, KeepsIds
<1> QED BY <1>2, <1>5, <1>7, <1>8 DEF NoticesInv

LEMMA RestartStep ==
  ASSUME NoticesInv, Restart
  PROVE  NoticesInv'
<1>1. NoticesTyped /\ DiskInv /\ WarningInv /\ IdsInv /\ OwnNotices /\ WaitInv
  BY DEF NoticesInv
<1>2. /\ NoticesTyped' /\ DiskInv' /\ WarningInv'
      /\ UNCHANGED <<scene, clock, changes, disk, cli, shown, dropped, lastNoticeId>>
      /\ \A k \in FlattenNotices(notices', clock') : Stays(k) \/ BroughtBack(k)
      /\ \A k \in DOMAIN notices' : k \in DOMAIN disk.notices /\ notices'[k] = disk.notices[k]
      /\ \A p \in Procs :
           /\ Cut(p) => proc'[p] = Idle /\ ctx'[p] = "live"
           /\ ~Cut(p) => proc'[p] = proc[p] /\ ctx'[p] = ctx[p]
  BY <1>1, RestartKeeps
<1>3. clock \in Nat /\ shown \in [Lists -> [NoticeKeys -> Nat]]
  BY <1>1, TableTypes DEF NoticesTyped
<1>4. \A p \in Procs : Keeps(p)
  BY <1>2, IdleProc DEF Keeps
<1>5. \A p \in Procs : proc'[p].pc \notin Waits /\ ctx'[p] = "live"
  BY <1>1, <1>2, IdleProc DEF Cut, Waits, WaitInv, WaitOf
<1>6. WaitInv'
  BY <1>1, <1>2, <1>5, StillWaits
<1>7. Drift
  BY <1>1, <1>2, <1>3 DEF Drift
<1>8. CoveredInv'
  BY <1>2, <1>4, <1>7, DriftCovers
<1>9. OwnNotices' /\ IdsInv'
  BY <1>1, <1>2, <1>4, KeepsOwn, KeepsIds
<1> QED BY <1>2, <1>6, <1>8, <1>9 DEF NoticesInv

LEMMA RequestStepKeeps ==
  ASSUME NoticesInv, NEW p \in Procs, RequestStep(p)
  PROVE  NoticesInv'
<1>1. NoticesTyped /\ DiskInv /\ WarningInv /\ IdsInv /\ OwnNotices
  BY DEF NoticesInv
<1>2. WaitsAndMoves /\ CoveredInv'
  BY RequestKeeps
<1>3. NoticesTyped' /\ WaitInv' /\ UNCHANGED <<notices, clock, disk, dropped, latestWarning>>
  BY <1>2 DEF WaitsAndMoves, stateVars
<1>4. DiskInv' /\ WarningInv'
  BY <1>1, <1>3 DEF DiskInv, WarningInv, FlattenNotices, Expired
<1>5. OwnNotices' /\ IdsInv'
  BY <1>1, <1>2, MovesOwn, MovesIds
<1> QED BY <1>2, <1>3, <1>4, <1>5 DEF NoticesInv

LEMMA NoticesInitInv == NoticesInit => NoticesInv
<1> SUFFICES ASSUME NoticesInit PROVE NoticesInv
  OBVIOUS
<1>1. /\ scene \in NoticeScenes /\ clock = 0 /\ notices = <<>> /\ lastNoticeId = 0
      /\ latestWarning = 0 /\ changes \subseteq scene.keys
      /\ disk = [notices |-> <<>>, last |-> 0] /\ lock = "free" /\ cli = NoCli
      /\ proc = [p \in Procs |-> Idle] /\ ctx = [p \in Procs |-> "live"]
      /\ shown = [l \in Lists |-> [k \in NoticeKeys |-> 0]]
      /\ dropped = [k \in NoticeKeys |-> 0]
  BY DEF NoticesInit
<1>2. /\ DOMAIN notices = {} /\ DOMAIN disk.notices = {} /\ disk.last = 0
      /\ changes \subseteq NoticeKeys /\ MaxClock \in Nat /\ "free" \notin Procs
  BY <1>1, NoticesAssumption DEF NoticesAssumption
<1>3. \A p \in Procs : proc[p] = Idle /\ ctx[p] = "live"
  BY <1>1
<1>4. /\ proc \in [Procs -> ProcType] /\ ctx \in [Procs -> {"live", "done", "called"}]
      /\ cli \in Files
  BY <1>1, IdleProc DEF NoCli, Files
<1>5. shown \in [Lists -> [NoticeKeys -> Nat]] /\ dropped \in [NoticeKeys -> Nat]
  BY <1>1
<1>6. NoticesTypeOK
  BY <1>1, <1>2, <1>3, IdleProc DEF NoticesTypeOK
<1>7. NoticesTyped
  BY <1>1, <1>2, <1>4, <1>5, <1>6 DEF NoticesTyped, StateTable, Table
<1>8. DiskInv /\ WarningInv
  BY <1>2 DEF DiskInv, WarningInv, FlattenNotices
<1>9. IdsInv /\ OwnNotices
  BY <1>2, <1>3, IdleProc DEF IdsInv, Named, OwnNotices
<1>10. WaitInv
  BY <1>3, IdleProc DEF WaitInv, WaitOf, Waits
<1>11. \A l \in Lists, time \in {0} : Covered(l, time)
  BY <1>1, <1>2 DEF Covered, Matching, FlattenNotices
<1>12. CoveredInv
  <2>1. FileCovered(NoCli)
    BY <1>11 DEF FileCovered, NoCli
  <2> QED BY <1>1, <1>3, <2>1, IdleProc DEF CoveredInv, AnswerCovered
<1> QED BY <1>7, <1>8, <1>9, <1>10, <1>12 DEF NoticesInv

LEMMA NoticesStep == NoticesInv /\ [NoticesNext]_noticeVars => NoticesInv'
<1> SUFFICES ASSUME NoticesInv, [NoticesNext]_noticeVars PROVE NoticesInv'
  OBVIOUS
<1>1. NoticesTyped /\ scene.keys \subseteq NoticeKeys /\ scene.procs \subseteq Procs
  BY NoticesAssumption DEF NoticesInv, NoticesTyped, NoticesAssumption
<1>2. ASSUME NEW k \in scene.keys, Notify(k) \/ Warnf(k) \/ NotifyStatusChange(k)
      PROVE  NoticesInv'
  BY <1>1, <1>2, OccurrenceIs, AddNoticeStep
<1>3. CASE Tick
  BY <1>3, TickStep
<1>4. CASE Prune
  BY <1>4, PruneStep
<1>5. CASE Restart
  BY <1>5, RestartStep
<1>6. ASSUME NEW p \in scene.procs,
             Command(p) \/ Sleep(p) \/ ContextDone(p) \/ AfterFunc(p) \/ Wake(p)
      PROVE  NoticesInv'
  BY <1>1, <1>6, RequestStepKeeps DEF RequestStep
<1>7. CASE UNCHANGED noticeVars
  BY <1>7
  DEF noticeVars, procVars, stateVars, NoticesInv, NoticesTyped, NoticesTypeOK, StateTable, Table,
      DiskInv, WarningInv, IdsInv, Named, OwnNotices, WaitInv, WaitOf, MayList, Filter, Options,
      Matching, FlattenNotices, Expired, Matches, CoveredInv, FileCovered, Covered, AnswerCovered,
      Seen, Holds
<1> QED BY <1>2, <1>3, <1>4, <1>5, <1>6, <1>7 DEF NoticesNext

LEMMA NoticesInvImplies == NoticesInv => NoticesSound /\ NobodyOversleeps
<1> SUFFICES ASSUME NoticesInv PROVE NoticesSound /\ NobodyOversleeps
  OBVIOUS
<1>1. NoticesTyped /\ WarningInv /\ IdsInv /\ OwnNotices /\ WaitInv /\ CoveredInv
  BY DEF NoticesInv
<1>2. SilencedWereShown
  BY <1>1 DEF SilencedWereShown, Silenced, CoveredInv, FileCovered, Covered, Matching, Seen
<1>3. WarningsAnnounced
  <2> SUFFICES ASSUME NEW k \in FlattenNotices(notices, clock), k.type = "warning",
                      notices[k].lastRepeated > cli.listed["warnings"]
               PROVE  latestWarning > cli.listed["warnings"]
    BY DEF WarningsAnnounced, PresentsWarnings
  <2>1. notices[k].lastRepeated \in Nat /\ latestWarning \in Nat /\ cli.listed["warnings"] \in Nat
    BY <1>1, TableTypes
    DEF FlattenNotices, NoticesTyped, StateTable, Table, Files, Lists
  <2>2. notices[k].lastRepeated <= latestWarning
    BY <1>1 DEF WarningInv
  <2> QED BY <2>1, <2>2
<1>4. IdsUnique
  <2>1. \A k \in DOMAIN notices : k \in NoticeKeys /\ notices[k].id \in Nat
    BY <1>1 DEF NoticesTyped, StateTable, Table
  <2>2. \A p \in Procs : \A i \in DOMAIN proc[p].answer :
          proc[p].answer[i].key \in NoticeKeys /\ proc[p].answer[i].id \in Nat
    <3> SUFFICES ASSUME NEW p \in Procs, NEW i \in DOMAIN proc[p].answer
                 PROVE  proc[p].answer[i].key \in NoticeKeys /\ proc[p].answer[i].id \in Nat
      OBVIOUS
    <3>1. proc[p].answer \in Seq(EntryType)
      BY <1>1 DEF NoticesTyped, ProcType
    <3>2. proc[p].answer[i] \in EntryType
      BY <3>1
    <3> QED BY <3>2 DEF EntryType
  <2>3. \A k \in DOMAIN notices : Named(notices[k].id, k)
    BY DEF Named
  <2>4. \A p \in Procs : \A i \in DOMAIN proc[p].answer :
          Named(proc[p].answer[i].id, proc[p].answer[i].key)
    BY DEF Named
  <2> QED BY <1>1, <2>1, <2>2, <2>3, <2>4 DEF IdsUnique, IdsInv
<1>5. NobodyOversleeps
  BY <1>1, ListOf DEF NobodyOversleeps, WaitInv, WaitOf
<1> QED BY <1>1, <1>2, <1>3, <1>4, <1>5 DEF NoticesSound, NoticesTyped

\* The notices and the file of the command line are right together: what "okay" acknowledged
\* was shown since its last repetition (cmd_okay.go, cmd_notices.go: the last of the list is
\* what is remembered), or Prune had dropped it to keep MaxNotices (state.go) and a restart
\* brought it back; a warning that no list has shown is announced at the end of the next
\* command (cmd.go maybePresentWarnings); identifiers are given once, over restarts too; and
\* who is not an administrator gets its own notices and the public ones (api_notices.go).
THEOREM NoticesCorrect == NoticesSpec => []NoticesSound
<1> QED BY NoticesInitInv, NoticesStep, NoticesInvImplies, PTL DEF NoticesSpec

\* WaitNotices (state/notices.go) does not sleep while the state holds a notice it asks for,
\* nor after the function of its context took the lock to wake it: whatever occurs between
\* the list it read and its cond.Wait is behind the lock.
THEOREM SleepersWoken == NoticesSpec => []NobodyOversleeps
<1> QED BY NoticesInitInv, NoticesStep, NoticesInvImplies, PTL DEF NoticesSpec

(***************************************************************************)
(* A build-test request.                                                   *)
(***************************************************************************)
BuildOver == status["build"] \in {"Done", "Undo"}

\* A task has a goroutine only while it is to be done, and the run task begins after the
\* build.
StatusInv ==
  /\ \A t \in Task : handler[t].pc # "none" => status[t] \in {"Doing", "Abort"}
  /\ status["run"] \in {"Doing", "Abort", "Undo", "Done", "Error"} => BuildOver
  /\ clean # {} => Ready

\* Where a handler has an execution, which no other has.
HandlerInv ==
  /\ \A t \in Task :
       /\ handler[t].execution \in 0 .. Len(execution)
       /\ handler[t].pc \in {"connect", "start", "running", "exited", "clean"}
            => handler[t].execution # 0
       /\ handler[t].pc \in {"none", "begin", "extract", "register"} => handler[t].execution = 0
  /\ handler["build"].execution = handler["run"].execution => handler["run"].execution = 0
  /\ handler["run"].pc \notin {"extract", "clean"}
  /\ handler["build"].pc = "clean" => setup.retries < MaxBuildRetries

\* Without a restart of the daemon, a build that is over has built the tree.
BuiltInv ==
  restarts = 0 =>
    /\ setup.known \/ "build" \in clean
    /\ handler["build"].pc = "exited" /\ handler["build"].ok => tree = "built"
    /\ handler["build"].pc = "return" => tree = "built"
    /\ BuildOver /\ "run" \notin clean => tree = "built"

\* The statuses that the tasks go through when nobody aborts the change
NotAborted ==
  <<status["build"], status["run"]>> \in
    {<<"Do", "Do">>, <<"Doing", "Do">>, <<"Done", "Do">>, <<"Done", "Doing">>,
     <<"Done", "Done">>, <<"Undo", "Error">>, <<"Done", "Error">>, <<"Error", "Hold">>}

\* The client has seen the end of the change.
Reported == client.result = "ok" \/ (client.todo # <<>> /\ Step.do = "flush")

RanInv ==
  /\ handler["run"].pc \in {"running", "exited", "return"} => spread # "not run"
  /\ status["run"] \in {"Undo", "Done"} => spread # "not run"
  /\ aborts = 0 => NotAborted
  /\ aborts = 0 /\ Reported => status["run"] = "Done"

\* Who flushes has waited before, and who asks for the run's stdio may ask for its stderr.
InOrder(todo) ==
  \A i \in 1 .. Len(todo) :
    /\ todo[i].do = "flush" <=> i = Len(todo)
    /\ todo[i].do = "wait" <=> i = Len(todo) - 1
    /\ opts.interactive /\ opts.stderr /\ todo[i].do = "connect"
         => (todo[i].task = "run" /\ todo[i].socket = "stdio" => todo[i + 1].do = "connect")

\* Streams that are served and not ended are in the hands of a handler.
StreamsInv ==
  \A x \in 1 .. Len(execution) :
    execution[x].served # execution[x].ended =>
      \E t \in Task : handler[t].execution = x
                      /\ handler[t].pc \in {"start", "running", "exited"}

FoundInv ==
  /\ client.found \in 0 .. Len(execution)
  /\ \A t \in Task : registered[t] \in 0 .. Len(execution)

BuildInv ==
  /\ TypeOK /\ StatusInv /\ HandlerInv /\ BuiltInv /\ RanInv /\ InOrder(client.todo)
  /\ StreamsInv /\ FoundInv /\ RunNeedsBuild

(***************************************************************************)
(* What a handler does before it returns.                                  *)
(***************************************************************************)
Works(t) ==
  \/ Begin(t) \/ Extract(t) \/ Register(t) \/ Connected(t) \/ ConnectTimeout(t)
  \/ Cancelled(t) \/ StartCommand(t) \/ StartFails(t) \/ \E ok \in BOOLEAN : Exits(t, ok)
  \/ OutputSent(t) \/ CleanAndRetry(t)

HandlerRecord == [pc: Point, dying: BOOLEAN, execution: Nat, ok: BOOLEAN]

LEMMA HandlerTyped == TypeOK => handler \in [Task -> HandlerRecord]
BY DEF TypeOK, HandlerRecord

LEMMA ExecutionTyped == TypeOK => execution \in Seq(Execution) /\ Len(execution) \in Nat
<1>1. TypeOK => execution \in Seq(Execution)
  BY DEF TypeOK
<1> QED BY <1>1

LEMMA WorksUnchanged ==
  ASSUME NEW t \in Task, Works(t)
  PROVE  HandlerUnchanged
BY DEF Works, Begin, Extract, Register, Connected, ConnectTimeout, Cancelled, StartCommand,
       StartFails, Exits, OutputSent, CleanAndRetry

LEMMA WorksMoves ==
  ASSUME TypeOK, NEW t \in Task, Works(t)
  PROVE  /\ handler' \in [Task -> HandlerRecord]
         /\ \A u \in Task \ {t} : handler'[u] = handler[u]
         /\ handler[t].pc \notin {"none", "return", "return error"}
         /\ handler'[t].pc \notin {"none", "begin"}
<1>1. handler \in [Task -> HandlerRecord]
  BY HandlerTyped
<1>2. /\ handler[t].pc \notin {"none", "return", "return error"}
      /\ \/ \E p \in Point \ {"none", "begin"} : handler' = [handler EXCEPT ![t].pc = p]
         \/ \E ok \in BOOLEAN : handler' = [handler EXCEPT ![t].pc = "exited", ![t].ok = ok]
         \/ handler' = [handler EXCEPT ![t].pc = "connect",
                                       ![t].execution = Len(execution) + 1]
  <2>1. CASE Begin(t) \/ ConnectTimeout(t) \/ Cancelled(t)
    BY <2>1 DEF Begin, ConnectTimeout, Cancelled, At, Goes, Point
  <2>2. CASE Extract(t) \/ Connected(t) \/ StartCommand(t) \/ StartFails(t)
    BY <2>2 DEF Extract, Connected, StartCommand, StartFails, At, Goes, Point
  <2>3. CASE OutputSent(t)
    BY <2>3 DEF OutputSent, AfterExit, At, Goes, Point
  <2>4. CASE Register(t) \/ CleanAndRetry(t)
    BY <2>4 DEF Register, CleanAndRetry, RegisterExecution, At
  <2>5. CASE \E ok \in BOOLEAN : Exits(t, ok)
    BY <2>5 DEF Exits, At
  <2> QED BY <2>1, <2>2, <2>3, <2>4, <2>5 DEF Works
<1>3. Len(execution) + 1 \in Nat
  BY ExecutionTyped
<1>4. CASE \E p \in Point \ {"none", "begin"} : handler' = [handler EXCEPT ![t].pc = p]
  <2>1. PICK p \in Point \ {"none", "begin"} : handler' = [handler EXCEPT ![t].pc = p]
    BY <1>4
  <2>2. handler'[t] = [handler[t] EXCEPT !.pc = p]
    BY <1>1, <2>1
  <2>3. \A u \in Task \ {t} : handler'[u] = handler[u]
    BY <1>1, <2>1
  <2>4. DOMAIN handler' = Task /\ handler' = [u \in Task |-> handler'[u]]
    BY <1>1, <2>1
  <2>5. handler[t] \in HandlerRecord
    BY <1>1
  <2>6. handler'[t] \in HandlerRecord /\ handler'[t].pc = p
    BY <2>2, <2>5 DEF HandlerRecord
  <2> QED BY <2>3, <2>4, <2>6, <1>1, <1>2
<1>5. CASE \E ok \in BOOLEAN : handler' = [handler EXCEPT ![t].pc = "exited", ![t].ok = ok]
  <2>1. PICK ok \in BOOLEAN : handler' = [handler EXCEPT ![t].pc = "exited", ![t].ok = ok]
    BY <1>5
  <2>2. handler'[t] = [handler[t] EXCEPT !.pc = "exited", !.ok = ok]
    BY <1>1, <2>1, Zenon
  <2>3. \A u \in Task \ {t} : handler'[u] = handler[u]
    BY <1>1, <2>1, Zenon
  <2>4. DOMAIN handler' = Task /\ handler' = [u \in Task |-> handler'[u]]
    BY <1>1, <2>1
  <2>5. handler[t] \in HandlerRecord
    BY <1>1
  <2>6. handler'[t] \in HandlerRecord /\ handler'[t].pc = "exited"
    BY <2>2, <2>5 DEF HandlerRecord, Point
  <2> QED BY <2>3, <2>4, <2>6, <1>1, <1>2
<1>6. CASE handler' = [handler EXCEPT ![t].pc = "connect", ![t].execution = Len(execution) + 1]
  BY <1>1, <1>2, <1>3, <1>6 DEF HandlerRecord, Point
<1> QED BY <1>2, <1>4, <1>5, <1>6

LEMMA Typed ==
  TypeOK => /\ status \in [Task -> Status] /\ clean \subseteq Task
            /\ tree \in Tree /\ spread \in Tree \cup {"not run"}
            /\ setup \in [known: BOOLEAN, retries: 0 .. MaxBuildRetries]
            /\ aborts \in Nat /\ restarts \in Nat /\ client \in Client
            /\ opts \in [interactive: BOOLEAN, terminal: BOOLEAN, stdout: BOOLEAN,
                         stderr: BOOLEAN, timeout: BOOLEAN]
<1> SUFFICES ASSUME TypeOK
    PROVE  /\ status \in [Task -> Status] /\ clean \subseteq Task
           /\ tree \in Tree /\ spread \in Tree \cup {"not run"}
           /\ setup \in [known: BOOLEAN, retries: 0 .. MaxBuildRetries]
           /\ aborts \in Nat /\ restarts \in Nat /\ client \in Client
           /\ opts \in [interactive: BOOLEAN, terminal: BOOLEAN, stdout: BOOLEAN,
                        stderr: BOOLEAN, timeout: BOOLEAN]
  OBVIOUS
<1>1. /\ status \in [Task -> Status] /\ clean \subseteq Task
      /\ tree \in Tree /\ spread \in Tree \cup {"not run"}
      /\ setup \in [known: BOOLEAN, retries: 0 .. MaxBuildRetries]
      /\ client \in Client
  BY Zenon DEF TypeOK
<1>2. aborts \in 0 .. MaxAborts /\ restarts \in 0 .. MaxRestarts /\ opts \in RequestOptions
  BY Zenon DEF TypeOK
<1>3. aborts \in Nat /\ restarts \in Nat
  BY <1>2, BuildTestAssumption DEF BuildTestAssumption
<1>4. RequestOptions \subseteq [interactive: BOOLEAN, terminal: BOOLEAN, stdout: BOOLEAN,
                        stderr: BOOLEAN, timeout: BOOLEAN]
  BY BuildTestAssumption DEF BuildTestAssumption
<1>5. opts \in [interactive: BOOLEAN, terminal: BOOLEAN, stdout: BOOLEAN,
               stderr: BOOLEAN, timeout: BOOLEAN]
  BY <1>2, <1>4, Zenon
<1> QED BY <1>1, <1>3, <1>5

(***************************************************************************)
(* The statuses.                                                           *)
(***************************************************************************)
LEMMA StatusKept ==
  ASSUME TypeOK, StatusInv, Next
  PROVE  StatusInv'
<1>1. handler \in [Task -> HandlerRecord] /\ status \in [Task -> Status] /\ clean \subseteq Task
  BY HandlerTyped, Typed
<1> USE DEF StatusInv, BuildOver, Ready, IsReady, Task, Status
<1>2. CASE \E t \in Task : EnsureRun(t)
  BY <1>1, <1>2 DEF EnsureRun, MayBegin, MustWait, HandlerRecord
<1>3. CASE \E t \in Task : EnsureKill(t)
  <2>1. PICK t \in Task : EnsureKill(t)
    BY <1>3
  <2>2. \A u \in Task : handler'[u].pc = handler[u].pc
    BY <1>1, <2>1 DEF EnsureKill
  <2> QED BY <2>1, <2>2 DEF EnsureKill, changeVars
<1>4. CASE \E t \in Task : EnsureTryUndo(t)
  BY <1>1, <1>4 DEF EnsureTryUndo, MayBegin
<1>5. CASE \E t \in Task : EnsureCannotUndo(t)
  BY <1>1, <1>5 DEF EnsureCannotUndo, MayBegin
<1>6. CASE \E t \in Task : Cleanup(t)
  BY <1>1, <1>6 DEF Cleanup, MayBegin
<1>7. CASE Abort
  BY <1>1, <1>7 DEF Abort, Aborted, AbortedStatus
<1>8. CASE \E t \in Task : HandlerReturns(t)
  <2>1. PICK t \in Task : HandlerReturns(t)
    BY <1>8
  <2>2. handler' = [handler EXCEPT ![t] = NoHandler] /\ clean' = clean
        /\ status[t] \in {"Doing", "Abort"} /\ clean = {}
    BY <1>1, <2>1 DEF HandlerReturns
  <2>3. CASE status' = Succeeded(t)
    BY <1>1, <2>2, <2>3 DEF Succeeded, NoHandler
  <2>4. CASE status' = Retried(t)
    BY <1>1, <2>2, <2>4 DEF Retried, NoHandler
  <2>5. CASE status' = Errored(t)
    BY <1>1, <2>2, <2>5 DEF Errored, Aborted, AbortedStatus, NoHandler
  <2> QED BY <2>1, <2>3, <2>4, <2>5 DEF HandlerReturns
<1>9. CASE \E t \in Task : Works(t)
  BY <1>1, <1>9, WorksMoves, WorksUnchanged DEF HandlerUnchanged, changeVars
<1>10. CASE ClientActs
  BY <1>10 DEF ClientActs, FindExecution, ChangeReady, Connect, Poll, WaitChange, Flush,
       ClientUnchanged, changeVars
<1>11. CASE Stop
  BY <1>1, <1>11 DEF Stop, HandlerRecord, changeVars
<1>12. CASE DaemonRestart
  BY <1>1, <1>12 DEF DaemonRestart, NoHandler, changeVars
<1> QED BY <1>2, <1>3, <1>4, <1>5, <1>6, <1>7, <1>8, <1>9, <1>10, <1>11, <1>12
        DEF Next, Engine, Handler, Works

(***************************************************************************)
(* The executions.                                                         *)
(***************************************************************************)
LEMMA Registered ==
  ASSUME TypeOK, NEW t \in Task, RegisterExecution(t)
  PROVE  /\ execution' \in Seq(Execution) /\ Len(execution') = Len(execution) + 1
         /\ \A x \in 1 .. Len(execution) : execution'[x] = execution[x]
         /\ execution'[Len(execution) + 1].served = {}
         /\ execution'[Len(execution) + 1].ended = {}
         /\ handler'[t].pc = "connect" /\ handler'[t].execution = Len(execution) + 1
         /\ \A u \in Task \ {t} : handler'[u] = handler[u]
<1>1. PICK new : new = NewExecution(t)
  OBVIOUS
<1>2. new \in Execution /\ new.served = {} /\ new.ended = {}
  BY <1>1 DEF NewExecution, Execution, Expected, Socket
<1>3. execution' = Append(execution, new)
  BY <1>1 DEF RegisterExecution
<1>4. /\ execution' \in Seq(Execution) /\ Len(execution') = Len(execution) + 1
      /\ \A x \in 1 .. Len(execution) : execution'[x] = execution[x]
      /\ execution'[Len(execution) + 1] = new
  BY <1>2, <1>3, ExecutionTyped, AppendProperties
<1>5. /\ handler'[t].pc = "connect" /\ handler'[t].execution = Len(execution) + 1
      /\ \A u \in Task \ {t} : handler'[u] = handler[u]
  BY HandlerTyped DEF RegisterExecution, HandlerRecord
<1> QED BY <1>2, <1>4, <1>5

\* An execution is as it was, but for the streams that are served.
LEMMA ServedOnly ==
  ASSUME TypeOK, NEW t \in Task, NEW sockets \in SUBSET Socket, Serve(t, sockets)
  PROVE  /\ execution' \in Seq(Execution) /\ Len(execution') = Len(execution)
         /\ \A x \in 1 .. Len(execution) :
              x # handler[t].execution => execution'[x] = execution[x]
<1>1. PICK x : x = handler[t].execution
  OBVIOUS
<1>2. execution \in Seq(Execution) /\ execution' = [execution EXCEPT ![x].served = sockets]
  BY <1>1, ExecutionTyped DEF Serve
<1>3. CASE x \in 1 .. Len(execution)
  <2>1. execution[x] \in Execution
    BY <1>2, <1>3
  <2>2. PICK e : e = [execution[x] EXCEPT !.served = sockets]
    OBVIOUS
  <2>3. e \in Execution
    BY <2>1, <2>2 DEF Execution
  <2>4. execution' = [execution EXCEPT ![x] = e]
    BY <1>2, <2>2
  <2> QED BY <2>3, <2>4, <1>1, <1>2, <1>3, ExceptSeq
<1>4. CASE x \notin 1 .. Len(execution)
  <2>1. execution' = execution
    BY <1>2, <1>4
  <2> QED BY <2>1, <1>1, <1>2, <1>4
<1> QED BY <1>3, <1>4

LEMMA EndedOnly ==
  ASSUME TypeOK, NEW t \in Task, EndStreams(t)
  PROVE  /\ execution' \in Seq(Execution) /\ Len(execution') = Len(execution)
         /\ \A x \in 1 .. Len(execution) :
              /\ execution'[x].served = execution[x].served
              /\ IF x = handler[t].execution THEN execution'[x].ended = execution[x].served
                 ELSE execution'[x].ended = execution[x].ended
<1>1. PICK x : x = handler[t].execution
  OBVIOUS
<1>2. /\ execution \in Seq(Execution)
      /\ execution' = [execution EXCEPT ![x].ended = execution[x].served]
  BY <1>1, ExecutionTyped DEF EndStreams
<1>3. CASE x \in 1 .. Len(execution)
  <2>1. execution[x] \in Execution
    BY <1>2, <1>3
  <2>2. PICK e : e = [execution[x] EXCEPT !.ended = execution[x].served]
    OBVIOUS
  <2>3. e \in Execution /\ e.served = execution[x].served /\ e.ended = execution[x].served
    BY <2>1, <2>2 DEF Execution
  <2>4. execution' = [execution EXCEPT ![x] = e]
    BY <1>2, <2>2
  <2>5. /\ execution' \in Seq(Execution) /\ Len(execution') = Len(execution)
        /\ \A y \in 1 .. Len(execution) : execution'[y] = IF y = x THEN e ELSE execution[y]
    BY <2>3, <2>4, <1>2, <1>3, ExceptSeq
  <2> QED BY <2>3, <2>5, <1>1
<1>4. CASE x \notin 1 .. Len(execution)
  <2>1. execution' = execution
    BY <1>2, <1>4
  <2> QED BY <2>1, <1>1, <1>2, <1>4
<1> QED BY <1>3, <1>4

LEMMA Opened ==
  ASSUME TypeOK, ClientActs
  PROVE  /\ execution' \in Seq(Execution) /\ Len(execution') = Len(execution)
         /\ \A x \in 1 .. Len(execution) :
              execution'[x].served = execution[x].served /\ execution'[x].ended = execution[x].ended
<1>1. execution \in Seq(Execution)
  BY ExecutionTyped
<1>2. CASE execution' = execution
  BY <1>1, <1>2
<1>3. ASSUME execution' # execution PROVE Connect
  BY <1>3 DEF ClientActs, FindExecution, ChangeReady, Poll, WaitChange, Flush
<1>4. CASE execution' # execution
  <2>1. PICK x, s : x = client.found /\ s = Step.socket
    OBVIOUS
  <2>2. /\ s \in execution[x].sockets
        /\ execution' = [execution EXCEPT ![x].open = @ \cup {s}]
    BY <2>1, <1>3, <1>4 DEF Connect
  <2>3. CASE x \in 1 .. Len(execution)
    <3>1. execution[x] \in Execution
      BY <1>1, <2>3
    <3>2. PICK e : e = [execution[x] EXCEPT !.open = @ \cup {s}]
      OBVIOUS
    <3>3. /\ e \in Execution /\ e.served = execution[x].served
          /\ e.ended = execution[x].ended
      BY <3>1, <3>2, <2>2 DEF Execution
    <3>4. execution' = [execution EXCEPT ![x] = e]
      BY <2>2, <3>2
    <3>5. /\ execution' \in Seq(Execution) /\ Len(execution') = Len(execution)
          /\ \A y \in 1 .. Len(execution) : execution'[y] = IF y = x THEN e ELSE execution[y]
      BY <3>3, <3>4, <1>1, <2>3, ExceptSeq
    <3> QED BY <3>3, <3>5
  <2>4. CASE x \notin 1 .. Len(execution)
    BY <1>1, <1>4, <2>2, <2>4
  <2> QED BY <2>3, <2>4
<1> QED BY <1>2, <1>4

LEMMA Went ==
  ASSUME TypeOK, NEW t \in Task, NEW p, Goes(t, p)
  PROVE  handler'[t].pc = p /\ handler'[t].execution = handler[t].execution
BY HandlerTyped DEF Goes, HandlerRecord

\* The runner that stops kills the handlers, which have what they had.
LEMMA Dies ==
  ASSUME TypeOK, Stop
  PROVE  /\ handler' \in [Task -> HandlerRecord]
         /\ \A u \in Task : /\ handler'[u].pc = handler[u].pc
                           /\ handler'[u].execution = handler[u].execution
                           /\ handler'[u].ok = handler[u].ok
<1>1. handler \in [Task -> HandlerRecord]
  BY HandlerTyped
<1>2. ASSUME NEW u \in Task
      PROVE  /\ handler'[u] \in HandlerRecord
             /\ handler'[u].pc = handler[u].pc /\ handler'[u].execution = handler[u].execution
             /\ handler'[u].ok = handler[u].ok
  <2>1. handler[u] \in HandlerRecord
    BY <1>1
  <2>2. PICK b : b = (handler[u].pc # "none")
    OBVIOUS
  <2>3. handler'[u] = [handler[u] EXCEPT !.dying = b] /\ b \in BOOLEAN
    BY <2>2, Zenon DEF Stop
  <2> QED BY <2>1, <2>3 DEF HandlerRecord
<1>3. DOMAIN handler' = Task /\ handler' = [u \in Task |-> handler'[u]]
  BY DEF Stop
<1> QED BY <1>2, <1>3

\* The steps of a handler that leave the executions where they are.
LEMMA WorksOn ==
  ASSUME TypeOK, HandlerInv, NEW t \in Task, Works(t)
  PROVE  \/ RegisterExecution(t) /\ handler[t].pc \in {"register", "clean"}
         \/ /\ execution' \in Seq(Execution) /\ Len(execution') = Len(execution)
            /\ handler'[t].execution = handler[t].execution
            /\ handler'[t].pc = "register" => handler[t].pc \in {"begin", "extract"}
            /\ handler'[t].pc = "extract" => t = "build" /\ handler[t].pc = "begin"
            /\ handler'[t].pc = "clean" => /\ t = "build" /\ handler[t].pc = "exited"
                                           /\ setup.retries < MaxBuildRetries
            /\ handler'[t].pc # "connect"
            /\ handler'[t].pc \in {"start", "running", "exited", "clean"}
                 => handler[t].pc \in {"connect", "start", "running", "exited"}
<1>1. handler \in [Task -> HandlerRecord] /\ execution \in Seq(Execution)
  BY HandlerTyped, ExecutionTyped
<1>2. CASE Begin(t)
  <2>1. PICK p : /\ p \in {"register", "extract", "return"}
                 /\ p = "extract" => t = "build"
                 /\ Goes(t, p)
    BY <1>2 DEF Begin, Task
  <2>2. handler'[t].pc = p /\ handler'[t].execution = handler[t].execution
    BY <2>1, Went
  <2>3. execution' = execution /\ handler[t].pc = "begin"
    BY <1>2 DEF Begin, At
  <2>4. handler'[t].pc \in {"register", "extract", "return"}
    BY <2>1, <2>2
  <2>5. handler'[t].pc = "extract" => t = "build"
    BY <2>1, <2>2
  <2> HIDE <2>1
  <2> QED BY <2>2, <2>3, <2>4, <2>5, <1>1
<1>3. CASE Extract(t)
  <2>1. PICK p \in {"register", "return error"} : Goes(t, p)
    BY <1>3 DEF Extract
  <2>2. handler'[t].pc = p /\ handler'[t].execution = handler[t].execution
    BY <2>1, Went
  <2>3. execution' = execution /\ handler[t].pc = "extract"
    BY <1>3 DEF Extract, At
  <2> HIDE <2>1
  <2>4. handler'[t].pc \in {"register", "return error"}
    BY <2>1, <2>2
  <2> QED BY <2>2, <2>3, <2>4, <1>1
<1>4. CASE Register(t) \/ CleanAndRetry(t)
  BY <1>4 DEF Register, CleanAndRetry, At
<1>5. CASE Connected(t)
  <2>1. PICK x : x = handler[t].execution
    OBVIOUS
  <2>2. x \in 1 .. Len(execution)
    BY <1>1, <1>5, <2>1 DEF HandlerInv, Connected, At
  <2>3. execution[x] \in Execution
    BY <1>1, <2>2
  <2>4. Served(x) \in SUBSET Socket
    BY <2>3 DEF Served, Execution, Socket
  <2>5. execution' \in Seq(Execution) /\ Len(execution') = Len(execution)
    BY <1>5, <2>1, <2>4, ServedOnly DEF Connected
  <2>6. handler'[t].pc = "start" /\ handler'[t].execution = handler[t].execution
    BY <1>5, Went DEF Connected
  <2> QED BY <2>5, <2>6, <1>5 DEF Connected, At
<1>6. CASE ConnectTimeout(t) \/ Cancelled(t)
  <2>1. PICK p \in {"start", "return error"} : Goes(t, p)
    BY <1>6 DEF ConnectTimeout, Cancelled
  <2>2. handler'[t].pc = p /\ handler'[t].execution = handler[t].execution
    BY <2>1, Went
  <2>3. execution' = execution /\ handler[t].pc = "connect"
    BY <1>6 DEF ConnectTimeout, Cancelled, At
  <2>4. handler'[t].pc \in {"start", "return error"}
    BY <2>1, <2>2
  <2> QED BY <2>2, <2>3, <2>4, <1>1
<1>7. CASE StartCommand(t)
  BY <1>1, <1>7 DEF StartCommand, At, Goes, HandlerRecord
<1>8. CASE StartFails(t)
  BY <1>1, <1>8, EndedOnly DEF StartFails, At, Goes, HandlerRecord
<1>9. CASE \E ok \in BOOLEAN : Exits(t, ok)
  <2>1. /\ handler'[t].pc = "exited" /\ handler[t].pc = "running"
        /\ handler'[t].execution = handler[t].execution /\ execution' = execution
    BY <1>1, <1>9 DEF Exits, At, HandlerRecord
  <2> QED BY <2>1, <1>1
<1>10. CASE OutputSent(t)
  <2>1. /\ execution' \in Seq(Execution) /\ Len(execution') = Len(execution)
    BY <1>10, EndedOnly DEF OutputSent
  <2>2. PICK p : /\ p \in {"return error", "return", "clean"}
                 /\ p = "clean" => t = "build" /\ setup.retries < MaxBuildRetries
                 /\ Goes(t, p)
    <3>1. CASE MayBeCancelled(t) /\ Goes(t, "return error")
      BY <3>1
    <3>2. CASE Goes(t, AfterExit(t))
      <4>1. PICK p : p = AfterExit(t)
        OBVIOUS
      <4>2. /\ p \in {"return error", "return", "clean"}
            /\ p = "clean" => t = "build" /\ setup.retries < MaxBuildRetries
        BY <4>1 DEF AfterExit, Task
      <4> QED BY <4>1, <4>2, <3>2
    <3> QED BY <3>1, <3>2, <1>10 DEF OutputSent
  <2>3. handler'[t].pc = p /\ handler'[t].execution = handler[t].execution
    BY <2>2, Went
  <2> QED BY <2>1, <2>2, <2>3, <1>10 DEF OutputSent, At
<1> QED BY <1>2, <1>3, <1>4, <1>5, <1>6, <1>7, <1>8, <1>9, <1>10 DEF Works

LEMMA HandlerKept ==
  ASSUME TypeOK, HandlerInv, Next
  PROVE  HandlerInv'
<1>1. /\ handler \in [Task -> HandlerRecord] /\ execution \in Seq(Execution)
      /\ Len(execution) \in Nat
  BY HandlerTyped, ExecutionTyped
<1>2. ASSUME Len(execution') = Len(execution), setup' = setup,
             \A t \in Task : /\ handler'[t].pc = handler[t].pc
                             /\ handler'[t].execution = handler[t].execution
      PROVE  HandlerInv'
  BY <1>2 DEF HandlerInv, Task
<1>3. CASE \E t \in Task : EnsureRun(t)
  <2>1. PICK t \in Task : EnsureRun(t)
    BY <1>3
  <2>2. /\ handler[t].pc = "none" /\ handler' = [handler EXCEPT ![t].pc = "begin"]
        /\ execution' = execution /\ setup' = setup
    BY <2>1 DEF EnsureRun, EngineUnchanged, MayBegin
  <2>3. /\ handler'[t].pc = "begin" /\ handler'[t].execution = handler[t].execution
        /\ \A u \in Task \ {t} : handler'[u] = handler[u]
    BY <1>1, <2>2 DEF HandlerRecord
  <2> QED BY <1>1, <2>2, <2>3 DEF HandlerInv, Task
<1>4. CASE \E t \in Task : EnsureKill(t)
  <2>1. PICK t \in Task : EnsureKill(t)
    BY <1>4
  <2>2. \A u \in Task : /\ handler'[u].pc = handler[u].pc
                        /\ handler'[u].execution = handler[u].execution
    BY <1>1, <2>1 DEF EnsureKill
  <2> QED BY <2>1, <2>2, <1>2 DEF EnsureKill, EngineUnchanged
<1>5. CASE \E t \in Task : EnsureTryUndo(t) \/ EnsureCannotUndo(t)
  BY <1>2, <1>5 DEF EnsureTryUndo, EnsureCannotUndo, EngineUnchanged
<1>6. CASE \E t \in Task : Cleanup(t)
  <2>1. handler' = handler /\ execution' = execution /\ setup'.retries = setup.retries
    BY <1>6, Typed DEF Cleanup
  <2> QED BY <2>1 DEF HandlerInv
<1>7. CASE Abort
  BY <1>2, <1>7 DEF Abort
<1>8. CASE \E t \in Task : HandlerReturns(t)
  <2>1. PICK t \in Task : HandlerReturns(t)
    BY <1>8
  <2>2. /\ handler'[t].pc = "none" /\ handler'[t].execution = 0
        /\ \A u \in Task \ {t} : handler'[u] = handler[u]
        /\ execution' = execution /\ setup' = setup
    BY <1>1, <2>1 DEF HandlerReturns, NoHandler
  <2> QED BY <1>1, <2>2 DEF HandlerInv, Task
<1>9. CASE \E t \in Task : Works(t)
  <2>1. PICK t \in Task : Works(t)
    BY <1>9
  <2>2. \A u \in Task \ {t} : handler'[u] = handler[u]
    BY <2>1, WorksMoves
  <2>3. handler'[t].pc \notin {"none", "begin"}
    BY <2>1, WorksMoves
  <2>4. CASE RegisterExecution(t) /\ handler[t].pc \in {"register", "clean"}
    <3>1. /\ Len(execution') = Len(execution) + 1
          /\ handler'[t].pc = "connect" /\ handler'[t].execution = Len(execution) + 1
      BY <2>4, Registered
    <3>2. handler["build"].pc = "clean" /\ t = "run" => setup' = setup
      BY <2>1, <2>4 DEF Works, Register, CleanAndRetry, At, HandlerInv, Begin, Extract, Connected,
         ConnectTimeout, Cancelled, StartCommand, StartFails, Exits, OutputSent
    <3> QED BY <3>1, <3>2, <2>2, <1>1 DEF HandlerInv, Task
  <2>5. CASE ~(RegisterExecution(t) /\ handler[t].pc \in {"register", "clean"})
    <3>1. setup' = setup
      BY <2>1, <2>5 DEF Works, Register, CleanAndRetry, At, Begin, Extract, Connected,
         ConnectTimeout, Cancelled, StartCommand, StartFails, Exits, OutputSent
    <3>2. /\ Len(execution') = Len(execution)
          /\ handler'[t].execution = handler[t].execution
          /\ handler'[t].pc = "register" => handler[t].pc \in {"begin", "extract"}
          /\ handler'[t].pc = "extract" => t = "build" /\ handler[t].pc = "begin"
          /\ handler'[t].pc = "clean" => t = "build" /\ setup.retries < MaxBuildRetries
          /\ handler'[t].pc # "connect"
          /\ handler'[t].pc \in {"start", "running", "exited", "clean"}
               => handler[t].pc \in {"connect", "start", "running", "exited"}
      BY <2>1, <2>5, WorksOn
    <3> QED BY <3>1, <3>2, <2>2, <2>3, <1>1 DEF HandlerInv, Task
  <2> QED BY <2>4, <2>5
<1>10. CASE ClientActs
  <2>1. handler' = handler /\ setup' = setup
    BY <1>10 DEF ClientActs, FindExecution, ChangeReady, Connect, Poll, WaitChange, Flush,
       ClientUnchanged
  <2> QED BY <2>1, <1>2, <1>10, Opened
<1>11. CASE Stop
  BY <1>2, <1>11, Dies DEF Stop
<1>12. CASE DaemonRestart
  BY <1>12, EmptySeq DEF DaemonRestart, NoHandler, HandlerInv, Task
<1> QED BY <1>3, <1>4, <1>5, <1>6, <1>7, <1>8, <1>9, <1>10, <1>11, <1>12
        DEF Next, Engine, Handler, Works

LEMMA StreamsKept ==
  ASSUME TypeOK, HandlerInv, StreamsInv, Next
  PROVE  StreamsInv'
<1> DEFINE Has(u, x) == /\ handler[u].execution = x
                        /\ handler[u].pc \in {"start", "running", "exited"}
           HasNext(u, x) == /\ handler'[u].execution = x
                            /\ handler'[u].pc \in {"start", "running", "exited"}
<1>1. /\ handler \in [Task -> HandlerRecord] /\ execution \in Seq(Execution)
      /\ Len(execution) \in Nat
  BY HandlerTyped, ExecutionTyped
<1>2. ASSUME Len(execution') = Len(execution),
             \A x \in 1 .. Len(execution) :
               execution'[x].served # execution'[x].ended
                 => execution[x].served # execution[x].ended,
             \A u \in Task, x \in 1 .. Len(execution) : Has(u, x) => HasNext(u, x)
      PROVE  StreamsInv'
  BY <1>2 DEF StreamsInv
<1>3. ASSUME execution' = execution, NEW t \in Task,
             handler[t].pc \notin {"start", "running", "exited"},
             \A u \in Task \ {t} : handler'[u] = handler[u]
      PROVE  StreamsInv'
  BY <1>2, <1>3
<1>4. ASSUME execution' = execution,
             \A u \in Task : /\ handler'[u].pc = handler[u].pc
                             /\ handler'[u].execution = handler[u].execution
      PROVE  StreamsInv'
  BY <1>2, <1>4
<1>5. CASE \E t \in Task : EnsureRun(t)
  <2>1. PICK t \in Task : EnsureRun(t)
    BY <1>5
  <2>2. /\ handler[t].pc = "none" /\ handler' = [handler EXCEPT ![t].pc = "begin"]
        /\ execution' = execution
    BY <2>1 DEF EnsureRun, EngineUnchanged, MayBegin
  <2>3. \A u \in Task \ {t} : handler'[u] = handler[u]
    BY <1>1, <2>2
  <2> QED BY <2>2, <2>3, <1>3
<1>6. CASE \E t \in Task : EnsureKill(t)
  <2>1. PICK t \in Task : EnsureKill(t)
    BY <1>6
  <2>2. \A u \in Task : /\ handler'[u].pc = handler[u].pc
                        /\ handler'[u].execution = handler[u].execution
    BY <1>1, <2>1 DEF EnsureKill
  <2> QED BY <2>1, <2>2, <1>4 DEF EnsureKill, EngineUnchanged
<1>7. CASE \E t \in Task : EnsureTryUndo(t) \/ EnsureCannotUndo(t) \/ Cleanup(t)
  BY <1>4, <1>7 DEF EnsureTryUndo, EnsureCannotUndo, EngineUnchanged, Cleanup
<1>8. CASE Abort
  BY <1>4, <1>8 DEF Abort
<1>9. CASE \E t \in Task : HandlerReturns(t)
  <2>1. PICK t \in Task : HandlerReturns(t)
    BY <1>9
  <2>2. /\ handler[t].pc \in {"return", "return error"} /\ execution' = execution
        /\ \A u \in Task \ {t} : handler'[u] = handler[u]
    BY <1>1, <2>1 DEF HandlerReturns, NoHandler
  <2> QED BY <2>2, <1>3
<1>10. CASE \E t \in Task : Works(t)
  <2>1. PICK t \in Task : Works(t)
    BY <1>10
  <2>2. \A u \in Task \ {t} : handler'[u] = handler[u]
    BY <2>1, WorksMoves
  <2>3. CASE Begin(t) \/ Extract(t) \/ ConnectTimeout(t) \/ Cancelled(t)
    BY <2>2, <2>3, <1>3 DEF Begin, Extract, ConnectTimeout, Cancelled, At
  <2>4. CASE Register(t) \/ CleanAndRetry(t)
    <3>1. RegisterExecution(t) /\ handler[t].pc \in {"register", "clean"}
      BY <2>4 DEF Register, CleanAndRetry, At
    <3>2. /\ Len(execution') = Len(execution) + 1
          /\ \A x \in 1 .. Len(execution) : execution'[x] = execution[x]
          /\ execution'[Len(execution) + 1].served = {}
          /\ execution'[Len(execution) + 1].ended = {}
      BY <3>1, Registered
    <3>3. \A u \in Task, x \in 1 .. Len(execution) : Has(u, x) => HasNext(u, x)
      BY <3>1, <2>2
    <3> HIDE DEF Has, HasNext
    <3>4. ASSUME NEW x \in 1 .. Len(execution'), execution'[x].served # execution'[x].ended
          PROVE  \E u \in Task : HasNext(u, x)
      <4>1. x # Len(execution) + 1
        BY <3>2, <3>4
      <4>2. x \in 1 .. Len(execution)
        BY <4>1, <3>2, <1>1
      <4>3. execution[x].served # execution[x].ended
        BY <4>2, <3>2, <3>4
      <4>4. PICK u \in Task : Has(u, x)
        BY <4>2, <4>3 DEF StreamsInv, Has
      <4> QED BY <4>2, <4>4, <3>3
    <3> QED BY <3>4 DEF StreamsInv, HasNext
  <2>5. CASE Connected(t)
    <3>1. PICK y : y = handler[t].execution
      OBVIOUS
    <3>2. y \in 1 .. Len(execution)
      BY <1>1, <2>5, <3>1 DEF HandlerInv, Connected, At
    <3>3. execution[y] \in Execution
      BY <1>1, <3>2
    <3>4. Served(y) \in SUBSET Socket
      BY <3>3 DEF Served, Execution, Socket
    <3>5. /\ Len(execution') = Len(execution)
          /\ \A x \in 1 .. Len(execution) : x # y => execution'[x] = execution[x]
      BY <2>5, <3>1, <3>4, ServedOnly DEF Connected
    <3>6. HasNext(t, y)
      BY <2>5, <3>1, Went DEF Connected
    <3>7. \A u \in Task, x \in 1 .. Len(execution) : Has(u, x) => HasNext(u, x)
      BY <2>2, <2>5 DEF Connected, At
    <3> HIDE DEF Has, HasNext
    <3>8. ASSUME NEW x \in 1 .. Len(execution'), execution'[x].served # execution'[x].ended
          PROVE  \E u \in Task : HasNext(u, x)
      <4>1. CASE x = y
        BY <4>1, <3>6
      <4>2. CASE x # y
        <5>1. x \in 1 .. Len(execution) /\ execution[x].served # execution[x].ended
          BY <4>2, <3>5, <3>8
        <5>2. PICK u \in Task : Has(u, x)
          BY <5>1 DEF StreamsInv, Has
        <5> QED BY <5>1, <5>2, <3>7
      <4> QED BY <4>1, <4>2
    <3> QED BY <3>8 DEF StreamsInv, HasNext
  <2>6. CASE StartCommand(t) \/ \E ok \in BOOLEAN : Exits(t, ok)
    <3>1. /\ handler'[t].pc \in {"running", "exited"} /\ execution' = execution
          /\ handler'[t].execution = handler[t].execution
      BY <1>1, <2>6 DEF StartCommand, Exits, Goes, HandlerRecord
    <3>2. \A u \in Task, x \in 1 .. Len(execution) : Has(u, x) => HasNext(u, x)
      BY <3>1, <2>2
    <3> QED BY <3>1, <3>2, <1>2
  <2>7. CASE StartFails(t) \/ OutputSent(t)
    <3>1. PICK y : y = handler[t].execution
      OBVIOUS
    <3>2. EndStreams(t)
      BY <2>7 DEF StartFails, OutputSent
    <3>3. /\ Len(execution') = Len(execution)
          /\ \A x \in 1 .. Len(execution) :
               /\ execution'[x].served = execution[x].served
               /\ IF x = y THEN execution'[x].ended = execution[x].served
                  ELSE execution'[x].ended = execution[x].ended
      BY <3>1, <3>2, EndedOnly
    <3>4. ASSUME NEW x \in 1 .. Len(execution'), execution'[x].served # execution'[x].ended
          PROVE  \E u \in Task : HasNext(u, x)
      <4>1. x \in 1 .. Len(execution) /\ x # y /\ execution[x].served # execution[x].ended
        BY <3>3, <3>4
      <4>2. PICK u \in Task : Has(u, x)
        BY <4>1 DEF StreamsInv
      <4>3. u # t
        BY <4>1, <4>2, <3>1
      <4> QED BY <4>2, <4>3, <2>2
    <3> QED BY <3>4 DEF StreamsInv
  <2> QED BY <2>1, <2>3, <2>4, <2>5, <2>6, <2>7 DEF Works
<1>11. CASE ClientActs
  <2>1. handler' = handler
    BY <1>11 DEF ClientActs, FindExecution, ChangeReady, Connect, Poll, WaitChange, Flush,
       ClientUnchanged
  <2> QED BY <2>1, <1>2, <1>11, Opened
<1>12. CASE Stop
  BY <1>4, <1>12, Dies DEF Stop
<1>13. CASE DaemonRestart
  BY <1>13, EmptySeq DEF DaemonRestart, StreamsInv
<1> QED BY <1>5, <1>6, <1>7, <1>8, <1>9, <1>10, <1>11, <1>12, <1>13
        DEF Next, Engine, Handler, Works

(***************************************************************************)
(* The client's steps.                                                     *)
(***************************************************************************)
LEMMA Advancing ==
  ASSUME NEW c \in Client, c.todo # <<>>, InOrder(c.todo)
  PROVE  /\ Tail(c.todo) \in Seq(ClientStep) /\ InOrder(Tail(c.todo))
         /\ c.todo[1] \in ClientStep /\ Len(Tail(c.todo)) = Len(c.todo) - 1
         /\ Tail(c.todo) # <<>> /\ Tail(c.todo)[1].do = "flush" => c.todo[1].do = "wait"
<1>1. PICK todo : todo = c.todo
  OBVIOUS
<1>2. todo \in Seq(ClientStep)
  BY <1>1 DEF Client
<1>3. /\ Tail(todo) \in Seq(ClientStep) /\ Len(Tail(todo)) = Len(todo) - 1
      /\ Len(todo) \in Nat /\ Len(todo) > 0
      /\ \A i \in 1 .. Len(todo) - 1 : Tail(todo)[i] = todo[i + 1]
      /\ todo[1] \in ClientStep
  BY <1>1, <1>2, HeadTailProperties, EmptySeq, ElementOfSeq, LenProperties
<1>4. PICK rest : rest = Tail(todo)
  OBVIOUS
<1>5. PICK n : n = Len(todo)
  OBVIOUS
<1>6. n \in Nat /\ n > 0 /\ Len(rest) = n - 1
  BY <1>3, <1>4, <1>5
<1>7. rest \in Seq(ClientStep) /\ \A i \in 1 .. n - 1 : rest[i] = todo[i + 1]
  BY <1>3, <1>4, <1>5
<1>8. \A i \in 1 .. n :
        /\ todo[i].do = "flush" <=> i = n
        /\ todo[i].do = "wait" <=> i = n - 1
        /\ opts.interactive /\ opts.stderr /\ todo[i].do = "connect"
             => (todo[i].task = "run" /\ todo[i].socket = "stdio"
                   => todo[i + 1].do = "connect")
  BY <1>1, <1>5, Zenon DEF InOrder
<1>9. InOrder(rest)
  <2>1. ASSUME NEW i \in 1 .. n - 1
        PROVE  /\ rest[i].do = "flush" <=> i = n - 1
               /\ rest[i].do = "wait" <=> i = n - 2
               /\ opts.interactive /\ opts.stderr /\ rest[i].do = "connect"
                    => (rest[i].task = "run" /\ rest[i].socket = "stdio"
                          => rest[i + 1].do = "connect")
    <3>1. PICK j : j = i + 1
      OBVIOUS
    <3>2. j \in 1 .. n /\ rest[i] = todo[j] /\ (j = n <=> i = n - 1) /\ (j = n - 1 <=> i = n - 2)
      BY <1>6, <1>7, <3>1
    <3>3. i # n - 1 => rest[i + 1] = todo[j + 1]
      BY <1>6, <1>7, <3>1
    <3>4. rest[i].do = "flush" <=> i = n - 1
      BY <3>2, <1>8
    <3>5. rest[i].do = "wait" <=> i = n - 2
      BY <3>2, <1>8
    <3>6. i = n - 1 => rest[i].do # "connect"
      BY <3>4
    <3>7. opts.interactive /\ opts.stderr /\ rest[i].do = "connect"
            => (rest[i].task = "run" /\ rest[i].socket = "stdio"
                  => rest[i + 1].do = "connect")
      BY <3>2, <3>3, <3>6, <1>8
    <3> QED BY <3>4, <3>5, <3>7
  <2>2. \A i : i = Len(rest) - 1 <=> i = n - 2
    BY <1>6
  <2> QED BY <1>6, <2>1, <2>2 DEF InOrder
<1>10. rest # <<>> /\ rest[1].do = "flush" => todo[1].do = "wait"
  <2>1. rest # <<>> => 1 \in 1 .. n - 1
    BY <1>6, <1>7, EmptySeq
  <2>2. rest # <<>> => rest[1] = todo[2]
    BY <2>1, <1>7
  <2>3. 2 = n <=> 1 = n - 1
    BY <1>6
  <2> QED BY <2>1, <2>2, <2>3, <1>6, <1>8
<1> QED BY <1>1, <1>3, <1>4, <1>7, <1>9, <1>10

\* What the next state's client may be: in order, and told of the end only by WaitChange.
Follows(c) ==
  /\ c \in Client /\ InOrder(c.todo)
  /\ c.todo = <<>> \/ c.todo[1].do # "flush"
  /\ c.result \in {client.result, "error"}
  /\ c.found = 0

LEMMA Gives ==
  ASSUME client \in Client, client.todo # <<>>, InOrder(client.todo)
  PROVE  /\ \A r \in {"ok", "error"} :
              /\ Ended(r) \in Client /\ Ended(r).todo = <<>> /\ Ended(r).found = 0
              /\ Ended(r).result = r
         /\ InOrder(<<>>) /\ Follows(Ended("error"))
         /\ Advanced \in Client /\ InOrder(Advanced.todo) /\ Advanced.found = 0
         /\ Advanced.result = client.result /\ Advanced.streams = client.streams
         /\ Step.do # "wait" => Follows(Advanced)
         /\ Step.do = "connect" => Follows(Refused)
<1>1. PICK c : c = client
  OBVIOUS
<1>2. PICK rest : rest = Tail(c.todo)
  OBVIOUS
<1>3. /\ rest \in Seq(ClientStep) /\ InOrder(rest) /\ Len(rest) = Len(c.todo) - 1
      /\ c.todo[1] \in ClientStep
      /\ rest # <<>> /\ rest[1].do = "flush" => c.todo[1].do = "wait"
  BY <1>1, <1>2, Advancing
<1>4. /\ c.todo \in Seq(ClientStep) /\ c.found \in Nat /\ c.streams \in SUBSET (Nat \X Socket)
      /\ c.result \in {"none", "ok", "error"} /\ c \in Client
  BY <1>1 DEF Client
<1>5. <<>> \in Seq(ClientStep) /\ InOrder(<<>>)
  BY EmptySeq DEF InOrder
<1>6. ASSUME NEW r \in {"ok", "error"}
      PROVE  /\ Ended(r) \in Client /\ Ended(r).todo = <<>> /\ Ended(r).found = 0
             /\ Ended(r).result = r
  BY <1>1, <1>4, <1>5 DEF Ended, Client
<1>7. Follows(Ended("error"))
  BY <1>5, <1>6 DEF Follows
<1>8. /\ Advanced \in Client /\ Advanced.todo = rest /\ Advanced.found = 0
      /\ Advanced.result = client.result /\ Advanced.streams = client.streams
  BY <1>1, <1>2, <1>3, <1>4 DEF Advanced, Client
<1>9. Step.do # "wait" => Follows(Advanced)
  BY <1>1, <1>3, <1>8 DEF Follows, Step
<1>10. ASSUME Step.do = "connect" PROVE Follows(Refused)
  <2>1. Follows(Advanced)
    BY <1>9, <1>10
  <2>2. CASE /\ opts.interactive /\ Step.task = "run" /\ Step.socket = "stdio" /\ opts.stderr
    <3>1. 1 \in 1 .. Len(c.todo)
      BY <1>1, <1>4, EmptySeq, LenProperties
    <3>2. c.todo[1].task = "run" => c.todo[2].do = "connect"
      BY <3>1, <2>2, <1>1, <1>10 DEF InOrder, Step
    <3>3. c.todo[2].do = "connect"
      BY <3>2, <2>2, <1>1 DEF Step
    <3>4. Len(c.todo) # 1 /\ Len(c.todo) # 2 /\ Len(c.todo) \in Nat
      BY <3>1, <3>3, <1>1, <1>4, <1>10, LenProperties DEF InOrder, Step
    <3>5. rest # <<>> /\ rest[1] = c.todo[2]
      <4>1. PICK todo : todo = c.todo
        OBVIOUS
      <4>2. PICK n : n = Len(todo)
        OBVIOUS
      <4>3. n \in Nat /\ 1 \in 1 .. n /\ n # 1 /\ n # 2
        BY <4>1, <4>2, <3>1, <3>4
      <4>4. n > 2 /\ todo \in Seq(ClientStep) /\ todo # <<>>
        BY <4>1, <4>3, <1>1, <1>4
      <4>5. rest[1] = todo[1 + 1] /\ Len(rest) # 0
        BY <4>1, <4>2, <4>4, <1>2, HeadTailProperties
      <4> QED BY <4>1, <4>5, EmptySeq
    <3>6. PICK last : last = Tail(rest)
      OBVIOUS
    <3>7. PICK d \in Client : d.todo = rest
      BY <1>8
    <3>8. /\ last \in Seq(ClientStep) /\ InOrder(last)
          /\ last # <<>> => last[1].do # "flush"
      BY <3>3, <3>5, <3>6, <3>7, <1>3, Advancing
    <3>9. PICK a : a = Advanced
      OBVIOUS
    <3>10. PICK b : b = [a EXCEPT !.todo = last]
      OBVIOUS
    <3>11. b \in Client /\ b.todo = last /\ b.result = client.result /\ b.found = 0
      BY <3>8, <3>9, <3>10, <1>8 DEF Client
    <3>12. Refused = b
      BY <2>2, <3>6, <3>9, <3>10, <1>8 DEF Refused
    <3> QED BY <3>8, <3>11, <3>12 DEF Follows
  <2>3. CASE ~(opts.interactive /\ Step.task = "run" /\ Step.socket = "stdio" /\ opts.stderr)
    <3>1. Refused = Advanced \/ Refused = Ended("error")
      BY <2>3 DEF Refused
    <3> QED BY <3>1, <2>1, <1>7
  <2> QED BY <2>2, <2>3
<1> QED BY <1>5, <1>6, <1>7, <1>8, <1>9, <1>10, <1>3

LEMMA ClientMoves ==
  ASSUME TypeOK, InOrder(client.todo), FoundInv, ClientActs \/ DaemonRestart
  PROVE  /\ client' \in Client /\ InOrder(client'.todo) /\ client'.found \in 0 .. Len(execution')
         /\ Reported' => Reported \/ (Ready /\ ~Failed)
<1>1. client \in Client /\ execution \in Seq(Execution) /\ Len(execution) \in Nat
  BY Typed, ExecutionTyped
<1>2. ASSUME Follows(client')
      PROVE  /\ client' \in Client /\ InOrder(client'.todo) /\ client'.found = 0
             /\ Reported' => Reported
  BY <1>2 DEF Follows, Reported, Step
<1>3. CASE FindExecution
  <2>1. /\ client' = [client EXCEPT !.found = registered[Step.task]] /\ execution' = execution
        /\ client.todo # <<>> /\ Step.do = "connect"
    BY <1>3 DEF FindExecution, Serving
  <2>2. client.todo \in Seq(ClientStep)
    BY <1>1 DEF Client
  <2>3. Step \in ClientStep
    BY <2>1, <2>2, EmptySeq, ElementOfSeq, LenProperties DEF Step
  <2>4. Step.task \in Task
    BY <2>1, <2>3 DEF ClientStep
  <2>5. PICK x : x = registered[Step.task]
    OBVIOUS
  <2>6. x \in 0 .. Len(execution) /\ x \in Nat
    BY <2>4, <2>5, <1>1 DEF FoundInv
  <2>7. client' = [client EXCEPT !.found = x]
    BY <2>1, <2>5
  <2>8. /\ client' \in Client /\ client'.todo = client.todo /\ client'.found = x
        /\ client'.result = client.result
    BY <1>1, <2>6, <2>7 DEF Client
  <2> QED BY <2>1, <2>6, <2>8 DEF Reported, Step
<1>4. CASE ChangeReady
  <2>1. client.todo # <<>> /\ Step.do = "connect" /\ client' = Refused /\ execution' = execution
    BY <1>4 DEF ChangeReady, Serving
  <2> QED BY <2>1, <1>1, <1>2, Gives
<1>5. CASE Connect
  <2>1. client.todo # <<>> /\ Step.do = "connect" /\ client.found # 0
    BY <1>5 DEF Connect, Serving
  <2>2. Follows(Refused) /\ Follows(Advanced) /\ Advanced.streams = client.streams
    BY <2>1, <1>1, Gives
  <2>3. PICK x, s, a : x = client.found /\ s = Step.socket /\ a = Advanced
    OBVIOUS
  <2>4. client' = Refused \/ client' = [a EXCEPT !.streams = @ \cup {<<x, s>>}]
                          \/ client' = [a EXCEPT !.streams = @ \cup {}]
    BY <1>5, <2>3 DEF Connect
  <2>5. client.todo \in Seq(ClientStep) /\ x \in Nat /\ client.streams \in SUBSET (Nat \X Socket)
    BY <1>1, <2>3 DEF Client
  <2>6. Step \in ClientStep
    BY <2>1, <2>5, EmptySeq, ElementOfSeq, LenProperties DEF Step
  <2>7. s \in Socket
    BY <2>1, <2>3, <2>6 DEF ClientStep
  <2>8. /\ client.streams \cup {<<x, s>>} \in SUBSET (Nat \X Socket)
        /\ client.streams \cup {} \in SUBSET (Nat \X Socket)
    BY <2>5, <2>7
  <2>9. ASSUME NEW streams \in SUBSET (Nat \X Socket)
        PROVE  Follows([a EXCEPT !.streams = streams])
    BY <2>2, <2>3 DEF Follows, Client
  <2>10. Follows(client')
    BY <2>2, <2>3, <2>4, <2>8, <2>9
  <2>11. Len(execution') = Len(execution)
    BY <1>5, Opened DEF ClientActs
  <2> QED BY <2>10, <2>11, <1>1, <1>2
<1>6. CASE Poll
  <2>1. /\ client.todo # <<>> /\ Step.do # "wait" /\ execution' = execution
        /\ client' = Ended("error") \/ client' = Advanced
    BY <1>6 DEF Poll, Serving
  <2> QED BY <2>1, <1>1, <1>2, Gives
<1>7. CASE WaitChange
  <2>1. /\ client.todo # <<>> /\ execution' = execution
        /\ Ready /\ client' = IF Failed THEN Ended("error") ELSE Advanced
    BY <1>7 DEF WaitChange, Serving
  <2>2. CASE Failed
    BY <2>1, <2>2, <1>1, <1>2, Gives
  <2>3. CASE ~Failed
    BY <2>1, <2>3, <1>1, Gives
  <2> QED BY <2>2, <2>3
<1>8. CASE Flush
  <2>1. /\ client.todo # <<>> /\ Step.do = "flush" /\ execution' = execution
        /\ client' = Ended("ok")
    BY <1>8 DEF Flush, Serving
  <2> QED BY <2>1, <1>1, Gives DEF Reported
<1>9. CASE DaemonRestart
  <2>1. PICK c \in {client, Broken} : client' = [c EXCEPT !.found = 0, !.streams = {}]
    BY <1>9 DEF DaemonRestart
  <2>2. c = client \/ Follows(c)
    <3>1. CASE c = Broken /\ client.todo # <<>> /\ Step.do # "flush"
      BY <3>1, <1>1, Gives DEF Broken
    <3>2. CASE ~(c = Broken /\ client.todo # <<>> /\ Step.do # "flush")
      BY <3>2, <2>1 DEF Broken
    <3> QED BY <3>1, <3>2
  <2>3. c \in Client /\ InOrder(c.todo)
    BY <2>2, <1>1 DEF Follows
  <2>4. /\ client' \in Client /\ client'.todo = c.todo /\ client'.result = c.result
        /\ client'.found = 0
    BY <2>1, <2>3 DEF Client
  <2>5. Len(execution') = 0
    BY <1>9, EmptySeq DEF DaemonRestart
  <2>6. Reported' => Reported
    BY <2>2, <2>4 DEF Reported, Step, Follows
  <2> QED BY <2>3, <2>4, <2>5, <2>6
<1> QED BY <1>3, <1>4, <1>5, <1>6, <1>7, <1>8, <1>9 DEF ClientActs

(***************************************************************************)
(* What the build leaves.                                                  *)
(***************************************************************************)
LEMMA BuiltKept ==
  ASSUME TypeOK, StatusInv, HandlerInv, BuiltInv, Next
  PROVE  BuiltInv'
<1>1. /\ handler \in [Task -> HandlerRecord] /\ status \in [Task -> Status]
      /\ clean \subseteq Task /\ restarts \in Nat /\ tree \in Tree
      /\ setup \in [known: BOOLEAN, retries: 0 .. MaxBuildRetries]
  BY HandlerTyped, Typed
<1>2. ASSUME restarts' = restarts, setup'.known = setup.known, clean' = clean,
             tree' = tree \/ tree' = "built",
             BuildOver' => BuildOver \/ tree' = "built",
             /\ handler'["build"].pc = "exited" /\ handler'["build"].ok
                  => tree' = "built" \/ (handler["build"].pc = "exited" /\ handler["build"].ok),
             /\ handler'["build"].pc = "return"
                  => tree' = "built" \/ handler["build"].pc = "return"
      PROVE  BuiltInv'
  BY <1>2 DEF BuiltInv
<1>3. ASSUME restarts' = restarts, setup' = setup, clean' = clean, tree' = tree,
             handler'["build"] = handler["build"], BuildOver' => BuildOver
      PROVE  BuiltInv'
  BY <1>2, <1>3
<1>4. CASE \E t \in Task : EnsureRun(t)
  <2>1. PICK t \in Task : EnsureRun(t)
    BY <1>4
  <2>2. /\ handler[t].pc = "none" /\ handler' = [handler EXCEPT ![t].pc = "begin"]
        /\ status' = [status EXCEPT ![t] = "Doing"]
        /\ tree' = tree /\ setup' = setup /\ clean' = clean /\ restarts' = restarts
    BY <2>1 DEF EnsureRun, EngineUnchanged, MayBegin, diskVars, boundVars
  <2>3. CASE t = "build"
    BY <1>1, <1>2, <2>2, <2>3 DEF BuildOver, HandlerRecord
  <2>4. CASE t = "run"
    BY <1>1, <1>2, <2>2, <2>4 DEF BuildOver, Task
  <2> QED BY <2>3, <2>4 DEF Task
<1>5. CASE \E t \in Task : EnsureKill(t)
  <2>1. PICK t \in Task : EnsureKill(t)
    BY <1>5
  <2>2. /\ handler'["build"].pc = handler["build"].pc
        /\ handler'["build"].ok = handler["build"].ok
    BY <1>1, <2>1 DEF EnsureKill, Task, HandlerRecord
  <2> QED BY <2>1, <2>2, <1>2 DEF EnsureKill, EngineUnchanged, diskVars, boundVars, changeVars,
          BuildOver
<1>6. CASE \E t \in Task : EnsureTryUndo(t)
  BY <1>1, <1>3, <1>6 DEF EnsureTryUndo, EngineUnchanged, diskVars, boundVars, BuildOver, Task
<1>7. CASE \E t \in Task : EnsureCannotUndo(t)
  BY <1>1, <1>3, <1>7 DEF EnsureCannotUndo, EngineUnchanged, diskVars, boundVars, BuildOver, Task
<1>8. CASE \E t \in Task : Cleanup(t)
  <2>1. PICK t \in Task : Cleanup(t)
    BY <1>8
  <2>2. /\ Ready /\ clean' = clean \cup {t} /\ handler' = handler /\ status' = status
        /\ tree' = IF t = "run" THEN "none" ELSE tree
        /\ setup' = IF t = "build" THEN [setup EXCEPT !.known = FALSE] ELSE setup
        /\ restarts' = restarts
    BY <2>1 DEF Cleanup, boundVars
  <2>3. handler["build"].pc = "none"
    BY <1>1, <2>2 DEF StatusInv, Ready, IsReady, Task
  <2> QED BY <1>1, <2>2, <2>3 DEF BuiltInv, BuildOver, Task
<1>9. CASE Abort
  <2>1. BuildOver' => BuildOver
    BY <1>1, <1>9 DEF Abort, Aborted, AbortedStatus, BuildOver, Task, Status
  <2> QED BY <2>1, <1>3, <1>9 DEF Abort, diskVars
<1>10. CASE \E t \in Task : HandlerReturns(t)
  <2>1. PICK t \in Task : HandlerReturns(t)
    BY <1>10
  <2>2. /\ handler' = [handler EXCEPT ![t] = NoHandler]
        /\ tree' = tree /\ setup' = setup /\ clean' = clean /\ restarts' = restarts
        /\ status[t] \in {"Doing", "Abort"}
    BY <1>1, <2>1 DEF HandlerReturns, diskVars, boundVars, StatusInv
  <2>3. BuildOver' => BuildOver \/ (t = "build" /\ handler["build"].pc = "return")
    <3>1. CASE handler[t].pc = "return" /\ status' = Succeeded(t)
      BY <1>1, <2>2, <3>1 DEF Succeeded, BuildOver, Task
    <3>2. CASE status' = Retried(t)
      BY <1>1, <2>2, <3>2 DEF Retried, BuildOver, Task
    <3>3. CASE status' = Errored(t)
      BY <1>1, <2>2, <3>3 DEF Errored, Aborted, AbortedStatus, BuildOver, Task, Status
    <3> QED BY <2>1, <3>1, <3>2, <3>3 DEF HandlerReturns
  <2>4. /\ handler'["build"].pc = "none" \/ handler'["build"] = handler["build"]
    BY <1>1, <2>2 DEF NoHandler, Task
  <2>5. clean = {}
    BY <1>1, <2>2 DEF StatusInv, Ready, IsReady, Task
  <2> QED BY <2>2, <2>3, <2>4, <2>5 DEF BuiltInv
<1>11. CASE \E t \in Task : Works(t)
  <2>1. PICK t \in Task : Works(t)
    BY <1>11
  <2>2. /\ \A u \in Task \ {t} : handler'[u] = handler[u]
        /\ handler'[t].pc \notin {"none", "begin"} /\ handler[t].pc # "none"
        /\ handler' \in [Task -> HandlerRecord]
    BY <2>1, WorksMoves
  <2>3. status' = status /\ clean' = clean /\ restarts' = restarts
    BY <2>1, WorksUnchanged DEF HandlerUnchanged, changeVars, boundVars
  <2>4. BuildOver' => BuildOver
    BY <2>3 DEF BuildOver
  <2>5. CASE t = "run"
    <3>1. tree' = tree /\ setup' = setup
      BY <2>1, <2>5 DEF Works, HandlerInv, Begin, Extract, Register, Connected, ConnectTimeout,
         Cancelled, StartCommand, StartFails, Exits, OutputSent, CleanAndRetry, At, diskVars
    <3>2. handler'["build"] = handler["build"]
      BY <2>2, <2>5 DEF Task
    <3> QED BY <3>1, <3>2, <2>3, <2>4, <1>3
  <2>6. CASE t = "build"
    <3>1. status["build"] \in {"Doing", "Abort"} /\ clean = {} /\ ~BuildOver
      BY <1>1, <2>2, <2>6 DEF StatusInv, Ready, IsReady, Task, BuildOver
    <3>2. setup'.known = setup.known
      BY <1>1, <2>1 DEF Works, Begin, Extract, Register, Connected, ConnectTimeout,
         Cancelled, StartCommand, StartFails, Exits, OutputSent, CleanAndRetry
    <3>3. restarts = 0 => setup.known
      BY <3>1 DEF BuiltInv
    <3>4. ASSUME restarts = 0
          PROVE  /\ handler'["build"].pc = "exited" /\ handler'["build"].ok => tree' = "built"
                 /\ handler'["build"].pc = "return" => tree' = "built"
      <4>1. CASE Begin("build")
        <5>1. Goes("build", "extract")
          BY <4>1, <3>3, <3>4 DEF Begin
        <5> QED BY <5>1, Went DEF Task
      <4>2. CASE Extract("build") \/ Connected("build") \/ ConnectTimeout("build")
                 \/ Cancelled("build") \/ StartCommand("build") \/ StartFails("build")
        <5>1. PICK p \in {"register", "return error", "start", "running"} : Goes("build", p)
          BY <4>2 DEF Extract, Connected, ConnectTimeout, Cancelled, StartCommand, StartFails
        <5> QED BY <5>1, Went DEF Task
      <4>3. CASE Register("build") \/ CleanAndRetry("build")
        BY <4>3, Registered DEF Register, CleanAndRetry, Task
      <4>4. CASE \E ok \in BOOLEAN : Exits("build", ok)
        <5>1. PICK ok \in BOOLEAN : Exits("build", ok)
          BY <4>4
        <5>2. handler' = [handler EXCEPT !["build"].pc = "exited", !["build"].ok = ok]
          BY <5>1 DEF Exits
        <5>3. handler'["build"] = [handler["build"] EXCEPT !.pc = "exited", !.ok = ok]
          BY <1>1, <5>2, Zenon DEF Task
        <5>4. handler["build"] \in HandlerRecord
          BY <1>1 DEF Task
        <5>5. handler'["build"].pc = "exited" /\ handler'["build"].ok = ok
          BY <5>3, <5>4 DEF HandlerRecord
        <5>6. ok => tree' = "built"
          BY <5>1 DEF Exits
        <5> QED BY <5>5, <5>6
      <4>5. CASE OutputSent("build")
        <5>1. handler["build"].pc = "exited" /\ tree' = tree
          BY <4>5 DEF OutputSent, At, diskVars
        <5>2. PICK p : /\ p \in {"return error", "return", "clean"}
                       /\ p = "return" => handler["build"].ok
                       /\ Goes("build", p)
          BY <4>5 DEF OutputSent, AfterExit
        <5>3. handler'["build"].pc = p
          BY <5>2, Went DEF Task
        <5>4. handler["build"].ok => tree = "built"
          BY <5>1, <3>4 DEF BuiltInv
        <5> QED BY <5>1, <5>2, <5>3, <5>4
      <4> QED BY <2>1, <2>6, <4>1, <4>2, <4>3, <4>4, <4>5 DEF Works
    <3> QED BY <3>1, <3>2, <3>3, <3>4, <2>3, <2>4 DEF BuiltInv
  <2> QED BY <2>5, <2>6 DEF Task
<1>12. CASE ClientActs
  <2>1. /\ handler' = handler /\ setup' = setup /\ tree' = tree /\ status' = status
        /\ clean' = clean /\ restarts' = restarts
    BY <1>12 DEF ClientActs, FindExecution, ChangeReady, Connect, Poll, WaitChange, Flush,
       ClientUnchanged, changeVars, diskVars, boundVars
  <2> QED BY <2>1, <1>3 DEF BuildOver
<1>13. CASE Stop
  <2>1. /\ setup' = setup /\ tree' = tree /\ status' = status
        /\ clean' = clean /\ restarts' = restarts
    BY <1>13 DEF Stop, changeVars, diskVars, boundVars
  <2>2. /\ handler'["build"].pc = handler["build"].pc
        /\ handler'["build"].ok = handler["build"].ok
    BY <1>13, Dies DEF Task
  <2> QED BY <2>1, <2>2, <1>2 DEF BuildOver
<1>14. CASE DaemonRestart
  <2>1. restarts' # 0
    BY <1>1, <1>14 DEF DaemonRestart
  <2> QED BY <2>1 DEF BuiltInv
<1> QED BY <1>4, <1>5, <1>6, <1>7, <1>8, <1>9, <1>10, <1>11, <1>12, <1>13, <1>14
        DEF Next, Engine, Handler, Works

(***************************************************************************)
(* What spread ran on, and what the client is told.                        *)
(***************************************************************************)
\* spread is only started by the run task, on a tree that is there.
LEMMA SpreadStarts ==
  ASSUME TypeOK, Next
  PROVE  spread' = spread \/ (StartCommand("run") /\ spread' = tree /\ tree # "none")
<1>1. CASE \E t \in Task : Engine(t)
  BY <1>1 DEF Engine, EnsureRun, EnsureKill, EnsureTryUndo, EnsureCannotUndo, Cleanup,
     EngineUnchanged, diskVars
<1>2. CASE \E t \in Task : Handler(t)
  <2>1. PICK t \in Task : Handler(t)
    BY <1>2
  <2>2. CASE StartCommand(t)
    BY <2>2 DEF StartCommand
  <2>3. CASE ~StartCommand(t)
    BY <2>1, <2>3 DEF Handler, Begin, Extract, Register, Connected, ConnectTimeout, Cancelled,
       StartFails, Exits, OutputSent, CleanAndRetry, HandlerReturns, diskVars
  <2> QED BY <2>2, <2>3
<1>3. CASE ClientActs \/ Abort \/ Stop \/ DaemonRestart
  BY <1>3 DEF ClientActs, FindExecution, ChangeReady, Connect, Poll, WaitChange, Flush,
     ClientUnchanged, Abort, Stop, DaemonRestart, diskVars
<1> QED BY <1>1, <1>2, <1>3 DEF Next

LEMMA RunKept ==
  ASSUME TypeOK, StatusInv, BuiltInv, RunNeedsBuild, Next
  PROVE  RunNeedsBuild'
<1>1. restarts \in Nat /\ (restarts' = restarts \/ restarts' = restarts + 1)
  <2>1. CASE DaemonRestart
    BY <2>1, Typed DEF DaemonRestart
  <2>2. CASE ~DaemonRestart
    BY <2>2, Typed DEF Next, Engine, EnsureRun, EnsureKill, EnsureTryUndo, EnsureCannotUndo,
       Cleanup, EngineUnchanged, Handler, Begin, Extract, Register, Connected, ConnectTimeout,
       Cancelled, StartCommand, StartFails, Exits, OutputSent, CleanAndRetry, HandlerReturns,
       HandlerUnchanged, ClientActs, FindExecution, ChangeReady, Connect, Poll, WaitChange,
       Flush, ClientUnchanged, Abort, Stop, boundVars
  <2> QED BY <2>1, <2>2
<1>2. restarts > 0 => restarts' > 0
  BY <1>1
<1>3. restarts' > 0 \/ restarts' = 0
  BY <1>1
<1>4. restarts' = 0 => restarts = 0
  BY <1>1
<1>5. CASE spread' = spread
  BY <1>2, <1>5 DEF RunNeedsBuild
<1>6. CASE StartCommand("run") /\ spread' = tree
  <2>1. handler["run"].pc = "start"
    BY <1>6 DEF StartCommand, At
  <2>2. status["run"] \in {"Doing", "Abort"}
    BY <2>1 DEF StatusInv, Task
  <2>3. BuildOver /\ clean = {}
    BY <2>2 DEF StatusInv, Ready, IsReady, Task
  <2>4. restarts = 0 => tree = "built"
    BY <2>3 DEF BuiltInv
  <2> QED BY <1>3, <1>4, <1>6, <2>4 DEF RunNeedsBuild
<1> QED BY <1>5, <1>6, SpreadStarts

LEMMA RanKept ==
  ASSUME TypeOK, StatusInv, RanInv, InOrder(client.todo), FoundInv, Next
  PROVE  RanInv'
<1>1. /\ handler \in [Task -> HandlerRecord] /\ status \in [Task -> Status]
      /\ aborts \in Nat /\ tree \in Tree
  BY HandlerTyped, Typed
<1>2. spread # "not run" => spread' # "not run"
  BY <1>1, SpreadStarts DEF Tree
<1>3. ASSUME status' = status, aborts' = aborts,
             handler'["run"].pc \in {"running", "exited", "return"}
               => spread' # "not run" \/ handler["run"].pc \in {"running", "exited", "return"},
             Reported' => Reported \/ (Ready /\ ~Failed)
      PROVE  RanInv'
  <2>1. aborts = 0 /\ Ready /\ ~Failed => status["run"] = "Done"
    BY DEF RanInv, NotAborted, Ready, Failed, IsReady, Task
  <2>2. NotAborted' = NotAborted
    BY <1>3 DEF NotAborted
  <2> QED BY <1>2, <1>3, <2>1, <2>2 DEF RanInv
<1>4. ASSUME client' = client, handler'["run"].pc = handler["run"].pc,
             status' = status, aborts' = aborts
      PROVE  RanInv'
  BY <1>3, <1>4 DEF Reported, Step
<1>5. ASSUME client' = client, aborts' = aborts, handler'["run"].pc = handler["run"].pc,
             aborts = 0 => NotAborted',
             status'["run"] \in {"Undo", "Done"} => status["run"] \in {"Undo", "Done"},
             aborts = 0 /\ status["run"] = "Done" => status'["run"] = "Done"
      PROVE  RanInv'
  BY <1>2, <1>5 DEF RanInv, Reported, Step
<1>6. CASE \E t \in Task : EnsureRun(t)
  <2>1. PICK t \in Task : EnsureRun(t)
    BY <1>6
  <2>2. /\ handler[t].pc = "none" /\ handler' = [handler EXCEPT ![t].pc = "begin"]
        /\ status' = [status EXCEPT ![t] = "Doing"] /\ status[t] \in {"Do", "Doing"}
        /\ t = "run" /\ status[t] = "Do" => status["build"] = "Done"
        /\ client' = client /\ aborts' = aborts
    BY <2>1 DEF EnsureRun, EngineUnchanged, MayBegin, MustWait, boundVars
  <2>3. aborts = 0 => NotAborted'
    BY <1>1, <2>2 DEF RanInv, NotAborted, Task
  <2>4. handler'["run"].pc \notin {"running", "exited", "return"}
          \/ handler'["run"].pc = handler["run"].pc
    BY <1>1, <2>2 DEF HandlerRecord, Task
  <2> QED BY <1>1, <1>2, <2>2, <2>3, <2>4 DEF RanInv, Reported, Step, Task
<1>7. CASE \E t \in Task : EnsureKill(t)
  <2>1. PICK t \in Task : EnsureKill(t)
    BY <1>7
  <2>2. handler'["run"].pc = handler["run"].pc
    BY <1>1, <2>1 DEF EnsureKill, Task, HandlerRecord
  <2> QED BY <2>1, <2>2, <1>4 DEF EnsureKill, EngineUnchanged, boundVars, changeVars
<1>8. CASE \E t \in Task : EnsureTryUndo(t)
  <2>1. aborts # 0
    BY <1>8 DEF EnsureTryUndo, RanInv, NotAborted, Task
  <2> QED BY <1>1, <1>5, <1>8, <2>1 DEF EnsureTryUndo, EngineUnchanged, boundVars, Task
<1>9. CASE \E t \in Task : EnsureCannotUndo(t)
  <2>1. PICK t \in Task : EnsureCannotUndo(t)
    BY <1>9
  <2>2. /\ status' = [status EXCEPT ![t] = "Done"] /\ status[t] = "Undo"
        /\ client' = client /\ aborts' = aborts /\ handler' = handler
    BY <2>1 DEF EnsureCannotUndo, EngineUnchanged, boundVars
  <2>3. aborts = 0 => NotAborted'
    BY <1>1, <2>2 DEF RanInv, NotAborted, Task
  <2> QED BY <1>1, <1>5, <2>2, <2>3 DEF Task
<1>10. CASE \E t \in Task : Cleanup(t)
  BY <1>4, <1>10 DEF Cleanup, boundVars
<1>11. CASE Abort
  <2>1. aborts' # 0 /\ client' = client /\ handler' = handler /\ status' = Aborted
    BY <1>1, <1>11 DEF Abort
  <2>2. status'["run"] \in {"Undo", "Done"} => status["run"] \in {"Undo", "Done"}
    BY <1>1, <2>1 DEF Aborted, AbortedStatus, Task, Status
  <2> QED BY <1>2, <2>1, <2>2 DEF RanInv
<1>12. CASE \E t \in Task : HandlerReturns(t)
  <2>1. PICK t \in Task : HandlerReturns(t)
    BY <1>12
  <2>2. /\ handler' = [handler EXCEPT ![t] = NoHandler] /\ client' = client /\ aborts' = aborts
        /\ status[t] \in {"Doing", "Abort"} /\ handler[t].pc \in {"return", "return error"}
    BY <1>1, <2>1 DEF HandlerReturns, boundVars, StatusInv
  <2>3. aborts = 0 => NotAborted' /\ status["run"] # "Done"
    BY <1>1, <2>1, <2>2 DEF HandlerReturns, Succeeded, Retried, Errored, Aborted, AbortedStatus,
       RanInv, NotAborted, Task, Status
  <2>4. status'["run"] \in {"Undo", "Done"} =>
          status["run"] \in {"Undo", "Done"} \/ handler["run"].pc = "return"
    BY <1>1, <2>1, <2>2 DEF HandlerReturns, Succeeded, Retried, Errored, Aborted, AbortedStatus,
       Task, Status
  <2>5. handler'["run"].pc = "none" \/ handler'["run"] = handler["run"]
    BY <1>1, <2>2 DEF NoHandler, Task
  <2>6. Reported' = Reported
    BY <2>2 DEF Reported, Step
  <2> QED BY <1>2, <2>2, <2>3, <2>4, <2>5, <2>6 DEF RanInv
<1>13. CASE \E t \in Task : Works(t)
  <2>1. PICK t \in Task : Works(t)
    BY <1>13
  <2>2. /\ \A u \in Task \ {t} : handler'[u] = handler[u]
    BY <2>1, WorksMoves
  <2>3. status' = status /\ aborts' = aborts /\ client' = client
    BY <2>1, WorksUnchanged DEF HandlerUnchanged, changeVars, boundVars
  <2>4. CASE t = "build"
    BY <1>4, <2>2, <2>3, <2>4 DEF Task
  <2>5. CASE t = "run"
    <3>1. CASE Begin("run")
      BY <1>3, <2>3, <3>1, Went DEF Begin, Task, Reported, Step
    <3>2. CASE Extract("run") \/ Connected("run") \/ ConnectTimeout("run")
               \/ Cancelled("run") \/ StartFails("run")
      <4>1. PICK p \in {"register", "return error", "start"} : Goes("run", p)
        BY <3>2 DEF Extract, Connected, ConnectTimeout, Cancelled, StartFails
      <4>2. handler'["run"].pc = p
        BY <4>1, Went DEF Task
      <4> QED BY <4>1, <4>2, <1>3, <2>3 DEF Reported, Step
    <3>3. CASE Register("run") \/ CleanAndRetry("run")
      <4>1. handler'["run"].pc = "connect"
        BY <3>3, Registered DEF Register, CleanAndRetry, Task
      <4> QED BY <4>1, <1>3, <2>3 DEF Reported, Step
    <3>4. CASE StartCommand("run")
      <4>1. spread' # "not run"
        BY <1>1, <3>4 DEF StartCommand, Tree
      <4> QED BY <4>1, <1>3, <2>3 DEF Reported, Step
    <3>5. CASE (\E ok \in BOOLEAN : Exits("run", ok)) \/ OutputSent("run")
      <4>1. handler["run"].pc \in {"running", "exited"}
        BY <3>5 DEF Exits, OutputSent, At
      <4> QED BY <4>1, <1>3, <2>3 DEF Reported, Step
    <3> QED BY <2>1, <2>5, <3>1, <3>2, <3>3, <3>4, <3>5 DEF Works
  <2> QED BY <2>4, <2>5 DEF Task
<1>14. CASE ClientActs
  <2>1. handler' = handler /\ status' = status /\ aborts' = aborts
    BY <1>14 DEF ClientActs, FindExecution, ChangeReady, Connect, Poll, WaitChange, Flush,
       ClientUnchanged, changeVars, boundVars
  <2>2. Reported' => Reported \/ (Ready /\ ~Failed)
    BY <1>14, ClientMoves
  <2> QED BY <2>1, <2>2, <1>3
<1>15. CASE Stop
  BY <1>4, <1>15, Dies DEF Stop, changeVars, boundVars, Task
<1>16. CASE DaemonRestart
  <2>1. status' = status /\ aborts' = aborts /\ handler'["run"].pc = "none"
    BY <1>16 DEF DaemonRestart, changeVars, NoHandler, Task
  <2>2. Reported' => Reported \/ (Ready /\ ~Failed)
    BY <1>16, ClientMoves
  <2> QED BY <2>1, <2>2, <1>3
<1> QED BY <1>6, <1>7, <1>8, <1>9, <1>10, <1>11, <1>12, <1>13, <1>14, <1>15, <1>16
        DEF Next, Engine, Handler, Works

LEMMA OneMore ==
  ASSUME NEW n \in Nat, NEW k \in 0 .. n, k < n
  PROVE  k + 1 \in 0 .. n
OBVIOUS

LEMMA WorksTyped ==
  ASSUME TypeOK, HandlerInv, NEW t \in Task, Works(t)
  PROVE  /\ handler' \in [Task -> HandlerRecord] /\ execution' \in Seq(Execution)
         /\ setup' \in [known: BOOLEAN, retries: 0 .. MaxBuildRetries]
         /\ tarball' \in BOOLEAN /\ tree' \in Tree /\ spread' \in Tree \cup {"not run"}
         /\ Len(execution') \in {Len(execution), Len(execution) + 1}
         /\ \/ registered' = registered
            \/ registered' = [registered EXCEPT ![t] = Len(execution')]
<1>1. /\ setup \in [known: BOOLEAN, retries: 0 .. MaxBuildRetries] /\ tarball \in BOOLEAN
      /\ tree \in Tree /\ spread \in Tree \cup {"not run"} /\ MaxBuildRetries \in Nat
  BY Typed, BuildTestAssumption DEF TypeOK, BuildTestAssumption
<1>2. handler' \in [Task -> HandlerRecord]
  BY WorksMoves
<1>3. /\ execution' \in Seq(Execution)
      /\ Len(execution') \in {Len(execution), Len(execution) + 1}
  BY WorksOn, Registered
<1>4. CASE CleanAndRetry(t)
  <2>1. /\ RegisterExecution(t) /\ tree' \in {tree, "source"} /\ tarball' = tarball
        /\ spread' = spread
    BY <1>4 DEF CleanAndRetry
  <2>2. setup.retries < MaxBuildRetries
    BY <1>4 DEF CleanAndRetry, HandlerInv, At, Task
  <2>3. PICK n : n = setup.retries + 1
    OBVIOUS
  <2>4. n \in 0 .. MaxBuildRetries
    <3>1. setup.retries \in 0 .. MaxBuildRetries
      BY <1>1
    <3> QED BY <1>1, <2>2, <2>3, <3>1, OneMore
  <2>5. setup' = [setup EXCEPT !.retries = n]
    BY <1>4, <2>3 DEF CleanAndRetry
  <2>6. setup' \in [known: BOOLEAN, retries: 0 .. MaxBuildRetries]
    BY <1>1, <2>4, <2>5
  <2>7. registered' = [registered EXCEPT ![t] = Len(execution')]
    BY <2>1, Registered DEF RegisterExecution
  <2> QED BY <1>1, <1>2, <1>3, <2>1, <2>6, <2>7 DEF Tree
<1>5. CASE Register(t)
  <2>1. /\ RegisterExecution(t) /\ setup' = setup /\ tree' = tree /\ tarball' = tarball
        /\ spread' = spread
    BY <1>5 DEF Register, diskVars
  <2>2. registered' = [registered EXCEPT ![t] = Len(execution')]
    BY <2>1, Registered DEF RegisterExecution
  <2> QED BY <1>1, <1>2, <1>3, <2>1, <2>2
<1>6. CASE ~CleanAndRetry(t) /\ ~Register(t)
  <2>1. /\ registered' = registered /\ setup' = setup /\ tarball' \in {tarball, FALSE}
        /\ tree' \in {tree, "source", "built"} /\ spread' \in {spread, tree}
    BY <1>6 DEF Works, Begin, Extract, Connected, ConnectTimeout, Cancelled, StartCommand,
       StartFails, Exits, OutputSent, diskVars
  <2> QED BY <1>1, <1>2, <1>3, <2>1 DEF Tree
<1> QED BY <1>4, <1>5, <1>6

LEMMA TypeKept ==
  ASSUME TypeOK, HandlerInv, FoundInv, InOrder(client.todo), Next
  PROVE  TypeOK' /\ FoundInv' /\ InOrder(client.todo)'
<1>1. /\ handler \in [Task -> HandlerRecord] /\ execution \in Seq(Execution)
      /\ Len(execution) \in Nat
      /\ status \in [Task -> Status] /\ clean \subseteq Task
      /\ tree \in Tree /\ spread \in Tree \cup {"not run"}
      /\ setup \in [known: BOOLEAN, retries: 0 .. MaxBuildRetries] /\ client \in Client
      /\ registered \in [Task -> Nat] /\ tarball \in BOOLEAN /\ stopping \in BOOLEAN
      /\ opts \in RequestOptions /\ aborts \in 0 .. MaxAborts /\ restarts \in 0 .. MaxRestarts
  BY Typed, HandlerTyped, ExecutionTyped DEF TypeOK
<1>2. opts' = opts
  BY DEF Next, Engine, EnsureRun, EnsureKill, EnsureTryUndo, EnsureCannotUndo,
     Cleanup, EngineUnchanged, Handler, Begin, Extract, Register, Connected, ConnectTimeout,
     Cancelled, StartCommand, StartFails, Exits, OutputSent, CleanAndRetry, HandlerReturns,
     HandlerUnchanged, ClientActs, FindExecution, ChangeReady, Connect, Poll, WaitChange,
     Flush, ClientUnchanged, Abort, Stop, DaemonRestart
<1>3. ASSUME client' \in Client, InOrder(client'.todo), client'.found \in 0 .. Len(execution'),
             registered' \in [Task -> 0 .. Len(execution')], execution' \in Seq(Execution),
             handler' \in [Task -> HandlerRecord], status' \in [Task -> Status],
             clean' \subseteq Task, tree' \in Tree, spread' \in Tree \cup {"not run"},
             setup' \in [known: BOOLEAN, retries: 0 .. MaxBuildRetries],
             tarball' \in BOOLEAN, stopping' \in BOOLEAN,
             aborts' \in 0 .. MaxAborts, restarts' \in 0 .. MaxRestarts
      PROVE  TypeOK' /\ FoundInv' /\ InOrder(client.todo)'
  <2>1. PICK m : m = Len(execution')
    OBVIOUS
  <2>2. registered' \in [Task -> 0 .. m]
    BY <1>3, <2>1
  <2>3. registered' \in [Task -> Nat] /\ \A t \in Task : registered'[t] \in 0 .. Len(execution')
    <3>1. 0 .. m \subseteq Nat
      OBVIOUS
    <3> QED BY <2>2, <2>1, <3>1
  <2>4. TypeOK'
    BY <1>1, <1>2, <1>3, <2>3 DEF TypeOK, HandlerRecord
  <2>5. InOrder(client.todo)'
    BY <1>2, <1>3 DEF InOrder
  <2> QED BY <1>3, <2>3, <2>4, <2>5 DEF FoundInv
<1>4. /\ client.found \in 0 .. Len(execution)
      /\ registered \in [Task -> 0 .. Len(execution)]
  BY <1>1 DEF FoundInv
<1>5. CASE \E t \in Task : Engine(t)
  <2>1. PICK t \in Task : Engine(t)
    BY <1>5
  <2>2. /\ execution' = execution /\ registered' = registered /\ client' = client
        /\ tarball' = tarball /\ spread' = spread /\ stopping' = stopping
        /\ aborts' = aborts /\ restarts' = restarts
        /\ handler' = handler \/ handler' = [handler EXCEPT ![t].pc = "begin"]
                              \/ handler' = [handler EXCEPT ![t].dying = TRUE]
        /\ status' = status \/ \E s \in Status : status' = [status EXCEPT ![t] = s]
        /\ clean' \in {clean, clean \cup {t}}
        /\ setup' \in {setup, [setup EXCEPT !.known = FALSE]}
        /\ tree' \in {tree, "none"}
    BY <2>1 DEF Engine, EnsureRun, EnsureKill, EnsureTryUndo, EnsureCannotUndo,
       Cleanup, EngineUnchanged, diskVars, boundVars, changeVars, Status
  <2>3. handler' \in [Task -> HandlerRecord]
    <3>1. CASE handler' = [handler EXCEPT ![t].pc = "begin"]
      BY <1>1, <3>1 DEF HandlerRecord, Point
    <3>2. CASE handler' = [handler EXCEPT ![t].dying = TRUE]
      BY <1>1, <3>2 DEF HandlerRecord
    <3> QED BY <1>1, <2>2, <3>1, <3>2
  <2>4. status' \in [Task -> Status] /\ clean' \subseteq Task /\ tree' \in Tree
    <3>1. status' \in [Task -> Status]
      BY <1>1, <2>2
    <3>2. clean' \subseteq Task
      BY <1>1, <2>2
    <3>3. tree' \in Tree
      BY <1>1, <2>2 DEF Tree
    <3> QED BY <3>1, <3>2, <3>3
  <2>5. setup' \in [known: BOOLEAN, retries: 0 .. MaxBuildRetries]
    BY <1>1, <2>2
  <2> QED BY <1>1, <1>3, <1>4, <2>2, <2>3, <2>4, <2>5
<1>6. CASE \E t \in Task : HandlerReturns(t)
  <2>1. PICK t \in Task : HandlerReturns(t)
    BY <1>6
  <2>2. /\ execution' = execution /\ client' = client /\ tarball' = tarball
        /\ spread' = spread /\ stopping' = stopping /\ aborts' = aborts /\ restarts' = restarts
        /\ clean' = clean /\ setup' = setup /\ tree' = tree
        /\ handler' = [handler EXCEPT ![t] = NoHandler]
        /\ registered' = [registered EXCEPT ![t] = 0]
        /\ status' \in {Succeeded(t), Retried(t), Errored(t)}
    BY <2>1 DEF HandlerReturns, diskVars, boundVars
  <2>3. NoHandler \in HandlerRecord
    BY DEF NoHandler, HandlerRecord, Point
  <2>4. status' \in [Task -> Status]
    BY <1>1, <2>2 DEF Succeeded, Retried, Errored, Aborted, AbortedStatus, Status
  <2>5. 0 \in 0 .. Len(execution)
    BY ExecutionTyped
  <2> QED BY <1>1, <1>3, <1>4, <2>2, <2>3, <2>4, <2>5
<1>7. CASE \E t \in Task : Works(t)
  <2>1. PICK t \in Task : Works(t)
    BY <1>7
  <2>2. /\ status' = status /\ clean' = clean /\ client' = client
        /\ stopping' = stopping /\ aborts' = aborts /\ restarts' = restarts
    BY <2>1, WorksUnchanged DEF HandlerUnchanged, changeVars, boundVars
  <2>3. /\ handler' \in [Task -> HandlerRecord] /\ execution' \in Seq(Execution)
        /\ setup' \in [known: BOOLEAN, retries: 0 .. MaxBuildRetries]
        /\ tarball' \in BOOLEAN /\ tree' \in Tree /\ spread' \in Tree \cup {"not run"}
    BY <2>1, WorksTyped
  <2>4. PICK m : m = Len(execution')
    OBVIOUS
  <2>5. /\ m \in {Len(execution), Len(execution) + 1}
        /\ registered' = registered \/ registered' = [registered EXCEPT ![t] = m]
    BY <2>1, <2>4, WorksTyped
  <2>6. m \in 0 .. m /\ 0 .. Len(execution) \subseteq 0 .. m
    BY <2>5, ExecutionTyped
  <2>7. registered' \in [Task -> 0 .. m] /\ client.found \in 0 .. m
    BY <1>4, <2>5, <2>6
  <2> QED BY <1>1, <1>3, <2>2, <2>3, <2>4, <2>7
<1>8. CASE ClientActs
  <2>1. /\ handler' = handler /\ status' = status /\ clean' = clean /\ setup' = setup
        /\ tarball' = tarball /\ tree' = tree /\ spread' = spread /\ registered' = registered
        /\ stopping' = stopping /\ aborts' = aborts /\ restarts' = restarts
    BY <1>8 DEF ClientActs, FindExecution, ChangeReady, Connect, Poll, WaitChange, Flush,
       ClientUnchanged, changeVars, diskVars, boundVars
  <2>2. client' \in Client /\ InOrder(client'.todo) /\ client'.found \in 0 .. Len(execution')
    BY <1>8, ClientMoves
  <2>3. execution' \in Seq(Execution) /\ Len(execution') = Len(execution)
    BY <1>8, Opened
  <2> QED BY <1>1, <1>3, <1>4, <2>1, <2>2, <2>3
<1>9. CASE Abort
  <2>1. /\ handler' = handler /\ clean' = clean /\ setup' = setup /\ client' = client
        /\ tarball' = tarball /\ tree' = tree /\ spread' = spread /\ registered' = registered
        /\ stopping' = stopping /\ aborts' = aborts + 1 /\ restarts' = restarts
        /\ execution' = execution /\ status' = Aborted /\ aborts < MaxAborts
    BY <1>9 DEF Abort, diskVars
  <2>2. status' \in [Task -> Status]
    BY <1>1, <2>1 DEF Aborted, AbortedStatus, Status
  <2>3. aborts' \in 0 .. MaxAborts
    <3>1. aborts \in 0 .. MaxAborts /\ MaxAborts \in Nat
      BY <1>1, BuildTestAssumption DEF BuildTestAssumption
    <3> QED BY <2>1, <3>1, OneMore
  <2> QED BY <1>1, <1>3, <1>4, <2>1, <2>2, <2>3
<1>10. CASE Stop
  <2>1. /\ status' = status /\ clean' = clean /\ setup' = setup /\ client' = client
        /\ tarball' = tarball /\ tree' = tree /\ spread' = spread /\ registered' = registered
        /\ stopping' = TRUE /\ aborts' = aborts /\ restarts' = restarts
        /\ execution' = execution
    BY <1>10 DEF Stop, changeVars, diskVars, boundVars
  <2>2. handler' \in [Task -> HandlerRecord]
    BY <1>10, Dies
  <2> QED BY <1>1, <1>3, <1>4, <2>1, <2>2
<1>11. CASE DaemonRestart
  <2>1. /\ status' = status /\ clean' = clean /\ setup' = [known |-> FALSE, retries |-> 0]
        /\ tarball' = tarball /\ tree' = tree /\ spread' = spread
        /\ registered' = [t \in Task |-> 0] /\ handler' = [t \in Task |-> NoHandler]
        /\ stopping' = FALSE /\ aborts' = aborts /\ restarts' = restarts + 1
        /\ execution' = <<>> /\ restarts < MaxRestarts
    BY <1>11 DEF DaemonRestart, changeVars, diskVars
  <2>2. client' \in Client /\ InOrder(client'.todo) /\ client'.found \in 0 .. Len(execution')
    BY <1>11, ClientMoves
  <2>3. execution' \in Seq(Execution) /\ Len(execution') = 0
    BY <2>1, EmptySeq
  <2>4. NoHandler \in HandlerRecord
    BY DEF NoHandler, HandlerRecord, Point
  <2>5. restarts' \in 0 .. MaxRestarts
    <3>1. restarts \in 0 .. MaxRestarts /\ MaxRestarts \in Nat
      BY <1>1, BuildTestAssumption DEF BuildTestAssumption
    <3> QED BY <2>1, <3>1, OneMore
  <2>6. setup' \in [known: BOOLEAN, retries: 0 .. MaxBuildRetries]
    BY <2>1, BuildTestAssumption DEF BuildTestAssumption
  <2>7. registered' \in [Task -> 0 .. 0] /\ handler' \in [Task -> HandlerRecord]
    BY <2>1, <2>4
  <2> QED BY <1>1, <1>3, <2>1, <2>2, <2>3, <2>5, <2>6, <2>7
<1> QED BY <1>5, <1>6, <1>7, <1>8, <1>9, <1>10, <1>11 DEF Next, Handler, Works

(***************************************************************************)
(* What the client sets out to do.                                         *)
(***************************************************************************)
LEMMA IsSeq ==
  ASSUME NEW S, NEW n \in Nat, NEW s \in [1 .. n -> S]
  PROVE  s \in Seq(S) /\ Len(s) = n
OBVIOUS

\* The websockets of a request; stdio is never the last when stderr is asked for.
LEMMA Sockets ==
  ASSUME NEW o, o \in [interactive: BOOLEAN, terminal: BOOLEAN, stdout: BOOLEAN,
                       stderr: BOOLEAN, timeout: BOOLEAN]
  PROVE  /\ Wanted(o) \in Seq(Socket)
         /\ o.interactive /\ o.stderr =>
              \A i \in 1 .. Len(Wanted(o)) :
                Wanted(o)[i] = "stdio" => i + 1 \in 1 .. Len(Wanted(o))
<1>1. ASSUME NEW b, NEW s \in Socket
      PROVE  When(b, s) \in Seq(Socket)
  BY <1>1 DEF When
<1>2. <<"control", "stdio">> \in Seq(Socket)
  BY DEF Socket
<1>3. Wanted(o) \in Seq(Socket)
  <2>1. "stdout" \in Socket /\ "stderr" \in Socket
    BY DEF Socket
  <2>2. When(o.stdout, "stdout") \in Seq(Socket) /\ When(o.stderr, "stderr") \in Seq(Socket)
    BY <1>1, <2>1
  <2> HIDE DEF When
  <2>3. /\ <<"control", "stdio">> \o When(o.stderr, "stderr") \in Seq(Socket)
        /\ When(o.stdout, "stdout") \o When(o.stderr, "stderr") \in Seq(Socket)
    BY <1>2, <2>2, ConcatProperties
  <2> QED BY <2>3 DEF Wanted
<1>4. ASSUME o.interactive, o.stderr, NEW i \in 1 .. Len(Wanted(o)), Wanted(o)[i] = "stdio"
      PROVE  i + 1 \in 1 .. Len(Wanted(o))
  <2>1. PICK a, b : a = <<"control", "stdio">> /\ b = <<"stderr">>
    OBVIOUS
  <2>2. Wanted(o) = a \o b
    BY <1>4, <2>1 DEF Wanted, When
  <2>3. a \in Seq(Socket) /\ b \in Seq(Socket) /\ Len(a) = 2 /\ Len(b) = 1 /\ b[1] = "stderr"
    BY <2>1 DEF Socket
  <2>4. /\ Len(a \o b) = 3
        /\ \A j \in 1 .. 3 : (a \o b)[j] = IF j <= 2 THEN a[j] ELSE b[j - 2]
    BY <2>3, ConcatProperties
  <2>5. i \in 1 .. 3
    BY <2>2, <2>4
  <2>6. i # 3
    BY <1>4, <2>2, <2>3, <2>4
  <2> QED BY <2>2, <2>4, <2>5, <2>6
<1> QED BY <1>3, <1>4

LEMMA Steps ==
  ASSUME NEW o, o \in [interactive: BOOLEAN, terminal: BOOLEAN, stdout: BOOLEAN,
                       stderr: BOOLEAN, timeout: BOOLEAN], NEW t \in Task
  PROVE  /\ ConnectSteps(t, o) \in Seq(ClientStep)
         /\ Len(ConnectSteps(t, o)) = Len(Wanted(o)) /\ Len(Wanted(o)) \in Nat
         /\ \A i \in 1 .. Len(Wanted(o)) :
              /\ ConnectSteps(t, o)[i].do = "connect" /\ ConnectSteps(t, o)[i].task = t
              /\ ConnectSteps(t, o)[i].socket = Wanted(o)[i]
<1>1. PICK w : w = Wanted(o)
  OBVIOUS
<1>2. w \in Seq(Socket)
  BY <1>1, Sockets
<1>3. PICK n : n = Len(w)
  OBVIOUS
<1>4. n \in Nat /\ DOMAIN w = 1 .. n /\ \A i \in 1 .. n : w[i] \in Socket
  BY <1>2, <1>3, LenProperties
<1>5. PICK c : c = ConnectSteps(t, o)
  OBVIOUS
<1>6. c = [i \in 1 .. n |-> [do |-> "connect", task |-> t, socket |-> w[i]]]
  BY <1>1, <1>4, <1>5 DEF ConnectSteps
<1>7. c \in [1 .. n -> ClientStep]
  BY <1>4, <1>6 DEF ClientStep
<1>8. c \in Seq(ClientStep) /\ Len(c) = n
  BY <1>4, <1>7, IsSeq
<1>9. \A i \in 1 .. n : c[i].do = "connect" /\ c[i].task = t /\ c[i].socket = w[i]
  BY <1>6
<1> QED BY <1>1, <1>3, <1>4, <1>5, <1>8, <1>9

LEMMA Joined ==
  ASSUME NEW S, NEW a \in Seq(S), NEW b \in Seq(S)
  PROVE  /\ a \o b \in Seq(S) /\ Len(a \o b) = Len(a) + Len(b)
         /\ \A i \in 1 .. Len(a) : (a \o b)[i] = a[i]
         /\ \A i \in 1 .. Len(b) : (a \o b)[i + Len(a)] = b[i]
OBVIOUS

LEMMA ScriptInOrder ==
  ASSUME opts \in [interactive: BOOLEAN, terminal: BOOLEAN, stdout: BOOLEAN,
                   stderr: BOOLEAN, timeout: BOOLEAN]
  PROVE  /\ Script(opts) \in Seq(ClientStep) /\ InOrder(Script(opts))
         /\ Script(opts) # <<>> /\ Script(opts)[1].do # "flush"
<1>1. PICK s : s = Script(opts)
  OBVIOUS
<1>2. PICK last : last = <<Plain("wait"), Plain("flush")>>
  OBVIOUS
<1>3. /\ last \in Seq(ClientStep) /\ Len(last) = 2
      /\ last[1].do = "wait" /\ last[2].do = "flush"
  BY <1>2 DEF Plain, ClientStep
<1>4. CASE Wanted(opts) = <<>>
  <2>1. s = last
    BY <1>1, <1>2, <1>4 DEF Script
  <2>2. InOrder(last)
    BY <1>3 DEF InOrder
  <2>3. last # <<>>
    BY <1>2
  <2> QED BY <2>1, <2>2, <2>3, <1>1, <1>3
<1>5. CASE Wanted(opts) # <<>>
  <2>1. 1 \in Nat /\ 2 \in Nat
    OBVIOUS
  <2>2. PICK w, a, b, poll : /\ w = Wanted(opts) /\ a = ConnectSteps("build", opts)
                             /\ b = ConnectSteps("run", opts) /\ poll = <<Plain("poll")>>
    OBVIOUS
  <2>3. PICK n : n = Len(w)
    OBVIOUS
  <2>4. /\ a \in Seq(ClientStep) /\ Len(a) = n
        /\ \A i \in 1 .. n : a[i].do = "connect" /\ a[i].task = "build"
    BY <2>2, <2>3, Steps DEF Task
  <2>5. /\ b \in Seq(ClientStep) /\ Len(b) = n
        /\ \A i \in 1 .. n : /\ b[i].do = "connect" /\ b[i].task = "run"
                             /\ b[i].socket = w[i]
    BY <2>2, <2>3, Steps DEF Task
  <2>6. /\ poll \in Seq(ClientStep) /\ Len(poll) = 1 /\ poll[1].do = "poll"
    BY <2>2 DEF Plain, ClientStep
  <2>7. n \in Nat /\ n > 0
    BY <2>2, <2>3, <1>5, Sockets, EmptySeq
  <2>8. opts.interactive /\ opts.stderr => \A i \in 1 .. n : w[i] = "stdio" => i + 1 \in 1 .. n
    BY <2>2, <2>3, Sockets
  <2>9. s = ((a \o poll) \o b) \o last
    BY <1>1, <1>2, <1>5, <2>2 DEF Script
  <2>10. PICK p : p = a \o poll
    OBVIOUS
  <2>11. /\ p \in Seq(ClientStep) /\ Len(p) = n + 1
         /\ \A i \in 1 .. n : p[i] = a[i]
         /\ \A i \in 1 .. 1 : p[i + n] = poll[i]
    <3>1. /\ a \in Seq(ClientStep) /\ Len(a) = n /\ n \in Nat
          /\ poll \in Seq(ClientStep) /\ Len(poll) = 1
      BY <2>4, <2>6, <2>7
    <3> QED BY <2>1, <2>10, <3>1, Joined
  <2>12. PICK q : q = p \o b
    OBVIOUS
  <2>13. n + 1 \in Nat /\ (n + 1) + n \in Nat
    BY <2>7
  <2>14. /\ q \in Seq(ClientStep) /\ Len(q) = (n + 1) + n
         /\ \A i \in 1 .. n + 1 : q[i] = p[i]
         /\ \A i \in 1 .. n : q[i + (n + 1)] = b[i]
    <3>1. PICK k : k = Len(p)
      OBVIOUS
    <3>2. /\ p \in Seq(ClientStep) /\ b \in Seq(ClientStep) /\ Len(b) = n
      BY <2>5, <2>11
    <3>3. q \in Seq(ClientStep) /\ Len(q) = k + n
      BY <2>12, <3>1, <3>2, Joined
    <3>4. \A i \in 1 .. k : q[i] = p[i]
      BY <2>12, <3>1, <3>2, Joined
    <3>5. \A i \in 1 .. n : q[i + k] = b[i]
      BY <2>12, <3>1, <3>2, Joined
    <3> QED BY <2>11, <3>1, <3>3, <3>4, <3>5
  <2>15. /\ s \in Seq(ClientStep) /\ Len(s) = ((n + 1) + n) + 2
         /\ \A i \in 1 .. (n + 1) + n : s[i] = q[i]
         /\ \A i \in 1 .. 2 : s[i + ((n + 1) + n)] = last[i]
    <3>1. PICK k, e : k = Len(q) /\ e = Len(last)
      OBVIOUS
    <3>2. q \in Seq(ClientStep) /\ last \in Seq(ClientStep) /\ s = q \o last
      BY <1>3, <2>9, <2>10, <2>12, <2>14
    <3>3. s \in Seq(ClientStep) /\ Len(s) = k + e
      BY <3>1, <3>2, Joined
    <3>4. \A i \in 1 .. k : s[i] = q[i]
      BY <3>1, <3>2, Joined
    <3>5. \A i \in 1 .. e : s[i + k] = last[i]
      BY <3>1, <3>2, Joined
    <3> QED BY <1>3, <2>14, <3>1, <3>3, <3>4, <3>5
  <2>16. PICK m : m = 2 * n + 3
    OBVIOUS
  <2>17. ASSUME NEW i \in 1 .. n
         PROVE  /\ s[i].do = "connect" /\ s[i].task = "build" /\ s[i + (n + 1)] = b[i]
    <3>1. i \in 1 .. n + 1 /\ i \in 1 .. (n + 1) + n /\ i + (n + 1) \in 1 .. (n + 1) + n
      BY <2>7
    <3>2. s[i] = q[i] /\ q[i] = p[i] /\ p[i] = a[i]
      BY <3>1, <2>11, <2>14, <2>15
    <3>3. s[i + (n + 1)] = q[i + (n + 1)] /\ q[i + (n + 1)] = b[i]
      BY <3>1, <2>14, <2>15
    <3> QED BY <3>2, <3>3, <2>4
  <2>18. s[n + 1].do = "poll" /\ s[m - 1].do = "wait" /\ s[m].do = "flush" /\ Len(s) = m
    <3>1. /\ n + 1 \in 1 .. n + 1 /\ n + 1 \in 1 .. (n + 1) + n /\ 1 + n = n + 1
          /\ m - 1 = 1 + ((n + 1) + n) /\ m = 2 + ((n + 1) + n) /\ m = ((n + 1) + n) + 2
      BY <2>7, <2>16
    <3>2. s[n + 1] = poll[1]
      BY <3>1, <2>11, <2>14, <2>15
    <3>3. s[m - 1] = last[1] /\ s[m] = last[2]
      BY <3>1, <2>15
    <3> QED BY <3>1, <3>2, <3>3, <1>3, <2>6, <2>15
  <2>19. InOrder(s)
    <3>1. ASSUME NEW i \in 1 .. m
          PROVE  /\ s[i].do = "flush" <=> i = m
                 /\ s[i].do = "wait" <=> i = m - 1
                 /\ opts.interactive /\ opts.stderr /\ s[i].do = "connect"
                      => (s[i].task = "run" /\ s[i].socket = "stdio"
                            => s[i + 1].do = "connect")
      <4>1. CASE i \in 1 .. n
        <5>1. s[i].do = "connect" /\ s[i].task = "build"
          BY <2>17, <4>1
        <5> QED BY <5>1, <2>7, <2>16, <4>1
      <4>2. CASE i = n + 1
        BY <2>7, <2>16, <2>18, <4>2
      <4>3. CASE i \in n + 2 .. 2 * n + 1
        <5>1. PICK j \in 1 .. n : i = j + (n + 1)
          <6>1. i - (n + 1) \in 1 .. n /\ i = (i - (n + 1)) + (n + 1)
            BY <2>7, <4>3
          <6> QED BY <6>1
        <5>2. s[i] = b[j]
          BY <5>1, <2>17
        <5>3. s[i].do = "connect" /\ s[i].socket = w[j]
          BY <5>2, <2>5
        <5>4. ASSUME opts.interactive, opts.stderr, w[j] = "stdio"
              PROVE  s[i + 1].do = "connect"
          <6>1. j + 1 \in 1 .. n
            BY <5>4, <2>8
          <6>2. s[(j + 1) + (n + 1)] = b[j + 1]
            BY <6>1, <2>17
          <6>3. (j + 1) + (n + 1) = i + 1
            BY <5>1, <2>7
          <6> QED BY <6>1, <6>2, <6>3, <2>5
        <5> QED BY <2>7, <2>16, <4>3, <5>3, <5>4
      <4>4. CASE i = m - 1
        BY <2>7, <2>16, <2>18, <4>4
      <4>5. CASE i = m
        BY <2>7, <2>16, <2>18, <4>5
      <4> QED BY <2>7, <2>16, <4>1, <4>2, <4>3, <4>4, <4>5
    <3> QED BY <3>1, <2>18 DEF InOrder
  <2>20. s[1].do = "connect" /\ s # <<>>
    BY <2>7, <2>15, <2>17, EmptySeq
  <2> QED BY <1>1, <2>15, <2>19, <2>20
<1> QED BY <1>4, <1>5

LEMMA BuildStarts == Init => BuildInv
<1> SUFFICES ASSUME Init PROVE BuildInv
  OBVIOUS
<1>1. opts \in RequestOptions
  BY DEF Init
<1>2. opts \in [interactive: BOOLEAN, terminal: BOOLEAN, stdout: BOOLEAN,
                stderr: BOOLEAN, timeout: BOOLEAN]
  BY <1>1, BuildTestAssumption DEF BuildTestAssumption
<1>3. PICK todo : todo = Script(opts)
  OBVIOUS
<1>4. /\ todo \in Seq(ClientStep) /\ InOrder(todo)
      /\ todo # <<>> /\ todo[1].do # "flush"
  BY <1>2, <1>3, ScriptInOrder
<1>5. client = [todo |-> todo, found |-> 0, streams |-> {}, result |-> "none"]
  BY <1>3 DEF Init
<1>6. client \in Client /\ InOrder(client.todo) /\ client.found = 0 /\ ~Reported
  BY <1>4, <1>5 DEF Client, Reported, Step
<1>7. /\ handler = [t \in Task |-> NoHandler] /\ status = [t \in Task |-> "Do"] /\ clean = {}
      /\ setup = [known |-> TRUE, retries |-> 0] /\ tarball = TRUE /\ tree = "none"
      /\ execution = <<>> /\ registered = [t \in Task |-> 0] /\ spread = "not run"
      /\ stopping = FALSE /\ aborts = 0 /\ restarts = 0
  BY DEF Init
<1>8. execution \in Seq(Execution) /\ Len(execution) = 0
  BY <1>7, EmptySeq
<1>9. NoHandler \in HandlerRecord
  BY DEF NoHandler, HandlerRecord, Point
<1>10. MaxBuildRetries \in Nat /\ MaxAborts \in Nat /\ MaxRestarts \in Nat
  BY BuildTestAssumption DEF BuildTestAssumption
<1>11. TypeOK
  <2>1. /\ aborts \in 0 .. MaxAborts /\ restarts \in 0 .. MaxRestarts
        /\ setup \in [known: BOOLEAN, retries: 0 .. MaxBuildRetries]
        /\ registered \in [Task -> Nat]
    <3>1. \A n \in Nat : 0 \in 0 .. n
      OBVIOUS
    <3> QED BY <1>7, <1>10, <3>1
  <2>2. handler \in [Task -> [pc: Point, dying: BOOLEAN, execution: Nat, ok: BOOLEAN]]
    BY <1>7, <1>9 DEF HandlerRecord
  <2>3. status \in [Task -> Status] /\ clean \subseteq Task /\ tree \in Tree
    BY <1>7 DEF Status, Tree
  <2> QED BY <1>1, <1>6, <1>7, <1>8, <2>1, <2>2, <2>3 DEF TypeOK
<1>12. StatusInv /\ BuiltInv
  BY <1>7 DEF StatusInv, BuiltInv, BuildOver, NoHandler, Task
<1>13. HandlerInv
  <2>1. 0 \in 0 .. Len(execution)
    BY <1>8
  <2>2. \A t \in Task : handler[t].pc = "none" /\ handler[t].execution = 0
    BY <1>7 DEF NoHandler
  <2> QED BY <2>1, <2>2 DEF HandlerInv, Task
<1>14. RanInv
  BY <1>6, <1>7 DEF RanInv, NotAborted, NoHandler, Task
<1>15. StreamsInv /\ FoundInv /\ RunNeedsBuild
  <2>1. 0 \in 0 .. Len(execution) /\ 1 .. Len(execution) = {}
    BY <1>8
  <2> QED BY <1>6, <1>7, <2>1 DEF StreamsInv, FoundInv, RunNeedsBuild
<1> QED BY <1>6, <1>11, <1>12, <1>13, <1>14, <1>15 DEF BuildInv

LEMMA BuildStays == BuildInv /\ UNCHANGED vars => BuildInv'
<1> SUFFICES ASSUME BuildInv, UNCHANGED vars PROVE BuildInv'
  OBVIOUS
<1>1. /\ opts' = opts /\ status' = status /\ clean' = clean /\ handler' = handler
      /\ setup' = setup /\ tarball' = tarball /\ tree' = tree /\ spread' = spread
      /\ execution' = execution /\ registered' = registered /\ client' = client
      /\ stopping' = stopping /\ aborts' = aborts /\ restarts' = restarts
  BY DEF vars, changeVars, diskVars, boundVars
<1>2. /\ TypeOK /\ StatusInv /\ HandlerInv /\ BuiltInv /\ RanInv /\ InOrder(client.todo)
      /\ StreamsInv /\ FoundInv /\ RunNeedsBuild
  BY DEF BuildInv
<1>3. TypeOK'
  BY <1>1, <1>2 DEF TypeOK
<1>4. StatusInv'
  BY <1>1, <1>2 DEF StatusInv, BuildOver, Ready
<1>5. HandlerInv'
  BY <1>1, <1>2 DEF HandlerInv
<1>6. BuiltInv'
  BY <1>1, <1>2 DEF BuiltInv, BuildOver
<1>7. RanInv'
  BY <1>1, <1>2 DEF RanInv, NotAborted, Reported, Step
<1>8. InOrder(client.todo)' /\ FoundInv' /\ RunNeedsBuild'
  BY <1>1, <1>2 DEF InOrder, FoundInv, RunNeedsBuild
<1>9. StreamsInv'
  BY <1>1, <1>2 DEF StreamsInv
<1> QED BY <1>3, <1>4, <1>5, <1>6, <1>7, <1>8, <1>9 DEF BuildInv

LEMMA BuildKept == BuildInv /\ [Next]_vars => BuildInv'
<1>1. ASSUME BuildInv, Next PROVE BuildInv'
  BY <1>1, TypeKept, StatusKept, HandlerKept, BuiltKept, RanKept, StreamsKept, RunKept
     DEF BuildInv
<1> QED BY <1>1, BuildStays

LEMMA BuildReports == BuildInv => ReportsTrue
<1> SUFFICES ASSUME BuildInv PROVE ReportsTrue
  OBVIOUS
<1>1. SuccessMeansRun
  <2>1. aborts \in Nat /\ RanInv
    BY Typed DEF BuildInv
  <2>2. aborts = 0 /\ client.result = "ok" => spread # "not run"
    BY <2>1 DEF RanInv, Reported
  <2>3. aborts = 0 \/ aborts > 0
    BY <2>1
  <2> QED BY <2>2, <2>3 DEF SuccessMeansRun
<1>2. ServedStreamsEnd
  <2>1. SUFFICES ASSUME NEW x \in DOMAIN execution,
                        \A t \in Task : handler[t].execution = x
                                        => handler[t].pc \in {"return", "return error"}
                 PROVE  execution[x].served = execution[x].ended
    BY DEF ServedStreamsEnd
  <2>2. x \in 1 .. Len(execution)
    BY ExecutionTyped, LenProperties DEF BuildInv
  <2> QED BY <2>1, <2>2 DEF BuildInv, StreamsInv
<1> QED BY <1>1, <1>2 DEF BuildInv, ReportsTrue

\* What a build-test reports is what ran (buildteststate/handlers.go doBuild, doRun and
\* client/buildtest.go Wait): without a restart of the daemon spread only runs on the tree that
\* snapcraft has built, through retries, aborts and timeouts; a client that is told of success,
\* of a change nobody aborted, is told of a run of spread; and a handler that is done with an
\* execution has ended every stream that it served, so that nobody waits for its output.
THEOREM ReportsAreTrue == Spec => []ReportsTrue
<1>1. Init => BuildInv
  BY BuildStarts
<1>2. BuildInv /\ [Next]_vars => BuildInv'
  BY BuildKept
<1>3. BuildInv => ReportsTrue
  BY BuildReports
<1> QED BY <1>1, <1>2, <1>3, PTL DEF Spec
=============================================================================
