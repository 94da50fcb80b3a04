------------------------------ MODULE Pairing ------------------------------
(***************************************************************************)
(* The pairing manager: a window that a proof of ownership opens for some  *)
(* time, in which the first request with a client certificate makes that   *)
(* certificate an administrator.  It composes the manager's lock, the      *)
(* identities under the state lock, and the overlord's next ensure pass.   *)
(***************************************************************************)
EXTENDS Identities

CONSTANTS
  Timeouts,        \* how long a window may stay open
  MaxNow,          \* bound: ticks
  MaxSuffix,       \* maxUsernameSuffix
  UserName         \* the names "user-1", "user-2", ... in their order

ASSUME PairingAssumption ==
  /\ MaxNow \in Nat /\ MaxSuffix \in Nat /\ Timeouts \subseteq Nat
  /\ "free" \notin Clients

VARIABLES
  now,
  mode,         \* config.Mode, as PlanChanged announced it last
  enabled, expiry,
  paired,       \* details.Paired
  savedPaired,  \* the entry "pairing-details" of the state
  mu,           \* who holds the manager's lock between two steps, or "free"
  ensureAt,     \* when the overlord runs Ensure next
  opened,       \* history: pairings since the window was opened
  total,        \* history: pairings so far
  late          \* history: a pairing in mode "single" was not the first

windowVars == <<mode, enabled, expiry, ensureAt>>
pairVars == <<now, windowVars, paired, savedPaired, mu, opened, total, late>>
identityVars == <<identities, saved, req, pairVars>>

Modes == {"unset", "disabled", "single", "multiple"}
Earlier(a, b) == IF a < b THEN a ELSE b

PairingInit ==
  /\ IdentitiesInit
  /\ now = 0 /\ mode = "unset" /\ enabled = FALSE /\ expiry = 0
  /\ paired = FALSE /\ savedPaired = FALSE /\ mu = "free" /\ ensureAt = MaxNow
  /\ opened = 0 /\ total = 0 /\ late = FALSE

PairingTypeOK ==
  /\ now \in 0..MaxNow /\ mode \in Modes /\ enabled \in BOOLEAN /\ paired \in BOOLEAN
  /\ mu \in Clients \cup {"free"} /\ ensureAt \in 0..MaxNow
  /\ \A c \in Clients : mu = c <=> req[c].pc = "locks"

\* Mutant: it stays open.
PlanChangedOnly ==
  /\ mu = "free"
  /\ mode' \in Modes
  /\ UNCHANGED <<identities, saved, req, now, enabled, expiry, paired, savedPaired, mu, ensureAt,
                 opened, total, late>>

\* The plan changed: a window of another mode is closed.
PlanChanged ==
  /\ mu = "free"
  /\ mode' \in Modes
  /\ enabled' = (enabled /\ mode' = mode)
  /\ UNCHANGED <<identities, saved, req, now, expiry, paired, savedPaired, mu, ensureAt,
                 opened, total, late>>

EnsureBefore(at, d) == Earlier(at, now + d)

\* The overlord resets its timer and then runs the managers.
Ensure ==
  /\ mu = "free" /\ now >= ensureAt
  /\ IF enabled /\ now < expiry
     THEN /\ ensureAt' = EnsureBefore(MaxNow, expiry - now)
          /\ UNCHANGED enabled
     ELSE ensureAt' = MaxNow /\ enabled' = FALSE
  /\ UNCHANGED <<identities, saved, req, now, mode, expiry, paired, savedPaired, mu, opened, total,
                 late>>

\* Programs that embed the daemon open the window, for instance for a button.
EnablePairing ==
  /\ mu = "free"
  /\ mode = "multiple" \/ (mode = "single" /\ ~paired)
  /\ \E timeout \in Timeouts :
       /\ now + timeout <= MaxNow
       /\ expiry' = now + timeout /\ ensureAt' = EnsureBefore(ensureAt, timeout)
  /\ enabled' = TRUE /\ opened' = 0
  /\ UNCHANGED <<identities, saved, req, now, mode, paired, savedPaired, mu, total, late>>

\* PairMTLS up to the state lock: it holds its own lock from here on.
PairBegin(c) ==
  /\ Handles(c, "pairing", "POST") /\ mu = "free"
  /\ CASE req[c].r.cert = None -> Finish(c) /\ UNCHANGED <<mu, enabled>>
       [] enabled /\ req[c].r.cert \in SelfSigned ->
            mu' = c /\ Move(c, "locks", req[c].user) /\ UNCHANGED enabled
       [] OTHER -> Finish(c) /\ enabled' = FALSE /\ UNCHANGED mu
  /\ UNCHANGED <<identities, saved, now, mode, expiry, paired, savedPaired, ensureAt, opened,
                 total, late>>

\* The first of the names that no identity has, if there is one.
GenerateUniqueUsername ==
  { i \in 1..MaxSuffix : /\ UserName[i] \notin DOMAIN identities
                         /\ \A j \in 1..(i - 1) : UserName[j] \in DOMAIN identities }

\* The rest, under the state lock: the identity and the mark that a client has
\* paired are saved together.  The window is closed whatever happens.
PairMTLS(c) ==
  LET cert == req[c].r.cert
      known == \E n \in DOMAIN identities : identities[n].cert = cert
      added == { n \in { UserName[i] : i \in GenerateUniqueUsername } : ~known }
      new == [n \in added |-> [access |-> "admin", local |-> None, basic |-> None, cert |-> cert]]
      done == known \/ added # {}
  IN /\ req[c].pc = "locks" /\ mu = c
     /\ Finish(c) /\ mu' = "free" /\ enabled' = FALSE
     /\ IF added = {} THEN UNCHANGED <<identities, saved>> ELSE AddIdentities(new)
     /\ paired' = (paired \/ done) /\ savedPaired' = (savedPaired \/ done)
     /\ opened' = IF done THEN opened + 1 ELSE opened
     /\ total' = IF done THEN Earlier(total + 1, 2) ELSE total
     /\ late' = (late \/ (done /\ mode = "single" /\ total > 0))
     /\ UNCHANGED <<now, mode, expiry, ensureAt>>

\* A tick, once the ensure pass that is due has run.
PairTick ==
  /\ now < MaxNow /\ (now < ensureAt)
  /\ now' = now + 1
  /\ UNCHANGED <<identities, saved, req, windowVars, paired, savedPaired, mu, opened, total, late>>

\* The daemon ends and starts again: requests are lost, the plan is announced anew.
PairRestart ==
  /\ LoadIdentities /\ paired' = savedPaired
  /\ req' = [c \in Clients |-> Unserved]
  /\ mode' = "unset" /\ enabled' = FALSE /\ expiry' = 0 /\ mu' = "free" /\ ensureAt' = now
  /\ UNCHANGED <<now, savedPaired, opened, total, late>>

PairingNext ==
  \/ PlanChanged \/ Ensure \/ EnablePairing \/ PairTick \/ PairRestart
  \/ \E c \in Clients :
       \/ PairBegin(c) \/ PairMTLS(c)
       \/ (Arrive(c) \/ GetHandler(c) \/ PostIdentities(c)) /\ UNCHANGED pairVars
       \/ /\ req[c].r.endpoint = "pairing" => mu = "free"
          /\ ServeHTTP(c, enabled) /\ UNCHANGED pairVars

PairingSpec == PairingInit /\ [][PairingNext]_identityVars

-----------------------------------------------------------------------------
(* Properties *)

\* A window lets in one client: the request that pairs closes it for all that passed the
\* access check while it was open.
OnePairingPerWindow == opened <= 1

\* With mode "single" only the first pairing ever is one, over restarts and changes of the
\* mode while a window is open.
SinglePairsOnce == ~late

\* That a client has paired, and its identity, survive the daemon.
PairedIsKept == (total > 0 <=> paired) /\ savedPaired = paired

\* An open window is closed by an ensure pass that comes no later than its expiry.
WindowCloses == enabled => ensureAt <= expiry /\ now <= expiry

\* The identities in memory are those in the state, and a uid has one identity at most.
IdentitiesAgree == identities = saved /\ VerifyUniqueUserIDs(identities)

\* What holds of the window, of who paired in it, and of the identities.
PairingSound ==
  /\ PairingTypeOK /\ IdentitiesAgree
  /\ OnePairingPerWindow /\ SinglePairsOnce /\ PairedIsKept /\ WindowCloses
=============================================================================
