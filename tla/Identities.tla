----------------------------- MODULE Identities -----------------------------
(***************************************************************************)
(* The named identities of the daemon, how a request is given a user, and  *)
(* what its endpoint lets that user do.                                    *)
(*                                                                         *)
(* A password or a certificate is the credential it checks, not its bytes. *)
(***************************************************************************)
EXTENDS Integers, FiniteSets

CONSTANTS
  None,           \* no uid, no credentials, no certificate
  Names,          \* names that pass identityNameRegexp
  RootUids,       \* uid 0 and the uid the daemon runs as
  Certs,          \* client certificates
  SelfSigned,     \* those that verify themselves
  Clients,        \* requests that may be served at the same time
  RequestInputs,  \* bound: the requests they make
  Payloads        \* bound: the bodies of POST /v1/identities

VARIABLES
  identities,  \* Manager.identities: a function from some names
  saved,       \* the entry "identities" of the state, on disk once the lock is released
  req          \* the requests: where each is, what it asks for, and its user

NoUser == [access |-> "none", uid |-> None, name |-> None]
NoRequest == [transport |-> "unix", uid |-> None, username |-> None, password |-> None,
              cert |-> None, endpoint |-> "health", method |-> "GET"]
Unserved == [pc |-> "idle", r |-> NoRequest, user |-> NoUser]

\* An entry of a payload without a value.
Null == [access |-> "null", local |-> None, basic |-> None, cert |-> None]

AccessLevels == {"admin", "read", "metrics", "untrusted"}

\* At least one type and one of the access levels; the name is one of Names.
Validate(name, i) ==
  /\ name \in Names /\ i.access \in AccessLevels
  /\ i.local # None \/ i.basic # None \/ i.cert # None

\* Only uids are compared: two names may have the same certificate.
VerifyUniqueUserIDs(ids) ==
  \A a, b \in DOMAIN ids :
    (ids[a].local # None /\ ids[a].local = ids[b].local) => a = b

IdentitiesInit ==
  /\ identities = <<>> /\ saved = <<>>
  /\ req = [c \in Clients |-> Unserved]

\* NewManager reads them again.
LoadIdentities == identities' = saved /\ UNCHANGED saved

Set(ids) == identities' = ids /\ saved' = ids

NamedOver(m) ==
  [n \in DOMAIN identities \cup DOMAIN m |-> IF n \in DOMAIN m THEN m[n] ELSE identities[n]]
Valid(m) == \A n \in DOMAIN m : Validate(n, m[n])

AddIdentities(m) ==
  /\ Valid(m) /\ DOMAIN m \cap DOMAIN identities = {}
  /\ VerifyUniqueUserIDs(NamedOver(m)) /\ Set(NamedOver(m))

UpdateIdentities(m) ==
  /\ Valid(m) /\ DOMAIN m \subseteq DOMAIN identities
  /\ VerifyUniqueUserIDs(NamedOver(m)) /\ Set(NamedOver(m))

\* Names without a value are removed, if they are there.
ReplaceIdentities(m) ==
  LET removed == { n \in DOMAIN m : m[n] = Null }
      replaced == [n \in (DOMAIN identities \cup DOMAIN m) \ removed |-> NamedOver(m)[n]]
  IN /\ \A n \in DOMAIN m \ removed : Validate(n, m[n])
     /\ VerifyUniqueUserIDs(replaced) /\ Set(replaced)

RemoveIdentities(m) ==
  /\ DOMAIN m \subseteq DOMAIN identities
  /\ Set([n \in DOMAIN identities \ DOMAIN m |-> identities[n]])

\* What a request's inputs may match: a certificate before a password before a
\* uid, and no second attempt.
IdentityFromInputs(uid, username, password, cert) ==
  CASE cert # None -> { n \in DOMAIN identities : identities[n].cert = cert /\ cert \in SelfSigned }
    [] cert = None /\ username # None ->
         { n \in DOMAIN identities : n = username /\ identities[n].basic = password }
    [] OTHER -> { n \in DOMAIN identities : uid # None /\ identities[n].local = uid }

-----------------------------------------------------------------------------
(* Requests *)

IsConcealed(transport) == transport \in {"unix", "https"}

\* Credentials of HTTP basic authentication are not read over HTTPS, a
\* certificate only over it, and there is a uid only on the unix socket.
UserFromRequest(r) ==
  LET username == IF r.transport = "https" THEN None ELSE r.username
      found == IdentityFromInputs(r.uid, username, r.password, r.cert)
  IN IF found = {} THEN {NoUser}
     ELSE { [access |-> identities[n].access, name |-> n,
             uid |-> IF identities[n].local # None THEN r.uid ELSE None] : n \in found }

\* Somebody on the unix socket who is not a named identity has the access of its uid.
DefaultUser(r, user) ==
  IF user # NoUser \/ r.uid = None THEN user
  ELSE [access |-> IF r.uid \in RootUids THEN "admin" ELSE "read", uid |-> r.uid, name |-> None]

AdminAccess(r, user) == IsConcealed(r.transport) /\ user.access = "admin"
UserAccess(r, user) == IsConcealed(r.transport) /\ user.access \in {"read", "admin"}
MetricsAccess(r, user) ==
  \/ r.transport = "http" /\ user.access = "metrics"
  \/ IsConcealed(r.transport) /\ user.access \in {"metrics", "read", "admin"}

\* The access checker of an endpoint; "pairing" has one of its own.
CheckAccess(r, user, pairingEnabled) ==
  CASE r.endpoint = "health" -> TRUE
    [] r.endpoint = "metrics" -> MetricsAccess(r, user)
    [] r.endpoint = "pairing" -> r.transport = "https" /\ pairingEnabled
    [] OTHER -> IF r.method = "GET" THEN UserAccess(r, user) ELSE AdminAccess(r, user)

Arrive(c) ==
  /\ req[c].pc = "idle"
  /\ \E r \in RequestInputs : req' = [req EXCEPT ![c] = [Unserved EXCEPT !.pc = "arrived", !.r = r]]
  /\ UNCHANGED <<identities, saved>>

Finish(c) == req' = [req EXCEPT ![c] = Unserved]
Move(c, pc, user) == req' = [req EXCEPT ![c] = [pc |-> pc, r |-> req[c].r, user |-> user]]

\* ServeHTTP up to the handler, which runs later, when the identities may differ.
ServeHTTP(c, pairingEnabled) ==
  LET r == req[c].r
  IN /\ req[c].pc = "arrived"
     /\ \E u \in (IF r.endpoint = "health" THEN {NoUser} ELSE UserFromRequest(r)) :
          LET user == DefaultUser(r, u)
          IN IF CheckAccess(r, user, pairingEnabled)
             THEN Move(c, "handles", user)
             ELSE Finish(c)
     /\ UNCHANGED <<identities, saved>>

Handles(c, endpoint, method) ==
  req[c].pc = "handles" /\ req[c].r.endpoint = endpoint /\ req[c].r.method = method

\* GET /v1/identities, and handlers that change nothing here.
GetHandler(c) ==
  /\ req[c].pc = "handles" /\ req[c].r.method = "GET"
  /\ Finish(c) /\ UNCHANGED <<identities, saved>>

\* The commands: a file with at least one name; "remove-identities" wants no values.
ReadIdentities == { m \in Payloads : DOMAIN m # {} }
AddCommand(m) == (\A n \in DOMAIN m : m[n] # Null) /\ AddIdentities(m)
UpdateCommand(m, replace) ==
  \/ replace /\ ReplaceIdentities(m)
  \/ ~replace /\ (\A n \in DOMAIN m : m[n] # Null) /\ UpdateIdentities(m)
RemoveCommand(m) == (\A n \in DOMAIN m : m[n] = Null) /\ RemoveIdentities(m)

\* POST /v1/identities: all of the payload or, with an error, nothing.
PostIdentities(c) ==
  /\ Handles(c, "identities", "POST") /\ Finish(c)
  /\ \/ \E m \in ReadIdentities :
          AddCommand(m) \/ RemoveCommand(m) \/ \E replace \in BOOLEAN : UpdateCommand(m, replace)
     \/ UNCHANGED <<identities, saved>>
=============================================================================
