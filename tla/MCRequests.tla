----------------------------- MODULE MCRequests -----------------------------
(***************************************************************************)
(* Three groups of requests of the API, each with what it changes: notices *)
(* and the commands that list them, identities and pairing, and the order  *)
(* in which services are started and stopped.  They share no state, and a  *)
(* behaviour has the requests of one group.                                *)
(***************************************************************************)
EXTENDS Notices, Pairing, PlanOrder, TLC

VARIABLE group

(* Notices: who lists what, and the notices that occur *)
Key(user, type, key) == [user |-> user, type |-> type, key |-> key]
Mine == Key("me", "custom", "a")
Theirs == Key("them", "custom", "a")
Warning == Key(Public, "warning", "w")
ChangeUpdate == Key(Public, "change-update", "1")
MCNoticeKeys == {Mine, Theirs, Warning, ChangeUpdate}

Scene == [hasUid |-> TRUE, admin |-> FALSE, uid |-> "me", other |-> "them", asks |-> "own",
          types |-> {"custom", "warning"}, cmds |-> {"notices", "okay"}, keys |-> {Mine, Warning},
          procs |-> Procs]
MCScenes == {
  Scene,
  [Scene EXCEPT !.cmds = {"warnings", "okay"}, !.procs = {"p"}],
  [Scene EXCEPT !.admin = TRUE, !.asks = "all", !.types = {}, !.keys = {Mine, Theirs},
                !.procs = {"p"}],
  [Scene EXCEPT !.admin = TRUE, !.asks = "other", !.cmds = {"notices", "notice"},
                !.keys = {Theirs}, !.procs = {"p"}],
  [Scene EXCEPT !.asks = "other", !.keys = {Mine}, !.procs = {"p"}],
  [Scene EXCEPT !.types = {}, !.cmds = {"notices"}, !.keys = {ChangeUpdate},
                !.procs = {"p"}],
  [Scene EXCEPT !.hasUid = FALSE, !.cmds = {"notices", "notice"},
                !.keys = {Mine}, !.procs = {"p"}],
  [Scene EXCEPT !.types = {"unknown"}, !.cmds = {"notices"}, !.keys = {Mine},
                !.procs = {"p"}] }

(* Identities and pairing *)
R == NoRequest
MCRequestInputs == {
  [R EXCEPT !.endpoint = "identities", !.method = "POST", !.uid = "u0"],
  [R EXCEPT !.endpoint = "identities", !.method = "POST", !.uid = "u5"],
  [R EXCEPT !.endpoint = "pairing", !.method = "POST", !.transport = "https", !.cert = "c1"],
  [R EXCEPT !.endpoint = "pairing", !.method = "POST", !.transport = "https", !.cert = "c2"],
  [R EXCEPT !.endpoint = "identities", !.method = "POST", !.transport = "https", !.cert = "c1"],
  [R EXCEPT !.endpoint = "metrics", !.transport = "http", !.username = "bob", !.password = "pw"] }
Identity(access, local, basic, cert) ==
  [access |-> access, local |-> local, basic |-> basic, cert |-> cert]
MCPayloads == {
  "bob" :> Identity("admin", "u5", None, None), "bob" :> Identity("metrics", None, "pw", None),
  "bob" :> Null,
  "bob" :> Null @@ "user-1" :> Identity("read", "u5", None, "c1") }
MCUserNames == <<"user-1", "user-2">>

(* Plans of three services, and one of four in which a service is given two lanes *)
Service(requires, after, before, startup) ==
  [requires |-> requires, after |-> after, before |-> before, startup |-> startup]
MCCandidates ==
  { "a" :> Service(ra, aa, ba, TRUE) @@ "b" :> Service(rb, ab, <<>>, FALSE)
      @@ "c" :> Service(rc, ac, <<>>, FALSE) :
    ra \in {<<>>, <<"b">>, <<"c">>, <<"b", "c">>}, rb \in {<<>>, <<"c">>}, rc \in {<<>>, <<"a">>},
    aa \in {<<>>, <<"b">>, <<"c">>}, ab \in {<<>>, <<"c">>}, ac \in {<<>>, <<"a">>},
    ba \in {<<>>, <<"b">>} }
  \cup { "a" :> Service(<<"c">>, <<"c">>, <<>>, TRUE)
           @@ "b" :> Service(<<"d", "c">>, <<"d", "c">>, <<>>, TRUE)
           @@ "c" :> Service(<<>>, <<>>, <<>>, FALSE) @@ "d" :> Service(<<>>, <<>>, <<>>, FALSE) }
Request(action, names) == [action |-> action, names |-> names]
MCServiceRequests == {
  Request("start", {"a"}), Request("start", {"a", "b"}), Request("stop", {"c"}),
  Request("stop", {"a", "unknown"}), Request("restart", {"b", "c"}), Request("replan", {}),
  Request("autostart", {}) }
Situation(runs, has, differs) == [running |-> runs, data |-> has, stale |-> differs]
MCSituations == {
  Situation({}, {}, {}), Situation({"a", "b", "c"}, {}, {"b"}),
  Situation({"c"}, {"a"}, {"a", "c"}) }
MCSortedNames == <<"a", "b", "c", "d">>
MCIterations == {<<"a", "b", "c", "d">>, <<"d", "c", "b", "a">>}

Init ==
  /\ group \in {"notices", "pairing", "services"}
  /\ NoticesInit /\ PairingInit /\ OrderInit
  /\ group # "notices" => scene = Scene
  /\ group # "services" => iteration = MCSortedNames

Next ==
  /\ \/ group = "notices" /\ NoticesNext /\ UNCHANGED <<identityVars, orderVars>>
     \/ group = "pairing" /\ PairingNext /\ UNCHANGED <<noticeVars, orderVars>>
     \/ group = "services" /\ OrderNext /\ UNCHANGED <<noticeVars, identityVars>>
  /\ UNCHANGED group

Spec == Init /\ [][Next]_<<group, noticeVars, identityVars, orderVars>>
=============================================================================
