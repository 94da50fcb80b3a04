----------------------------- MODULE PlanOrder -----------------------------
(***************************************************************************)
(* In which order a request starts and stops services: the services it     *)
(* reaches, their topological order, the lanes this order is cut into, and *)
(* the tasks of the change, of which each waits for the one before it in   *)
(* its lane.                                                               *)
(*                                                                         *)
(* A service is started or stopped in one step here; module Service has    *)
(* the steps of one service and TaskRunner those of any change.            *)
(***************************************************************************)
EXTENDS Integers, FiniteSets, Sequences, SequencesExt, Relation

CONSTANTS
  SortedNames,     \* the names of services, sorted
  Candidates,      \* bound: the plans that layers combine to
  Iterations,      \* bound: orders in which Go may iterate over a map of names
  ServiceRequests, \* bound: the requests: an action and the names it is given
  Situations       \* bound: what is running and has changed when it arrives

VARIABLES
  plan,      \* for each service: requires, after, before and startup; see Candidates
  iteration,
  verdict,   \* whether the plan was accepted: "none" before, "ok", "loop"
  data,      \* the keys of ServiceManager.services
  running,
  stale,     \* those whose configuration there is not the one of the plan
  outdated,  \* those that run with an older configuration
  tasks,     \* the tasks of the change, in the order they were made
  asked,     \* the request: its action, its names, its answer
  ran,       \* history: what ran when the request arrived
  differed,  \* history: what was stale then
  moved      \* history: services that were given a lane and then another

orderVars == <<plan, iteration, verdict, data, running, stale, outdated, tasks, asked, ran,
               differed, moved>>

-----------------------------------------------------------------------------
(* Tarjan's algorithm, as it is written: d has the indexes of the nodes    *)
(* seen, their low links, the stack and the components found so far.       *)

RECURSIVE StrongConnect(_, _, _)
StrongConnect(succs, d, id) ==
  LET index == Cardinality(DOMAIN d.index)
      With(f, v) == [x \in DOMAIN f \cup {id} |-> IF x = id THEN v ELSE f[x]]
      Lower(e, v) == IF v < e.low[id] THEN [e EXCEPT !.low[id] = v] ELSE e
      Visit(e, s) ==
        IF s \notin DOMAIN e.index
        THEN LET f == StrongConnect(succs, e, s) IN Lower(f, f.low[s])
        ELSE IF s \in ToSet(e.stack) THEN Lower(e, e.index[s]) ELSE e
      seen == FoldLeft(Visit,
                [d EXCEPT !.index = With(@, index), !.low = With(@, index),
                          !.stack = Append(@, id)],
                succs[id])
      at == CHOOSE i \in DOMAIN seen.stack : seen.stack[i] = id
  IN IF seen.low[id] # index THEN seen
     ELSE [seen EXCEPT !.output = Append(@, SubSeq(seen.stack, at, Len(seen.stack))),
                       !.stack = SubSeq(@, 1, at - 1)]

\* The components, starting from the names in alphabetical order.
TarjanSort(succs) ==
  LET Start(d, id) == IF id \in DOMAIN d.index THEN d ELSE StrongConnect(succs, d, id)
      ids == SelectSeq(SortedNames, LAMBDA n : n \in DOMAIN succs)
      new == [index |-> <<>>, low |-> <<>>, stack |-> <<>>, output |-> <<>>]
  IN FoldLeft(Start, new, ids).output

-----------------------------------------------------------------------------
(* plan.order and the lanes *)

Requires(p, n) == IF n \in DOMAIN p THEN ToSet(p[n].requires) ELSE {}

\* The services that are to be started with names, or stopped.
Reached(p, names, stop) ==
  LET Next1(S) == IF stop THEN { n \in DOMAIN p : Requires(p, n) \cap S # {} }
                  ELSE UNION { Requires(p, n) : n \in S }
      RECURSIVE Grow(_)
      Grow(S) == IF Next1(S) \subseteq S THEN S ELSE Grow(S \cup Next1(S))
  IN Grow(names)

\* Mutant: the lists are not swapped for a stop, and it goes in the order of the start.
SuccessorsOfStart(p, members, stop, iter) ==
  LET Among(s) == SelectSeq(s, LAMBDA n : n \in members)
      AddTo(n, succs, b) == [succs EXCEPT ![b] = Append(@, n)]
      Add(succs, n) ==
        FoldLeft(LAMBDA t, b : AddTo(n, t, b), [succs EXCEPT ![n] = @ \o Among(p[n].after)],
                 Among(p[n].before))
  IN FoldLeft(Add, [n \in members |-> <<>>], Among(iter))

\* For each of them, those that come first: its own list, and an entry for each service
\* that names it in the other list, in the order of the map's iteration.
Successors(p, members, stop, iter) ==
  LET After(n) == IF stop THEN p[n].before ELSE p[n].after
      Before(n) == IF stop THEN p[n].after ELSE p[n].before
      Among(s) == SelectSeq(s, LAMBDA n : n \in members)
      AddTo(n, succs, b) == [succs EXCEPT ![b] = Append(@, n)]
      Add(succs, n) ==
        FoldLeft(LAMBDA t, b : AddTo(n, t, b), [succs EXCEPT ![n] = @ \o Among(After(n))],
                 Among(Before(n)))
  IN FoldLeft(Add, [n \in members |-> <<>>], Among(iter))

\* The services in their order, or why there is none.
Order(p, names, stop, iter) ==
  LET members == Reached(p, names, stop)
      components == TarjanSort(Successors(p, members, stop, iter))
  IN IF ~(members \subseteq DOMAIN p) THEN [error |-> "unknown", names |-> <<>>]
     ELSE IF \E i \in DOMAIN components : Len(components[i]) > 1
     THEN [error |-> "loop", names |-> <<>>]
     ELSE [error |-> "none", names |-> FlattenSeq(components)]

\* Mutant: a service that has no lane yet goes to one of its own.
LaneOfItself(p, name, d) ==
  LET lane == IF name \in DOMAIN d.lane THEN d.lane[name] ELSE d.last + 1
  IN [lane |-> [n \in DOMAIN d.lane \cup {name} |-> IF n = name THEN lane ELSE d.lane[n]],
      last |-> lane,
      moved |-> {}]

\* A service goes to the lane of its own or of the first service it requires that has
\* one, else to the lane after the one used last, and takes what it requires with it.
LaneOf(p, name, d) ==
  LET mapped == SelectSeq(<<name>> \o p[name].requires, LAMBDA n : n \in DOMAIN d.lane)
      lane == IF mapped = <<>> THEN d.last + 1 ELSE d.lane[Head(mapped)]
      mates == {name} \cup Requires(p, name)
  IN [lane |-> [n \in DOMAIN d.lane \cup mates |-> IF n \in mates THEN lane ELSE d.lane[n]],
      last |-> lane,
      moved |-> d.moved \cup { n \in mates \cap DOMAIN d.lane : d.lane[n] # lane }]

Mapping(p, names) ==
  FoldLeft(LAMBDA d, n : LaneOf(p, n, d), [lane |-> <<>>, last |-> -1, moved |-> {}], names)
CreateLanes(p, names) ==
  LET lane == Mapping(p, names).lane
  IN [i \in 1..(1 + Len(names)) |-> SelectSeq(names, LAMBDA n : lane[n] = i - 1)]

-----------------------------------------------------------------------------
(* Requests *)

\* The tasks for some lanes, after the tasks there are.
AddTasks(before, kind, lanes, after) ==
  LET Task(ts, n, l) ==
        LET prev == { i \in (Len(before) + 1)..Len(ts) : ts[i].lane = l }
        IN Append(ts, [kind |-> kind, name |-> n, lane |-> l, status |-> "do",
                       waits |-> after \cup { i \in prev : \A j \in prev : j <= i }])
      Lane(ts, l) == FoldLeft(LAMBDA us, n : Task(us, n, l), ts, lanes[l])
  IN FoldLeft(Lane, before, [l \in DOMAIN lanes |-> l])

\* Those asked for, in the order of the lanes.
IntersectOrdered(names, lanes) ==
  [l \in DOMAIN lanes |-> SelectSeq(lanes[l], LAMBDA n : n \in names)]

Enabled == { n \in DOMAIN plan : plan[n].startup }

OrderInit ==
  /\ plan = <<>> /\ iteration \in Iterations /\ verdict = "none"
  /\ data = {} /\ running = {} /\ stale = {} /\ outdated = {} /\ tasks = <<>>
  /\ asked = [action |-> "none", names |-> {}, answer |-> "none"]
  /\ ran = {} /\ differed = {} /\ moved = {}

\* CheckCycles: layers that combine to a plan with a loop are refused.
CheckCycles(p) == Order(p, DOMAIN p, FALSE, iteration).error = "none"

\* Some of the services of the plan run, and some of them are not as the plan has them.
Combine ==
  /\ verdict = "none"
  /\ \E p \in Candidates :
       IF CheckCycles(p)
       THEN /\ plan' = p /\ verdict' = "ok"
            /\ \E s \in Situations :
                 /\ running' = s.running \cap DOMAIN p /\ stale' = s.stale \cap s.data \cap DOMAIN p
                 /\ data' = (s.data \cup s.running) \cap DOMAIN p
            /\ outdated' = running' \cap stale'
       ELSE /\ plan' = p /\ verdict' = "loop"
            /\ UNCHANGED <<data, running, stale, outdated>>
  /\ UNCHANGED <<iteration, tasks, asked, ran, differed, moved>>

\* ServiceManager.Replan: what to stop and what to start.  It takes the configuration
\* over at once.  A service that depends on one of stop is stopped with it.
ReplanSets == [stop |-> stale, start |-> stale \cup Enabled]

\* Lanes for stopping some services, those asked for and what must stop with them.
StopOrder(names) == Order(plan, names, TRUE, iteration)
StartOrder(names) == Order(plan, names, FALSE, iteration)

\* v1PostServices, under the state lock.
PostServices ==
  /\ verdict = "ok" /\ asked.action = "none"
  /\ \E r \in ServiceRequests :
     LET act == r.action
         starts == CASE act = "autostart" -> Enabled
                     [] act = "replan" -> ReplanSets.start
                     [] act = "stop" -> {}
                     [] OTHER -> r.names
         stops == CASE act = "replan" -> ReplanSets.stop
                    [] act \in {"stop", "restart"} -> r.names
                    [] OTHER -> {}
         stopped == StopOrder(stops)
         started == StartOrder(starts)
         lanes == CreateLanes(plan, stopped.names)
         stopTasks == AddTasks(<<>>, "stop",
                        IF act = "restart" THEN IntersectOrdered(stops, lanes) ELSE lanes, {})
         allTasks == AddTasks(stopTasks, "start", CreateLanes(plan, started.names),
                              DOMAIN stopTasks)
         needed == act \in {"start", "stop", "restart"}
         refused == needed = (r.names = {}) \/ (act = "autostart" /\ Enabled = {})
         failed == "unknown" \in {stopped.error, started.error}
                     \/ "loop" \in {stopped.error, started.error}
     IN /\ asked' = [action |-> act, names |-> r.names,
                     answer |-> IF refused \/ failed THEN "400" ELSE "202"]
        /\ stale' = IF act = "replan" THEN {} ELSE stale
        /\ tasks' = IF refused \/ failed THEN <<>> ELSE allTasks
        /\ moved' = IF refused \/ failed THEN {} ELSE Mapping(plan, started.names).moved
  /\ ran' = running /\ differed' = stale
  /\ UNCHANGED <<plan, iteration, verdict, data, running, outdated>>

\* A task whose predecessors are done ends, well or not.
RunTask ==
  /\ \E i \in DOMAIN tasks :
       /\ tasks[i].status = "do" /\ \A w \in tasks[i].waits : tasks[w].status = "done"
       /\ LET n == tasks[i].name
          IN \/ /\ tasks' = [tasks EXCEPT ![i].status = "done"]
                /\ IF tasks[i].kind = "start"
                   THEN /\ running' = running \cup {n} /\ data' = data \cup {n}
                        /\ stale' = IF n \in running THEN stale ELSE stale \ {n}
                        /\ UNCHANGED outdated
                   ELSE running' = running \ {n} /\ outdated' = outdated \ {n}
                        /\ UNCHANGED <<data, stale>>
             \/ /\ tasks' = [tasks EXCEPT ![i].status = "error"]
                /\ UNCHANGED <<data, running, stale, outdated>>
  /\ UNCHANGED <<plan, iteration, verdict, asked, ran, differed, moved>>

\* When the daemon ends: those of all services that run.
StopRunning ==
  /\ verdict = "ok" /\ asked.action = "none" /\ running # {}
  /\ tasks' = AddTasks(<<>>, "stop",
                IntersectOrdered(running, CreateLanes(plan, StopOrder(DOMAIN plan).names)), {})
  /\ asked' = [action |-> "shutdown", names |-> {}, answer |-> "none"]
  /\ ran' = running /\ differed' = stale
  /\ UNCHANGED <<plan, iteration, verdict, data, running, stale, outdated, moved>>

\* The data of services that have not run for long, or that are too many, is dropped.
PruneServices ==
  /\ verdict = "ok" /\ asked.action = "none"
  /\ \E dropped1 \in SUBSET (data \ running) \ {{}} :
       data' = data \ dropped1 /\ stale' = stale \ dropped1
  /\ UNCHANGED <<plan, iteration, verdict, running, outdated, tasks, asked, ran, differed, moved>>

OrderNext == Combine \/ PostServices \/ StopRunning \/ PruneServices \/ RunTask

-----------------------------------------------------------------------------
(* Properties *)

Pairs(p) == (DOMAIN p) \X (DOMAIN p)

\* What the two lists of all services say: b is to start before a.
StartsAfter(p) ==
  [x \in Pairs(p) |-> x[2] \in ToSet(p[x[1]].after) \/ x[1] \in ToSet(p[x[2]].before)]
Needs(p) == TransitiveClosure([x \in Pairs(p) |-> x[2] \in Requires(p, x[1])], DOMAIN p)
WithNeeded(names) ==
  names \cup { n \in DOMAIN plan : \E m \in names : <<m, n>> \in Pairs(plan) /\ Needs(plan)[m, n] }
WithDependents(names) ==
  names \cup { n \in DOMAIN plan : \E m \in names : <<n, m>> \in Pairs(plan) /\ Needs(plan)[n, m] }

TasksOf(kind) == { i \in DOMAIN tasks : tasks[i].kind = kind }
NamesOf(kind) == { tasks[i].name : i \in TasksOf(kind) }

\* Layers are refused if and only if two of their services come before each other, and a
\* plan that was accepted has an order for every request.
LoopsAreRefused ==
  verdict # "none" =>
    LET R == [x \in Pairs(plan) |-> x[1] # x[2] /\ StartsAfter(plan)[x]]
    IN (verdict = "loop") = \E n \in DOMAIN plan : TransitiveClosure(R, DOMAIN plan)[n, n]
AcceptedPlansOrder ==
  /\ asked.answer = "400" =>
       \/ ~(asked.names \subseteq DOMAIN plan)
       \/ (asked.action \in {"start", "stop", "restart"}) = (asked.names = {})
       \/ asked.action = "autostart" /\ Enabled = {}

\* A service has one task of a kind; what it requires starts with it, and what depends on
\* it stops with it.
EachOnce ==
  /\ \A i, j \in DOMAIN tasks :
       tasks[i].kind = tasks[j].kind /\ tasks[i].name = tasks[j].name => i = j
  /\ asked.answer = "202" =>
       /\ asked.action = "start" => NamesOf("start") = WithNeeded(asked.names)
       /\ asked.action = "stop" => NamesOf("stop") = WithDependents(asked.names)
       /\ asked.action = "restart" =>
            NamesOf("stop") = asked.names /\ NamesOf("start") = WithNeeded(asked.names)
       /\ asked.action = "replan" =>
            /\ NamesOf("stop") = WithDependents(differed)
            /\ NamesOf("start") = WithNeeded(differed \cup Enabled)

\* In a lane, no service starts after one that is to start after it, nor stops before.
LaneOrder ==
  \A i, j \in DOMAIN tasks :
    (i < j /\ tasks[i].kind = tasks[j].kind /\ tasks[i].lane = tasks[j].lane) =>
      LET first == tasks[i].name second == tasks[j].name
      IN IF tasks[i].kind = "start" THEN ~StartsAfter(plan)[first, second]
         ELSE ~StartsAfter(plan)[second, first]

\* The order of a request is right, and there is one for every accepted plan.
OrdersRight == LoopsAreRefused /\ AcceptedPlansOrder /\ EachOnce /\ LaneOrder

\* A service is started once the services are that it requires and comes after, except
\* where another service that requires one of the two has taken it to another lane.
RequiredFirst ==
  \A i, j \in TasksOf("start") :
    LET s == tasks[i].name t == tasks[j].name
    IN (s # t /\ t \in Requires(plan, s) /\ StartsAfter(plan)[s, t] /\ {s, t} \cap moved = {}
        /\ tasks[i].status # "do") => tasks[j].status = "done"

\* When all tasks went well, what was to run does, with the configuration of the plan.
\* (A replan also stops unchanged services that depend on a changed one, and starts again
\* only the enabled ones.)
RequestEffect ==
  (tasks # <<>> /\ \A i \in DOMAIN tasks : tasks[i].status = "done") =>
    CASE asked.action = "start" -> running = ran \cup WithNeeded(asked.names)
      [] asked.action = "autostart" -> running = ran \cup WithNeeded(Enabled)
      [] asked.action = "stop" -> running = ran \ WithDependents(asked.names)
      [] asked.action = "restart" -> running = ran \cup WithNeeded(asked.names)
      [] asked.action = "replan" ->
           /\ WithNeeded(differed \cup Enabled) \subseteq running /\ outdated = {}
           /\ ran \ WithDependents(differed) \subseteq running
      [] asked.action = "shutdown" -> running = {}

\* A restart or a replan starts nothing before everything has stopped.
StopsFirst ==
  \A i \in TasksOf("start"), j \in TasksOf("stop") :
    tasks[i].status # "do" => tasks[j].status = "done"

\* The tasks of a request come in the right order and have the right effect.
ServicesRight == RequiredFirst /\ RequestEffect /\ StopsFirst
=============================================================================
