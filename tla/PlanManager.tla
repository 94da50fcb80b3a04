----------------------------- MODULE PlanManager -----------------------------
(***************************************************************************)
(* The plan manager (planstate/manager.go): it loads the configuration     *)
(* layers, adds layers to the plan or merges them into it, refuses those   *)
(* that give no valid plan, and tells the other managers.                  *)
(*                                                                         *)
(* The layers of a plan are a Go slice.  Plans share the backing arrays of *)
(* their slices, so the arrays are the state: a plan refers to an array    *)
(* and has a length.  What a layer says of a service is its override and   *)
(* the texts merged into it; the one way modelled for a combined plan to   *)
(* be invalid is a service without a command, and workloads stand for the  *)
(* sections that must not change.                                          *)
(***************************************************************************)
EXTENDS Integers, Sequences, FiniteSets, SequencesExt

CONSTANTS
  Directory,    \* what the layers directory may hold: a set of sequences of layers
  Label,        \* labels of requests: <<name>>, or <<sub-directory, name>>
  Content,      \* what the layer of a request may say
  Service,      \* names of services
  Command,      \* the texts that define a command
  ArgsText,     \* the text with the arguments of "pebble run --args"
  Listeners,    \* how many managers listen for changes of the plan
  MaxRequests   \* bound: how many requests there are

\* The three digits of a file name: the orders of a directory and the next are this
\* far apart.
OrderStep == 1000

NoLayer == [label |-> <<>>]
NoService == [override |-> "none", parts |-> <<>>]
ServiceSaid == [override: {"none", "merge", "replace"}, parts: Seq(STRING)]

SubLabel(label) == Head(label)
HasSub(label) == Len(label) = 2

\* The label of the layer with the arguments of "pebble run --args"
ArgsLabel == <<"pebble-service-args">>

Layer == [label: Seq(STRING) \cup {ArgsLabel}, order: Nat,
          services: [Service -> ServiceSaid], workloads: SUBSET STRING]

\* The orders grow, each label occurs once, and the layers of a sub-directory are next to
\* each other, within its range.
Ascending(layers) ==
  \A i, j \in DOMAIN layers : i < j =>
    /\ layers[i].order < layers[j].order
    /\ layers[i].label # layers[j].label
    /\ (SubLabel(layers[i].label) = SubLabel(layers[j].label)
         <=> layers[i].order \div OrderStep = layers[j].order \div OrderStep)

\* ReadLayersDir: no file takes the label of run --args; and no sub-directory is so full that
\* the requests do not fit into it.
AsRead(layers) ==
  /\ Ascending(layers)
  /\ \A i \in DOMAIN layers :
       /\ SubLabel(layers[i].label) # SubLabel(ArgsLabel)
       /\ (layers[i].order % OrderStep) + MaxRequests < OrderStep

ASSUME PlanManagerAssumption ==
  /\ Listeners \in Nat \ {0}
  /\ MaxRequests \in Nat /\ MaxRequests + 1 < OrderStep
  /\ ArgsText \in STRING
  /\ Label \subseteq Seq(STRING)
  /\ Content \subseteq [services: [Service -> ServiceSaid], workloads: SUBSET STRING]
  /\ \A layers \in Directory : layers \in Seq(Layer) /\ AsRead(layers)

VARIABLES
  arrays,     \* the backing arrays; the length of each is its capacity
  plan,       \* m.plan: the array and the length of its slice, the combined services
  phase,      \* "new", "loaded" (m.isLoaded) and then "serving" requests
  issued,     \* the plans that there were, each with the layers it had then
  calls,      \* the calls of listeners under way: the plan, the listener that is next
  seen,       \* the plan that each listener was told of last
  torn,       \* whether a layer that was refused has been left in the plan
  shifted,    \* history: the arrays in which a layer was inserted before others in place
  overlapped, \* whether the plan was updated while listeners were being called
  requests    \* counter for the bound

vars == <<arrays, plan, phase, issued, calls, seen, torn, shifted, overlapped, requests>>

Layers(p) == SubSeq(arrays[p.array], 1, p.len)

-----------------------------------------------------------------------------
(***************************************************************************)
(* CombineLayers: a later layer replaces what there is of a service or is  *)
(* merged into it.                                                         *)
(***************************************************************************)
Merge(old, new) ==
  CASE new.override = "none" -> old
    [] new.override = "merge" /\ old.override # "none" ->
         [old EXCEPT !.parts = @ \o new.parts]
    [] OTHER -> new

MergeLayer(services, layer) == [s \in Service |-> Merge(services[s], layer.services[s])]

CombineServices(layers) == FoldLeft(MergeLayer, [s \in Service |-> NoService], layers)

CombineWorkloads(layers) == UNION {layers[i].workloads : i \in DOMAIN layers}

\* Plan.Validate: each service has a command
Validate(services) ==
  \A s \in Service : services[s].override # "none" =>
    \E i \in DOMAIN services[s].parts : services[s].parts[i] \in Command

(***************************************************************************)
(* What updatePlanLayers asks of the layers of a new plan.                 *)
(***************************************************************************)
Acceptable(layers) ==
  /\ Validate(CombineServices(layers))
  /\ CombineWorkloads(layers) = plan.workloads

NewPlan(array, layers) ==
  [array |-> array, len |-> Len(layers), services |-> CombineServices(layers),
   workloads |-> CombineWorkloads(layers)]

-----------------------------------------------------------------------------
(***************************************************************************)
(* Slices.  Appending to a full slice doubles its capacity, in an array of *)
(* its own; otherwise slices.Insert moves the elements up where they are.  *)
(***************************************************************************)
Grown(cap) == IF cap = 0 THEN 1 ELSE 2 * cap
HasRoom(p) == p.len < Len(arrays[p.array])
Padded(layers, cap) == layers \o [i \in 1 .. (cap - Len(layers)) |-> NoLayer]

\* The capacity of a slice to which n elements were appended one by one
AppendCap[n \in Nat] ==
  IF n = 0 THEN 0
  ELSE IF n <= AppendCap[n - 1] THEN AppendCap[n - 1] ELSE Grown(AppendCap[n - 1])

\* Mutant: one place too early.
InsertEarly(p, i, layer) ==
  LET a == arrays[p.array]
      inserted == InsertAt(Layers(p), IF i = 0 THEN 1 ELSE i, layer)
  IN IF HasRoom(p) THEN inserted \o SubSeq(a, p.len + 2, Len(a))
     ELSE Padded(inserted, Grown(Len(a)))

\* The array that slices.Insert puts layer in, behind the first i elements of p
Insert(p, i, layer) ==
  LET a == arrays[p.array]
      inserted == InsertAt(Layers(p), i + 1, layer)
  IN IF HasRoom(p) THEN inserted \o SubSeq(a, p.len + 2, Len(a))
     ELSE Padded(inserted, Grown(Len(a)))

-----------------------------------------------------------------------------
Init ==
  /\ arrays = << <<>> >>
  /\ plan = NewPlan(1, <<>>)
  /\ phase = "new"
  /\ issued = <<>>
  /\ calls = {}
  /\ seen = [l \in 1 .. Listeners |-> 0]
  /\ torn = FALSE
  /\ shifted = {}
  /\ overlapped = FALSE
  /\ requests = 0

\* The manager has a new plan with these layers, and goes on to call the listeners.
Publish(p, layers) ==
  /\ plan' = p
  /\ issued' = Append(issued, [plan |-> p, layers |-> layers])
  /\ calls' = calls \cup {[plan |-> Len(issued) + 1, next |-> 1]}
  /\ overlapped' = (overlapped \/ calls # {})

Request == phase = "serving" /\ requests < MaxRequests /\ requests' = requests + 1

(***************************************************************************)
(* Load, before the daemon serves requests.  A directory that gives no     *)
(* valid plan ends the daemon.                                             *)
(***************************************************************************)
Load(layers) ==
  /\ phase = "new"
  /\ Validate(CombineServices(layers))
  /\ arrays' = Append(arrays, Padded(layers, AppendCap[Len(layers)]))
  /\ Publish(NewPlan(Len(arrays) + 1, layers), layers)
  /\ phase' = "loaded"
  /\ UNCHANGED <<seen, torn, shifted, requests>>

(***************************************************************************)
(* Where appendLayer puts a layer: behind the last one whose label begins  *)
(* with the same name, as the next of that sub-directory, or else at the   *)
(* end.                                                                    *)
(***************************************************************************)
SameDirectory(label) ==
  {i \in 1 .. plan.len : SubLabel(Layers(plan)[i].label) = SubLabel(label)}

NewIndex(label) ==
  IF SameDirectory(label) = {} THEN plan.len ELSE Max(SameDirectory(label))

NewOrder(label) ==
  LET layers == Layers(plan)
  IN CASE plan.len = 0 -> OrderStep
       [] SameDirectory(label) # {} -> layers[NewIndex(label)].order + 1
       [] OTHER -> (layers[plan.len].order \div OrderStep + 1) * OrderStep
                     + (IF HasSub(label) THEN 1 ELSE 0)

\* Without "inner" a layer is only added at the end.
Authorised(label, inner) == NewIndex(label) = plan.len \/ inner

(***************************************************************************)
(* appendLayer.  The slice is changed before the plan it would give is     *)
(* looked at; the order is set only when that is accepted.                 *)
(***************************************************************************)
WithLayer(layer) == InsertAt(Layers(plan), NewIndex(layer.label) + 1, layer)

StoreArray(array) ==
  IF HasRoom(plan) THEN [arrays EXCEPT ![plan.array] = array] ELSE Append(arrays, array)

\* The elements behind it move, also for the plans that share the array.
Shifts(label) ==
  IF HasRoom(plan) /\ NewIndex(label) < plan.len THEN shifted \cup {plan.array} ELSE shifted

AddLayer(new) ==
  LET layer == [new EXCEPT !.order = NewOrder(new.label)]
      array == IF HasRoom(plan) THEN plan.array ELSE Len(arrays) + 1
  IN /\ Acceptable(WithLayer(new))
     /\ arrays' = StoreArray(Insert(plan, NewIndex(new.label), layer))
     /\ Publish(NewPlan(array, WithLayer(layer)), WithLayer(layer))
     /\ shifted' = Shifts(new.label)
     /\ UNCHANGED <<phase, seen, torn>>

RefuseLayer(new) ==
  /\ ~Acceptable(WithLayer(new))
  /\ arrays' = StoreArray(Insert(plan, NewIndex(new.label), new))
  /\ torn' = (torn \/ (HasRoom(plan) /\ NewIndex(new.label) < plan.len))
  /\ shifted' = Shifts(new.label)
  /\ UNCHANGED <<plan, phase, issued, calls, seen, overlapped>>

-----------------------------------------------------------------------------
(***************************************************************************)
(* The requests of users: a layer with a label that exists is refused by   *)
(* AppendLayer and combined with the layer of that label by CombineLayer.  *)
(***************************************************************************)
NewLayer(label, content) ==
  [label |-> label, order |-> 0, services |-> content.services,
   workloads |-> content.workloads]

\* findLayer: the first layer with the label, or none
FindLayer(label) == {i \in 1 .. plan.len : Layers(plan)[i].label = label}

AppendLayer(label, content, inner) ==
  /\ Request
  /\ FindLayer(label) = {}
  /\ Authorised(label, inner)
  /\ \/ AddLayer(NewLayer(label, content))
     \/ RefuseLayer(NewLayer(label, content))

\* Mutant: what is merged into the layer decides on the override.
CombinedLayerOverride(found, new) ==
  [found EXCEPT !.services = [s \in Service |->
                   [Merge(@[s], new.services[s]) EXCEPT !.override =
                      IF new.services[s].override = "none" THEN @
                      ELSE new.services[s].override]],
                !.workloads = @ \cup new.workloads]

CombinedLayer(found, new) ==
  [found EXCEPT !.services = MergeLayer(@, new), !.workloads = @ \cup new.workloads]

CombineLayer(label, content) ==
  /\ Request
  /\ FindLayer(label) # {}
  /\ LET i == Min(FindLayer(label))
         layers == [Layers(plan) EXCEPT ![i] = CombinedLayer(@, content)]
     IN /\ Acceptable(layers)
        /\ arrays' = Append(arrays, layers)
        /\ Publish(NewPlan(Len(arrays) + 1, layers), layers)
  /\ UNCHANGED <<phase, seen, torn, shifted>>

(***************************************************************************)
(* SetServiceArgs, once, before the daemon serves requests: a layer with a *)
(* label that users cannot give, with the arguments of some services.      *)
(***************************************************************************)
ArgsContent(S) ==
  [services |-> [s \in Service |->
     IF s \in S THEN [override |-> "merge", parts |-> <<ArgsText>>] ELSE NoService],
   workloads |-> {}]

SetServiceArgs(S) ==
  /\ phase = "loaded"
  /\ calls = {}
  /\ FindLayer(ArgsLabel) = {}
  /\ \A s \in S : plan.services[s].override # "none"
  /\ AddLayer(NewLayer(ArgsLabel, ArgsContent(S)))
  /\ UNCHANGED requests

\* Daemon.Start: from now on requests are served.
Start ==
  /\ phase = "loaded"
  /\ calls = {}
  /\ phase' = "serving"
  /\ UNCHANGED <<arrays, plan, issued, calls, seen, torn, shifted, overlapped, requests>>

(***************************************************************************)
(* callChangeListeners, after the lock of the plan was released: the       *)
(* listeners are called one after the other, those of two updates at once. *)
(***************************************************************************)
\* Mutant: the last listener is left out.
CallListenerNotLast(c) ==
  /\ c.next <= Listeners
  /\ seen' = [seen EXCEPT ![c.next] = c.plan]
  /\ calls' = IF c.next >= Listeners - 1 THEN calls \ {c}
              ELSE (calls \ {c}) \cup {[c EXCEPT !.next = @ + 1]}
  /\ UNCHANGED <<arrays, plan, phase, issued, torn, shifted, overlapped, requests>>

CallListener(c) ==
  /\ c.next <= Listeners
  /\ seen' = [seen EXCEPT ![c.next] = c.plan]
  /\ calls' = IF c.next = Listeners THEN calls \ {c}
              ELSE (calls \ {c}) \cup {[c EXCEPT !.next = @ + 1]}
  /\ UNCHANGED <<arrays, plan, phase, issued, torn, shifted, overlapped, requests>>

Next ==
  \/ \E d \in Directory : Load(d)
  \/ Start
  \/ \E l \in Label, c \in Content, inner \in BOOLEAN : AppendLayer(l, c, inner)
  \/ \E l \in Label, c \in Content : CombineLayer(l, c)
  \/ \E S \in SUBSET Service : SetServiceArgs(S)
  \/ \E c \in calls : CallListener(c)

Spec == Init /\ [][Next]_vars

-----------------------------------------------------------------------------
(***************************************************************************)
(* Properties.                                                             *)
(***************************************************************************)

TypeOK ==
  /\ plan.array \in 1 .. Len(arrays)
  /\ plan.len \in 0 .. Len(arrays[plan.array])
  /\ phase \in {"new", "loaded", "serving"}
  /\ calls \subseteq [plan: 1 .. Len(issued), next: 1 .. Listeners]
  /\ seen \in [1 .. Listeners -> 0 .. Len(issued)]
  /\ torn \in BOOLEAN
  /\ shifted \subseteq 1 .. Len(arrays)
  /\ overlapped \in BOOLEAN
  /\ requests \in 0 .. MaxRequests

(***************************************************************************)
(* The services of the plan are what its layers say, although the layers   *)
(* are in an array that appendLayer writes to before it knows whether the  *)
(* result is accepted: unless a layer refused after it was inserted in     *)
(* place has been left there.                                              *)
(***************************************************************************)
PlanIsCombination == torn \/ plan.services = CombineServices(Layers(plan))

(***************************************************************************)
(* Saved under their orders and labels and read again, the layers would    *)
(* give the same plan: the orders grow, each label occurs once, and the    *)
(* layers of a sub-directory are next to each other, within its range.     *)
(***************************************************************************)
OrdersAscend == torn \/ Ascending(Layers(plan))

(***************************************************************************)
(* Once all calls have been made, each listener has the newest plan, if no *)
(* update came in while the listeners of another one were being called.    *)
(***************************************************************************)
ListenersCurrent ==
  calls = {} /\ ~overlapped => \A l \in 1 .. Listeners : seen[l] = Len(issued)

\* A step that adds a layer at the end, or changes none but the last one
PutOnTop ==
  /\ plan' # plan /\ ~torn /\ plan.len > 0
  /\ \E n \in {plan.len - 1, plan.len} :
       plan'.len = n + 1 /\ SubSeq(Layers(plan)', 1, n) = SubSeq(Layers(plan), 1, n)

MergesOnTop ==
  \E c \in Content \cup {ArgsContent(S) : S \in SUBSET Service} :
    plan'.services = MergeLayer(plan.services, c)

(***************************************************************************)
(* A layer put on top, as a new last layer or merged into the last one,    *)
(* has the last word: the services become the old ones with that layer     *)
(* merged into them, although they are combined from all layers again.     *)
(***************************************************************************)
TopLayerWins == [][PutOnTop => MergesOnTop]_vars

(***************************************************************************)
(* A plan that was returned never changes, although later plans are built  *)
(* in its array: except when a layer is inserted before others in place    *)
(* (slices.Insert in appendLayer), against the comment of Plan.            *)
(***************************************************************************)
PlansAreValues ==
  \A i \in DOMAIN issued :
    issued[i].plan.array \notin shifted => Layers(issued[i].plan) = issued[i].layers

(***************************************************************************)
(* What holds of the plan in every state.                                  *)
(***************************************************************************)
PlanSound == TypeOK /\ PlanIsCombination /\ OrdersAscend /\ PlansAreValues
=============================================================================
