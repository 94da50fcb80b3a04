--------------------------- MODULE MCPlanManager ---------------------------
(***************************************************************************)
(* Small instances of PlanManager: one service and the layers of a         *)
(* directory with a sub-directory in the middle.                           *)
(***************************************************************************)
EXTENDS PlanManager, TLC

Says(override, parts, workloads) ==
  [services |-> [s \in Service |-> [override |-> override, parts |-> parts]],
   workloads |-> workloads]

Defines == Says("replace", <<"command">>, {})
Extends == Says("merge", <<"extra">>, {})
AddsWorkload == Says("none", <<>>, {"workload"})
SomeContent == {Defines, Extends, AddsWorkload}

File(order, label, content) == [NewLayer(label, content) EXCEPT !.order = order]

\* 001-foo.yaml, 002-bar.d/001-aaa.yaml and 003-baz.yaml; no directory
SomeDirectories ==
  {<<>>,
   <<File(1000, <<"foo">>, Defines), File(2001, <<"bar", "aaa">>, Extends),
     File(3000, <<"baz">>, Defines)>>}

SomeLabels ==
  {<<"baz">>, <<"bar">>, <<"bar", "aaa">>, <<"bar", "bbb">>, <<"new">>, <<"new", "aaa">>}
=============================================================================
