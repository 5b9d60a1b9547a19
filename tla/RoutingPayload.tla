------------------------------ MODULE RoutingPayload ------------------------------
(***************************************************************************)
(* The DAG an order sends to the router (services/routing_payload_builder. *)
(* py, resource_estimator.py): its nodes with their resources and the      *)
(* endpoints they are bound to, its edges, and the policy.                 *)
(***************************************************************************)
EXTENDS IntentParse, Sequences

\* The roles a task is estimated for: a route has no compute node.
Roles(task) ==
  IF task \in RouteOnlyTasks THEN <<"source", "sink">> ELSE <<"source", "compute", "sink">>

\* estimate_resources < the administrator's override < the order's own.
Resources(d, override) ==
  IF d.resources # Blank THEN d.resources ELSE IF override THEN "configured" ELSE "estimated"

\* _endpoint_identity: the sink also carries the port and the callback.
BoundTo(role, source, sink) ==
  CASE role = "source" -> source
    [] role = "sink" -> sink
    [] OTHER -> Blank

Deployable(d) == IF d.task \in RouteOnlyTasks \/ d.plan.routeOnly THEN {} ELSE {"compute"}

DagNodes(d, source, sink, port, callback, override) ==
  [i \in DOMAIN Roles(d.task) |->
     LET role == Roles(d.task)[i]
     IN  [role |-> role,
          deployable |-> role \in Deployable(d),
          at |-> BoundTo(role, source, sink),
          port |-> role = "sink" /\ port,
          callback |-> IF role = "sink" THEN callback ELSE Blank,
          resources |-> Resources(d, override)]]

\* _build_dag_edges: one after the other.
DagEdges(task) ==
  {<<Roles(task)[i], Roles(task)[i + 1]>> : i \in 1..(Len(Roles(task)) - 1)}

\* require_routing_policy raises for a strategy it does not know.
HasPolicy(d) == d.plan.strategy \in Strategies \cup {Blank}

Payload(d, source, sink, port, callback, override) ==
  [nodes |-> DagNodes(d, source, sink, port, callback, override),
   edges |-> DagEdges(d.task),
   policy |-> Or(d.plan.strategy, DefaultStrategy(d.task))]
=============================================================================
