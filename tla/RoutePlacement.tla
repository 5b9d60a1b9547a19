----------------------------- MODULE RoutePlacement -----------------------------
(***************************************************************************)
(* What an answer of the router makes of an order (receive_routing_result  *)
(* in api/orders.py, services/routing_network.py, business_env.py): which  *)
(* nodes become containers and where, the flows the router is told to      *)
(* install, and where the compute container posts its result.              *)
(*                                                                         *)
(* Which roles are deployed is the platform's decision, whatever the       *)
(* router places.  An order is [content, policy, dag]: the policy is       *)
(* runtime_config.platform_deployment.deployable_roles, the DAG is         *)
(* RoutingPayload's.  An answer gives some roles a host and a GPU.         *)
(***************************************************************************)
EXTENDS RoutingPayload

ComputeNodes == {"compute-1", "compute-2"}
Terminals == Names

Role(dag, role) ==
  IF \E i \in DOMAIN dag.nodes : dag.nodes[i].role = role
  THEN CHOOSE node \in {dag.nodes[i] : i \in DOMAIN dag.nodes} : node.role = role
  ELSE [role |-> role, deployable |-> FALSE, at |-> Blank, port |-> FALSE, callback |-> Blank]

\* Every order that is routed has a policy; the DAG's flags only repeat it.
IsDeployable_bug(order, role) == TRUE
IsDeployable(order, role) == role \in order.policy

\* The endpoints the platform knows, if they are to be deployed and the router left them out.
CompletedAnswer(order, answer) ==
  LET added == {role \in {"source", "sink"} \ DOMAIN answer :
                  IsDeployable(order, role) /\ Role(order.dag, role).at # Blank}
  IN  [role \in DOMAIN answer \cup added |->
         IF role \in added THEN [host |-> Role(order.dag, role).at, gpu |-> Blank] ELSE answer[role]]

\* A compute role without a GPU gets number 0, before slots are compared.
Effective(order, answer) ==
  LET completed == CompletedAnswer(order, answer)
  IN  [role \in DOMAIN completed |->
         IF role = "compute" THEN [completed[role] EXCEPT !.gpu = Or(@, "0")] ELSE completed[role]]

GpuSlots(placements) ==
  {<<placements[role].host, placements[role].gpu>> : role \in DOMAIN placements \cap {"compute"}}

\* 422 for a container in a place of the wrong kind.
Hostable(order, placements) ==
  \A role \in DOMAIN placements :
    IsDeployable(order, role) =>
      placements[role].host \in IF role = "compute" THEN ComputeNodes ELSE Terminals

\* node_overrides and enabled_template_node_names: the instance's nodes.
Containers(order, placements) ==
  [role \in {r \in DOMAIN placements : IsDeployable(order, r)} |-> placements[role]]

\* _fixed_topology_name: the router's placement counts for a container only.
EndAt(order, containers, role) ==
  IF role \in DOMAIN containers THEN containers[role].host ELSE Role(order.dag, role).at

\* _display_url_from_callback_url, else an address and a port.
AccessOf(order, containers, role) ==
  LET node == Role(order.dag, role)
  IN  IF role \in DOMAIN containers THEN containers[role].host
      ELSE Or(node.callback, IF node.port THEN node.at ELSE Blank)

Binding(order, containers, flow) ==
  [from |-> flow[1],
   to |-> flow[2],
   src |-> EndAt(order, containers, flow[1]),
   dst |-> EndAt(order, containers, flow[2]),
   access |-> AccessOf(order, containers, flow[2]),
   callback |-> IF flow[2] \in DOMAIN containers THEN Blank ELSE Role(order.dag, flow[2]).callback,
   via |-> IF {flow[1], flow[2]} \subseteq DOMAIN containers THEN "instance_edge" ELSE "routing_dag"]

\* The instance's edges, then those of the DAG that were not among them.
NetworkBindings(order, containers) == {Binding(order, containers, flow) : flow \in order.dag.edges}

\* CALLBACK_URL: the business task's, which is the effective one, else the plan's, else the sink's.
CallbackEnv(order) ==
  Or(order.callback, Or(order.content.plan.callback, Role(order.dag, "sink").callback))

RouteOnlyOrder(order) == order.policy = {}

\* Without a container there are no bindings; the order waits for the user, or is done.
Routed(order, answer) ==
  LET placements == Effective(order, answer)
      containers == Containers(order, placements)
  IN  IF DOMAIN containers = {}
      THEN [status |-> IF RouteOnlyOrder(order) THEN "pending" ELSE "completed",
            containers |-> containers, bindings |-> {}, posts |-> Blank]
      ELSE [status |-> "materialized", containers |-> containers,
            bindings |-> NetworkBindings(order, containers), posts |-> CallbackEnv(order)]
=============================================================================
