------------------------------ MODULE IntentDrafts ------------------------------
(***************************************************************************)
(* A conversation up to its order (api/conversations.py): messages make    *)
(* new versions of a draft, the user edits the latest one in place, and a  *)
(* confirmation makes the order and its routing request.                   *)
(*                                                                         *)
(* Every handler reads first, waits (for a language model, for minutes; or *)
(* for the database) and then writes what follows from what it read.       *)
(* Nothing keeps two of them apart: no lock, no version check.  A commit   *)
(* writes the columns that differ from what the session had loaded.        *)
(*                                                                         *)
(* What happens to the order afterwards is OrderRouting's; here the orders *)
(* side moves the conversation and may delete the order.                   *)
(***************************************************************************)
EXTENDS RoutePlacement, RuntimeSettings

CONSTANTS
  Handlers,      \* requests in flight: a bound
  MaxDrafts,     \* messages that get a draft: a bound
  MaxEdits,      \* PATCHes: a bound
  Scenarios      \* who takes part: kinds of requests, what is said and edited, others

ASSUME BoundsAssumption == MaxDrafts \in Nat /\ MaxEdits \in Nat

\* The fields of a PATCH that have a type.
Edit(e) ==
  /\ \A f \in DOMAIN e \cap {"start", "end"} : e[f] \in Nat
  /\ \A f \in DOMAIN e \cap {"size"} : e[f] \in Number
  /\ \A f \in DOMAIN e \cap {"sourceInput", "destInput"} : e[f] \in Names \cup {Blank}
  /\ \A f \in DOMAIN e \cap {"port"} : e[f] \in {Blank, "set", "off"}
  /\ \A f \in DOMAIN e \cap {"callback"} : e[f] \in Names \cup {Blank, "own"}
  /\ \A f \in DOMAIN e \cap {"routeOnly"} : e[f] \in BOOLEAN
  /\ \A f \in DOMAIN e \cap {"strategy"} : e[f] \in Strategies \cup {Blank, "junk"}

ASSUME ScenarioAssumption ==
  \A s \in Scenarios :
    /\ s.kinds \subseteq {"message", "stream", "patch", "confirm"}
    /\ s.others \subseteq {"nodes", "admin"}
    /\ \A m \in s.said : Message(m)
    /\ \A e \in s.edits : Edit(e)

VARIABLES
  scenario,
  registered,    \* the user endpoints (is_user_endpoint_node)
  conv,          \* status and materialized_order_id
  drafts,        \* the rows, in the order they were inserted
  edits,         \* PATCHes so far
  orders,        \* the orders with this conversation's id
  requests,      \* routing requests that name an order
  handler        \* handler -> its request: what it has read

draftVars == <<conv, drafts, edits, orders, requests>>
vars == <<scenario, registered, draftVars, handler, settings>>

ConversationStatus == {"drafting", "awaiting", "ready", "submitted", "cancelled"}
Unwritten_bug == [version |-> 1, content |-> NoDraft, verdict |-> "incomplete"]
Unwritten == [version |-> 0, content |-> NoDraft, verdict |-> "incomplete"]
Idle == [kind |-> "idle"]

Init ==
  /\ scenario \in Scenarios
  /\ registered = Names
  /\ conv = [status |-> "drafting", order |-> FALSE]
  /\ drafts = <<>>
  /\ edits = 0
  /\ orders = {}
  /\ requests = 0
  /\ handler = [h \in Handlers |-> Idle]
  /\ SettingsInit

Begins(h, request) == handler[h] = Idle /\ handler' = [handler EXCEPT ![h] = request]
Is(h, kind) == handler[h].kind = kind
Ends(h) == handler' = [handler EXCEPT ![h] = Idle]

\* ORDER BY version DESC; of two rows with one version it may be either.
Latest == {i \in DOMAIN drafts : \A j \in DOMAIN drafts : drafts[j].version <= drafts[i].version}

(***************************************************************************)
(* Messages.                                                               *)
(***************************************************************************)
\* send_message and send_message_stream read alike: the draft so far, the endpoints
\* and the settings.  What the parse will give depends on nothing else.
MessageBegins(h, kind) ==
  /\ kind \in scenario.kinds
  /\ Len(drafts) < MaxDrafts
  /\ conv.status # "submitted"
  /\ \E said \in scenario.said, base \in IF drafts = <<>> THEN {Unwritten} ELSE {drafts[i] : i \in Latest} :
       \E parse \in Parses(said, scenario.said, base.content, registered, UsesModel, MayFallBack) :
         Begins(h, [kind |-> kind, parse |-> parse, version |-> base.version + 1,
                    status |-> conv.status, fails |-> UsesModel /\ ~ MayFallBack])
  /\ UNCHANGED <<scenario, registered, draftVars, settings>>

\* The session's copy of the conversation differs, or a fresh session sets it.
StatusAfter(h) ==
  IF Is(h, "stream") \/ handler[h].status # "drafting" THEN "drafting" ELSE conv.status

MessageEnds(h) ==
  /\ handler[h].kind \in {"message", "stream"}
  /\ Len(drafts) < MaxDrafts
  /\ drafts' = Append(drafts, [version |-> handler[h].version, content |-> handler[h].parse.content,
                               verdict |-> handler[h].parse.verdict])
  /\ conv' = [conv EXCEPT !.status = StatusAfter(h)]
  /\ Ends(h)
  /\ UNCHANGED <<scenario, registered, edits, orders, requests, settings>>

\* The model fails and nothing takes its place, or the user has left the stream.
MessageFails(h) ==
  /\ \/ Is(h, "message") /\ handler[h].fails
     \/ Is(h, "stream")
  /\ Ends(h)
  /\ UNCHANGED <<scenario, registered, draftVars, settings>>

(***************************************************************************)
(* PATCH.  An edit is a function of some fields of a draft, of the inputs  *)
(* of the two endpoints (Blank clears them), and of the destination's port *)
(* and callback.  A strategy comes with the client's copy of the whole     *)
(* runtime plan, which replaces what the PATCH made of it.                 *)
(***************************************************************************)
Set(edit, field, old) == IF field \in DOMAIN edit THEN edit[field] ELSE old

\* Does the PATCH work out the callback again?
Touches(edit) == DOMAIN edit \cap {"destInput", "port"} # {}

Resolves(edit, d) ==
  /\ Set(edit, "sourceInput", Blank) \in registered \cup {Blank}
  /\ Set(edit, "destInput", Blank) \in registered \cup {Blank}
  /\ Touches(edit) => Set(edit, "destInput", d.plan.destInput) \in registered \cup {Blank}

\* _effective_destination_port: none for a route, if switched off, or with a
\* callback of the user's own and no port.
HasPort(d) ==
  /\ d.task \notin RouteOnlyTasks
  /\ d.plan.port # "off"
  /\ d.plan.callback # Blank => d.plan.port = "set"
  /\ d.plan.port = "set" \/ d.task \in Numbered

Entered(edit, d) ==
  [d.plan EXCEPT
     !.sourceInput = Set(edit, "sourceInput", @),
     !.destInput = Set(edit, "destInput", @),
     !.port = Set(edit, "port", @),
     !.routeOnly = IF d.task \in RouteOnlyTasks /\ "routeOnly" \in DOMAIN edit THEN TRUE
                   ELSE Set(edit, "routeOnly", @),
     !.callback = Set(edit, "callback", IF Set(edit, "port", Blank) = "off" THEN Blank ELSE @)]

PatchedPlan(edit, d) ==
  LET plan == Entered(edit, d)
      port == HasPort([d EXCEPT !.plan = plan])
  IN  IF "strategy" \in DOMAIN edit THEN [d.plan EXCEPT !.strategy = edit.strategy]
      ELSE IF ~ Touches(edit) \/ "callback" \in DOMAIN edit THEN plan
      ELSE IF ~ port THEN [plan EXCEPT !.callback = Blank]
      ELSE [plan EXCEPT !.callback = Or(plan.destInput, @)]

Patched(edit, d) ==
  [d EXCEPT
     !.source = Set(edit, "source", Or(Set(edit, "sourceInput", Blank), @)),
     !.dest = Set(edit, "dest", Or(Set(edit, "destInput", Blank), @)),
     !.start = Set(edit, "start", @),
     !.end = Set(edit, "end", @),
     !.size = Set(edit, "size", @),
     !.resources = Set(edit, "resources", @),
     !.plan = PatchedPlan(edit, d)]

PatchBegins(h) ==
  /\ "patch" \in scenario.kinds
  /\ edits < MaxEdits
  /\ edits' = edits + 1
  /\ \E i \in Latest, edit \in scenario.edits :
       /\ Resolves(edit, drafts[i].content)
       /\ Begins(h, [kind |-> "patch", row |-> i, loaded |-> drafts[i], status |-> conv.status,
                     content |-> Patched(edit, drafts[i].content)])
  /\ UNCHANGED <<scenario, registered, conv, drafts, orders, requests, settings>>

\* The columns that differ from what was loaded; the plan in any case.
Merged(row, loaded, new) ==
  [f \in DOMAIN row |-> IF f = "plan" \/ new[f] # loaded[f] THEN new[f] ELSE row[f]]

PatchEnds(h) ==
  /\ Is(h, "patch")
  /\ LET new == handler[h].content
         loaded == handler[h].loaded
         verdict == Verdict(Errors(new) = {})
     IN  drafts' = [drafts EXCEPT
           ![handler[h].row].content = Merged(@, loaded.content, new),
           ![handler[h].row].verdict = IF verdict # loaded.verdict THEN verdict ELSE @]
  /\ conv' = [conv EXCEPT !.status = StatusAfter(h)]
  /\ Ends(h)
  /\ UNCHANGED <<scenario, registered, edits, orders, requests, settings>>

(***************************************************************************)
(* Confirmation.                                                           *)
(***************************************************************************)
SourceOf(d) == Or(d.plan.sourceInput, d.source)
SinkOf(d) == Or(d.plan.destInput, d.dest)

\* _effective_callback_url
CallbackOf(d) == Or(d.plan.callback, IF HasPort(d) THEN SinkOf(d) ELSE Blank)

Ordered(i, d) ==
  [draft |-> i, content |-> d, policy |-> Deployable(d), callback |-> CallbackOf(d),
   dag |-> Payload(d, SourceOf(d), SinkOf(d), HasPort(d), CallbackOf(d), Settings.override)]

\* _apply_platform_managed_route follows, within the transaction up to the instance.
PlacedByPlatform(d) == Settings.routing = "internal_auto" /\ Deployable(d) # {}

\* 409, 404, 400 and the errors of the payload leave nothing behind.
Confirmable(d) ==
  /\ Errors(d) = {}
  /\ d.task \in Catalogued
  /\ SourceOf(d) \in registered
  /\ SinkOf(d) \in registered
  /\ HasPolicy(d)

ConfirmBegins(h) ==
  /\ "confirm" \in scenario.kinds
  /\ ~ conv.order
  /\ conv.status # "awaiting"
  /\ \E i \in Latest :
       /\ Confirmable(drafts[i].content)
       /\ Begins(h, [kind |-> "confirm", row |-> i, loaded |-> drafts[i].verdict,
                     placed |-> PlacedByPlatform(drafts[i].content),
                     order |-> Ordered(i, drafts[i].content)])
  /\ UNCHANGED <<scenario, registered, draftVars, settings>>

\* The order has the conversation's id, which is its primary key.
IdFree_bug == TRUE
IdFree == orders = {}

ConfirmEnds(h) ==
  /\ Is(h, "confirm")
  /\ IdFree
  /\ orders' = orders \cup {handler[h].order}
  /\ requests' = requests + 1
  /\ drafts' = [drafts EXCEPT
       ![handler[h].row].verdict = IF handler[h].loaded # "valid" THEN "valid" ELSE @]
  /\ conv' = [status |-> "awaiting", order |-> TRUE]
  /\ Ends(h)
  /\ UNCHANGED <<scenario, registered, edits, settings>>

\* The id is taken, or the platform has no compute node with a free slot.
ConfirmRefused(h) ==
  /\ Is(h, "confirm")
  /\ ~ IdFree \/ handler[h].placed
  /\ Ends(h)
  /\ UNCHANGED <<scenario, registered, draftVars, settings>>

(***************************************************************************)
(* The others.                                                             *)
(***************************************************************************)
\* A route, a submit or a cancel of the order.
OrderMoves ==
  /\ orders # {}
  /\ \E status \in {"ready", "submitted", "cancelled"} :
       conv' = [conv EXCEPT !.status = status]
  /\ UNCHANGED <<scenario, registered, drafts, edits, orders, requests, handler, settings>>

\* _detach_order_references_before_delete
OrderDeleted ==
  /\ orders # {}
  /\ orders' = {}
  /\ requests' = 0
  /\ conv' = [status |-> "cancelled", order |-> FALSE]
  /\ UNCHANGED <<scenario, registered, drafts, edits, handler, settings>>

\* An endpoint is removed from the topology, or is no longer routable.
Unregister(n) ==
  /\ n \in registered
  /\ registered' = registered \ {n}
  /\ UNCHANGED <<scenario, draftVars, handler, settings>>

UserStep(h) ==
  \/ \E kind \in {"message", "stream"} : MessageBegins(h, kind)
  \/ MessageEnds(h)
  \/ MessageFails(h)
  \/ PatchBegins(h)
  \/ PatchEnds(h)
  \/ ConfirmBegins(h)
  \/ ConfirmEnds(h)
  \/ ConfirmRefused(h)

Next ==
  \/ \E h \in Handlers : UserStep(h)
  \/ OrderMoves
  \/ OrderDeleted
  \/ "nodes" \in scenario.others /\ \E n \in Names : Unregister(n)
  \/ /\ "admin" \in scenario.others
     /\ \E a \in Admins : AdminStep(a)
     /\ UNCHANGED <<scenario, registered, draftVars, handler>>

Spec == Init /\ [][Next]_vars

(***************************************************************************)
(* Properties.                                                             *)
(***************************************************************************)
Plan ==
  [strategy : Strategies \cup {Blank, "junk"}, sourceInput : Names \cup {Blank},
   destInput : Names \cup {Blank}, port : {Blank, "set", "off"},
   callback : Names \cup {Blank, "own"}, routeOnly : BOOLEAN]

\* The values the variables take; no version is skipped.
TypeOK ==
  /\ conv \in [status : ConversationStatus, order : BOOLEAN]
  /\ registered \subseteq Names
  /\ Len(drafts) <= MaxDrafts
  /\ \A i \in DOMAIN drafts :
       /\ drafts[i].version \in 1..i
       /\ drafts[i].verdict \in {"valid", "incomplete"}
       /\ {drafts[i].content.size, drafts[i].content.count} \subseteq Number
       /\ drafts[i].content.plan \in Plan
  /\ requests \in Nat

\* One answer of each kind: a host that can or cannot run it, or nothing, for every role.
Answers ==
  UNION {[roles -> [host : {"compute-1"} \cup Names, gpu : {Blank}]] :
           roles \in SUBSET {"source", "compute", "sink"}}

\* The flows of a routed order: one begins where the one before it ends; those of the
\* user's own endpoints begin and end there, whatever the router says of them; the
\* compute container posts its result where the flow to the sink was announced; and
\* it has a GPU slot of the node it is on.
FlowsRight(o, answer) ==
  LET run == Routed(o, answer)
  IN  /\ \A b, c \in run.bindings : b.to = c.from => b.dst = c.src
      /\ \A b \in run.bindings :
           /\ b.from = "source" /\ "source" \notin o.policy => b.src = SourceOf(o.content)
           /\ b.to = "sink" /\ "sink" \notin o.policy =>
                b.dst = SinkOf(o.content) /\ b.callback = run.posts
           /\ b.from = "compute" /\ "compute" \in DOMAIN run.containers =>
                \E slot \in GpuSlots(run.containers) : slot[1] = b.src /\ slot[2] # Blank

\* The same for the order with its endpoints deployed, as the benchmark's orders ask for.
RoutedAsConfirmed(o) ==
  \A order \in {o, [o EXCEPT !.policy = @ \cup {"source", "sink"}]}, answer \in Answers :
    Hostable(order, Effective(order, answer)) => FlowsRight(order, answer)

\* What is ordered can be run: it ends after it starts and its numbers are in range,
\* which the rule parser does not look at, although messages, two edits at once and a confirmation
\* overlap and the row it came from may be a mix of edits by now; and the DAG the
\* router gets is bound at both ends and has something to deploy unless it is a
\* route.  Whatever the router then answers leads from the user's source to the
\* user's sink: an order does not change, so it is looked at between requests.
ConfirmedSound ==
  \A o \in orders :
    LET nodes == o.dag.nodes
    IN  /\ 0 < o.content.start /\ o.content.start < o.content.end
        /\ o.content.task \in Numbered => o.content.size = "good" /\ o.content.count = "good"
        /\ o.content.task \in Catalogued
        /\ Blank \notin {nodes[1].at, nodes[Len(nodes)].at}
        /\ (\E i \in DOMAIN nodes : nodes[i].deployable)
             <=> ~ (o.content.task \in RouteOnlyTasks \/ o.content.plan.routeOnly)
        /\ (\A h \in Handlers : handler[h] = Idle) => RoutedAsConfirmed(o)

\* A conversation has at most one order at a time and one routing request for it,
\* and knows whether it has: however many confirmations overlap, with a deletion in
\* between, and whatever late messages and edits make of its status.
ConfirmedOnce ==
  /\ conv.order <=> orders # {}
  /\ requests = IF orders = {} THEN 0 ELSE 1
  /\ \A o, p \in orders : o = p
=============================================================================
