----------------------------- MODULE OrderRouting -----------------------------
(***************************************************************************)
(* Work orders between the user, the external router and the platform      *)
(* (api/orders.py, api/routing.py, the order half of api/conversations.py, *)
(* services/order_sync.py, services/routing_resource_events.py).           *)
(*                                                                         *)
(* A handler that locks the order's row before it looks at it is one step. *)
(* A handler that reads first and writes later is a job: it opens with a   *)
(* copy of the row, and what it commits is the columns in which its own    *)
(* copy has changed.  SELECT ... FOR UPDATE does not refresh a copy the    *)
(* session already has, so /result, which reads before it locks, decides   *)
(* on its first copy.  Making an instance commits, which ends the lock, so *)
(* the order learns the instance's name in a second transaction.  What a   *)
(* handler reads of other orders is as old as its first read: the session  *)
(* reads a snapshot.                                                       *)
(***************************************************************************)
EXTENDS Naturals, FiniteSets

CONSTANTS
  Orders,
  Chat,        \* the orders a conversation makes (id of the order = its id)
  Benchmark,   \* the orders of an evaluation run
  Instances,   \* the names instances can get
  Slots,       \* (compute host, GPU) pairs
  Routers,     \* processes of the external router
  Jobs,        \* handlers that can be between their reading and writing
  NoOrder, NoInstance, NoSlot,
  Modes,       \* deployment modes orders are made with
  Handlers,    \* which of the requests that read first and write later arrive
  MaxRequest   \* bound: requests served

ASSUME OrderAssumption == Chat \cap Benchmark = {} /\ Chat \cup Benchmark \subseteq Orders
ASSUME NoneAssumption ==
  NoOrder \notin Orders /\ NoInstance \notin Instances /\ NoSlot \notin Slots
ASSUME BoundAssumption == MaxRequest \in Nat
Operations == {"result", "platform", "confirm", "auto", "cancel", "materialize", "delete"}
ASSUME HandlerAssumption == Handlers \subseteq Operations
ASSUME ModeAssumption == Modes \subseteq {"deploy", "route_only"}

VARIABLES
  order,       \* the TaskOrder rows; status "absent" before and after
  conv,        \* the Conversation rows of Chat
  inst,        \* the TaskInstance rows
  up,          \* the instances with running containers
  released,    \* the release events: pairs of order and slot
  holder,      \* order -> the router processes that hold its claim
  job,         \* the handlers under way
  overlapped,  \* history: orders on which two handlers overlapped, or whose
               \* handler died between its two commits
  restarted,   \* history: orders whose instance was started again
  internalAuto,\* benchmark_routing_mode is internal_auto
  served,      \* requests served so far
  repeated,    \* history: orders that were answered "idempotent"
  leftover,    \* containers that are up although their last stop, removal or
               \* rollback was counted as done
  disowned,    \* history: instances put aside because their order was
               \* materialized or routed again
  dropped,     \* history: orders cancelled or failed with an instance there
  met          \* history: pairs of orders whose placing handlers were under
               \* way at one time

rows    == <<order, conv>>
runtime == <<inst, up, leftover, restarted>>
notes   == <<disowned, dropped, met>>
vars == <<rows, runtime, released, holder, job, overlapped, repeated, notes,
          internalAuto, served>>

RoutingStatus == {"not_required", "pending", "computing",
                  "network_binding_ready", "completed", "failed", "cancelled"}
OrderStatus == {"absent", "pending", "materialized", "failed", "cancelled",
                "completed"}
ConversationStatus == {"absent", "drafting", "awaiting_routing",
                       "ready_to_submit", "submitted", "failed", "cancelled"}
InstanceStatus == {"unused", "waiting", "running", "stopped", "failed",
                   "expired", "purged"}

\* runtime_config: the slot and the network state of routing_result, and the
\* mode of platform_deployment.  It is one column.
Config == [slot : Slots \cup {NoSlot}, net : {"none", "waiting", "ready"},
           mode : {"deploy", "route_only"}]
Columns == {"rs", "st", "inst", "config"}
Row == [rs : RoutingStatus, st : OrderStatus,
        inst : Instances \cup {NoInstance}, config : Config]

Fresh(routing, mode) ==
  [rs |-> routing, st |-> "pending", inst |-> NoInstance,
   config |-> [slot |-> NoSlot, net |-> "none", mode |-> mode]]
Absent == [Fresh("not_required", "deploy") EXCEPT !.st = "absent"]
Idle == [op |-> "none", o |-> NoOrder, made |-> FALSE, seen |-> Absent,
         inst |-> NoInstance, net |-> FALSE, mine |-> {}, taken |-> {}]

Init ==
  /\ order = [o \in Orders |->
       IF o \in Chat THEN Absent
       ELSE Fresh(IF o \in Benchmark THEN "pending" ELSE "not_required", "deploy")]
  /\ conv = [o \in Chat |-> [st |-> "drafting", linked |-> FALSE]]
  /\ inst = [i \in Instances |-> [st |-> "unused", src |-> NoOrder, slot |-> NoSlot]]
  /\ up = {} /\ leftover = {} /\ restarted = {}
  /\ released = {}
  /\ holder = [o \in Orders |-> {}]
  /\ job = [j \in Jobs |-> Idle]
  /\ overlapped = {} /\ repeated = {}
  /\ disowned = {} /\ dropped = {} /\ met = {}
  /\ internalAuto \in BOOLEAN /\ served = 0

-----------------------------------------------------------------------------
(* The database.                                                           *)

Exists(o) == order[o].st # "absent"
HasRow(i) == i # NoInstance /\ inst[i].st \notin {"unused", "purged"}
Made(o) == {i \in Instances : HasRow(i) /\ inst[i].src = o}
Busy(o) == {j \in Jobs : job[j].op # "none" /\ job[j].o = o}

\* The handlers that look for a free slot, and the orders of those under way.
Placers == {"result", "platform", "confirm"}
Beside(o) == {p \in Orders \ {o} : \E j \in Busy(p) : job[j].op \in Placers}

\* A handler begins on o, or does all its work: it overlaps those under way.
Touch(o) == overlapped' = IF Busy(o) = {} THEN overlapped ELSE overlapped \cup {o}
TouchInstance(i) ==
  overlapped' = overlapped \cup {o \in Orders : inst[i].src = o /\ Busy(o) # {}}

\* The session's flush: only the columns that differ from what it has read,
\* and those flagged as modified.
Merged(o, seen, new, flagged) ==
  [order EXCEPT ![o] = [c \in Columns |->
     IF c \in flagged \/ new[c] # seen[c] THEN new[c] ELSE order[o][c]]]

End(j) == job' = [job EXCEPT ![j] = Idle]

\* emit_release_events_for_order: one event for an order and a slot, ever.
Release(o, slot) ==
  released' = IF slot = NoSlot THEN released ELSE released \cup {<<o, slot>>}
\* {o} if something made for o is there.
Leaves(o) == IF Made(o) = {} THEN {} ELSE {o}
Owners(i) == {o \in Orders : Exists(o) /\ order[o].inst = i}
ReleaseInstance(i) ==
  released' = released \cup {<<o, order[o].config.slot>> :
                             o \in {p \in Owners(i) : order[p].config.slot # NoSlot}}

SlotFree_bug(o, s) ==
  \A p \in Orders \ {o} :
    ~ /\ order[p].st = "materialized" /\ order[p].inst # NoInstance
      /\ inst[order[p].inst].st = "running"
      /\ order[p].config.slot = s

\* _ensure_no_active_gpu_slot_conflicts, for overlapping time windows.
SlotFree(o, s) ==
  \A p \in Orders \ {o} :
    ~ /\ order[p].rs \in {"network_binding_ready", "completed"}
      /\ order[p].st = "materialized"
      /\ order[p].inst # NoInstance
      /\ inst[order[p].inst].st \in {"waiting", "running"}
      /\ order[p].config.slot = s

HasConversation(o) == o \in Chat /\ conv[o].st # "absent"
SetConversation(o, c) == conv' = [conv EXCEPT ![o] = c]

\* _sync_conversation_after_order_routing; the RoutingRequest is completed with
\* it.
SyncAfterRouting(o, net) ==
  IF HasConversation(o)
  THEN SetConversation(o, [st |-> IF net THEN "ready_to_submit" ELSE "submitted",
                           linked |-> TRUE])
  ELSE UNCHANGED conv

SyncLinked_bug(o, status) ==
  IF HasConversation(o) THEN SetConversation(o, [conv[o] EXCEPT !.st = order[o].rs])
  ELSE UNCHANGED conv

\* _sync_linked_routing_state
SyncLinked(o, status) ==
  IF HasConversation(o) THEN SetConversation(o, [conv[o] EXCEPT !.st = status])
  ELSE UNCHANGED conv

-----------------------------------------------------------------------------
(* Handlers that read, then write.                                         *)

\* The guard each of them applies to the copy it reads first.
Admits(op, o) ==
  CASE op = "result"      -> order[o].inst # NoInstance \/ order[o].rs = "computing"
    [] op = "platform"    -> /\ HasConversation(o)
                             /\ conv[o].st \in {"awaiting_routing", "ready_to_submit"}
                             /\ conv[o].linked
    [] op = "confirm"     -> /\ HasConversation(o) /\ internalAuto
                             /\ ~ conv[o].linked /\ conv[o].st # "awaiting_routing"
    [] op = "auto"        -> o \in Benchmark /\ internalAuto
                             /\ order[o].rs = "pending"
    [] op = "cancel"      -> order[o].st = "pending"
    [] op = "materialize" -> order[o].st # "cancelled"
    [] op = "delete"      -> TRUE

\* The router answers the orders it has claimed, and repeats an answer it has
\* not seen acknowledged; a confirmation makes the order it works on.  The first
\* read fixes what the session sees of the other orders.
Open(j, op, o) ==
  /\ job[j].op = "none"
  /\ Exists(o) <=> op # "confirm"
  /\ Admits(op, o)
  /\ op = "result" => holder[o] # {} \/ order[o].inst # NoInstance
  /\ job' = [job EXCEPT ![j] =
       [Idle EXCEPT !.op = op, !.o = o, !.seen = order[o], !.mine = Made(o),
          !.taken = IF op \in Placers THEN {s \in Slots : ~ SlotFree(o, s)} ELSE {}]]
  /\ Touch(o)
  /\ met' = IF op \in Placers
            THEN met \cup ({o} \X Beside(o)) \cup (Beside(o) \X {o}) ELSE met
  /\ UNCHANGED <<rows, runtime, released, holder, repeated, disowned, dropped>>

\* A 404, 409 or 422, a failed validation, every candidate's slot taken: the
\* handler ends and what it has not committed is rolled back; containers a
\* deletion has removed stay removed.
Refuse(j) ==
  /\ job[j].op \in Operations \ {"materialize"}
  /\ ~ job[j].made
  /\ End(j)
  /\ up' \in {up, IF job[j].op = "delete" THEN up \ {job[j].seen.inst} ELSE up}
  /\ leftover' = leftover \cap up'
  /\ UNCHANGED <<rows, inst, restarted, released, holder, overlapped, repeated, notes>>

\* The copy names an instance: the stored answer is given again.
AnswerAgain(j) ==
  LET w == job[j] IN
  /\ w.op \in {"result", "platform"} /\ w.seen.inst # NoInstance /\ Exists(w.o)
  /\ IF w.op = "result"
     THEN /\ SyncAfterRouting(w.o, w.seen.config.net # "none")
          /\ repeated' = repeated \cup {w.o}
          /\ holder' = [holder EXCEPT ![w.o] = {}]
     ELSE /\ SyncLinked(w.o, "submitted")
          /\ UNCHANGED <<repeated, holder>>
  /\ End(j)
  /\ UNCHANGED <<order, runtime, released, overlapped, notes>>

\* _create_instance_from_template: its commit also commits what the handler
\* has changed in the order so far; the handler goes on with its own copy.
\* Neither POST /materialize nor the automatic routing looks for an instance the
\* order has: what was made before is nobody's from now on.
CommitNew(j, i, new, flagged, net) ==
  LET w == job[j] IN
  /\ inst[i].st = "unused"
  /\ inst' = [inst EXCEPT ![i] = [st |-> "waiting", src |-> w.o,
                                  slot |-> IF w.op = "materialize" THEN NoSlot
                                           ELSE new.config.slot]]
  /\ order' = Merged(w.o, w.seen, new, flagged)
  /\ job' = [job EXCEPT ![j] = [w EXCEPT !.made = TRUE, !.inst = i,
                                         !.seen = new, !.net = net]]
  /\ disowned' = IF w.op \in {"auto", "materialize"} THEN disowned \cup Made(w.o)
                 ELSE disowned
  /\ UNCHANGED <<conv, up, leftover, restarted, released, holder, overlapped,
                 repeated, dropped, met>>

PlaceResult_bug(j, i, s, net) ==
  LET w == job[j] IN
  /\ w.op \in {"result", "platform"} /\ ~ w.made /\ Exists(w.o)
  /\ w.seen.inst = NoInstance
  /\ \/ w.seen.rs \in {"pending", "computing"} /\ w.seen.config.mode = "deploy"
     \/ w.op = "platform" /\ w.seen.config.mode = "route_only"
  /\ w.op = "platform" => ~ net
  /\ CommitNew(j, i, [w.seen EXCEPT !.rs = "computing",
                        !.config = [slot |-> s, net |-> "none", mode |-> "deploy"]],
               {"config"}, net)

\* receive_routing_result up to the instance.
PlaceResult(j, i, s, net) ==
  LET w == job[j] IN
  /\ w.op \in {"result", "platform"} /\ ~ w.made /\ Exists(w.o)
  /\ w.seen.inst = NoInstance
  /\ \/ w.seen.rs \in {"pending", "computing"} /\ w.seen.config.mode = "deploy"
     \/ w.op = "platform" /\ w.seen.config.mode = "route_only"
  /\ w.op = "platform" => ~ net
  /\ s \notin w.taken
  /\ CommitNew(j, i, [w.seen EXCEPT !.rs = "computing",
                        !.config = [slot |-> s, net |-> "none", mode |-> "deploy"]],
               {"config"}, net)

\* _do_auto_route up to the instance: no look at who has the slot.
PlaceAuto(j, i, s) ==
  LET w == job[j] IN
  /\ w.op = "auto" /\ ~ w.made /\ Exists(w.o)
  /\ CommitNew(j, i, [w.seen EXCEPT !.rs = "completed", !.config.slot = s,
                        !.config.net = "none"], {"config"}, FALSE)

PlaceMaterialized(j, i) ==
  /\ job[j].op = "materialize" /\ ~ job[j].made
  /\ CommitNew(j, i, job[j].seen, {}, FALSE)

LinkResult_bug(j) ==
  LET w == job[j] IN
  /\ w.op \in {"result", "platform"} /\ w.made /\ Exists(w.o)
  /\ order' = Merged(w.o, w.seen, [w.seen EXCEPT !.st = "materialized",
                                    !.rs = "completed"], {"config"})
  /\ SyncAfterRouting(w.o, w.net)
  /\ holder' = [holder EXCEPT ![w.o] = {}]
  /\ End(j)
  /\ UNCHANGED <<runtime, released, overlapped, repeated, notes>>

\* The second transaction: the order learns its instance.
LinkResult(j) ==
  LET w == job[j] IN
  /\ w.op \in {"result", "platform"} /\ w.made /\ Exists(w.o)
  /\ order' = Merged(w.o, w.seen,
       [w.seen EXCEPT !.inst = w.inst, !.st = "materialized",
          !.rs = IF w.net THEN "network_binding_ready" ELSE "completed",
          !.config.net = IF w.net THEN "waiting" ELSE "none"], {"config"})
  /\ SyncAfterRouting(w.o, w.net)
  /\ holder' = [holder EXCEPT ![w.o] = {}]
  /\ End(j)
  /\ UNCHANGED <<runtime, released, overlapped, repeated, notes>>

LinkInstance(j) ==
  LET w == job[j] IN
  /\ w.op \in {"auto", "materialize"} /\ w.made /\ Exists(w.o)
  /\ order' = Merged(w.o, w.seen,
       [w.seen EXCEPT !.inst = w.inst, !.st = "materialized"],
       IF w.op = "auto" THEN {"config"} ELSE {})
  /\ End(j)
  /\ UNCHANGED <<conv, runtime, released, holder, overlapped, repeated, notes>>

\* Materialising an order failed before the instance was committed.
MaterializeFails(j) ==
  LET w == job[j] IN
  /\ w.op = "materialize" /\ ~ w.made /\ Exists(w.o)
  /\ order' = Merged(w.o, w.seen, [w.seen EXCEPT !.st = "failed"], {})
  /\ End(j)
  /\ dropped' = dropped \cup Leaves(w.o)
  /\ UNCHANGED <<conv, runtime, released, holder, overlapped, repeated, disowned, met>>

\* The row was deleted in between (the UPDATE matches nothing), or the process
\* dies: what was committed stays.
Drop(j) ==
  /\ job[j].op # "none"
  /\ End(j)
  /\ overlapped' = overlapped \cup {job[j].o}
  /\ UNCHANGED <<rows, runtime, released, holder, repeated, notes>>

\* A result without deployable nodes is one transaction; an order that was to be
\* deployed is completed by it.
RouteOnly(j, net) ==
  LET w == job[j] IN
  /\ w.op = "result" /\ ~ w.made /\ Exists(w.o)
  /\ w.seen.inst = NoInstance
  /\ w.seen.rs \in {"pending", "computing"}
  /\ order' = Merged(w.o, w.seen,
       [w.seen EXCEPT
          !.st = IF w.seen.config.mode = "route_only" THEN "pending" ELSE "completed",
          !.rs = IF net THEN "network_binding_ready" ELSE "completed",
          !.config.net = IF net THEN "waiting" ELSE "none"], {"config"})
  /\ SyncAfterRouting(w.o, net)
  /\ holder' = [holder EXCEPT ![w.o] = {}]
  /\ End(j)
  /\ UNCHANGED <<runtime, released, overlapped, repeated, notes>>

\* cancel_order has seen a pending order.
Cancel(j) ==
  LET w == job[j] IN
  /\ w.op = "cancel" /\ Exists(w.o)
  /\ order' = Merged(w.o, w.seen, [w.seen EXCEPT !.st = "cancelled",
                                                 !.rs = "cancelled"], {})
  /\ Release(w.o, w.seen.config.slot)
  /\ IF HasConversation(w.o)
     THEN SetConversation(w.o, [conv[w.o] EXCEPT !.st =
            IF conv[w.o].linked THEN "cancelled" ELSE @])
     ELSE UNCHANGED conv
  /\ End(j)
  /\ UNCHANGED <<runtime, holder, overlapped, repeated, notes>>

\* _cleanup_materialized_order_instance, when no container refuses to go.
CleanedUp(i) == IF HasRow(i) THEN up \ {i} ELSE up

\* _detach_order_references_before_delete
Detach(o) ==
  IF HasConversation(o)
  THEN SetConversation(o, [st |-> "cancelled", linked |-> FALSE])
  ELSE UNCHANGED conv

\* purge_order_instances_by_source_order, purge_order_instance_artifacts
Purge(gone) ==
  inst' = [i \in Instances |-> IF i \in gone /\ HasRow(i)
                              THEN [inst[i] EXCEPT !.st = "purged"] ELSE inst[i]]

\* delete_order: an active instance or a container that cannot be removed
\* refuses it; the rows of the other instances made for the order go too.
Delete(j) ==
  LET w    == job[j]
      mine == w.mine \cup ({w.seen.inst} \ {NoInstance})
  IN
  /\ w.op = "delete" /\ Exists(w.o)
  /\ HasRow(w.seen.inst) => inst[w.seen.inst].st # "running"
  /\ Made(w.o) \subseteq mine            \* task_instances.source_order_id
  /\ up' = CleanedUp(w.seen.inst) /\ leftover' = leftover \cap up'
  /\ Release(w.o, w.seen.config.slot)
  /\ Purge(mine)
  /\ order' = [order EXCEPT ![w.o] = Absent]
  /\ Detach(w.o)
  /\ holder' = [holder EXCEPT ![w.o] = {}]
  /\ End(j)
  /\ UNCHANGED <<restarted, overlapped, repeated, notes>>

-----------------------------------------------------------------------------
(* Handlers that lock first, and those that are short.                     *)

Claim_bug(r, o) ==
  /\ Exists(o) /\ order[o].rs \in {"pending", "computing"}
  /\ ~ (o \in Benchmark /\ internalAuto)
  /\ order' = [order EXCEPT ![o].rs = "computing"]
  /\ SyncLinked(o, "awaiting_routing")
  /\ holder' = [holder EXCEPT ![o] = @ \cup {r}]
  /\ Touch(o)
  /\ UNCHANGED <<runtime, released, job, repeated, notes>>

\* claim_routing_order
Claim(r, o) ==
  /\ Exists(o) /\ order[o].rs = "pending"
  /\ ~ (o \in Benchmark /\ internalAuto)
  /\ order' = [order EXCEPT ![o].rs = "computing"]
  /\ SyncLinked(o, "awaiting_routing")
  /\ holder' = [holder EXCEPT ![o] = @ \cup {r}]
  /\ Touch(o)
  /\ UNCHANGED <<runtime, released, job, repeated, notes>>

\* requeue_routing_order
Requeue(r, o) ==
  /\ r \in holder[o]
  /\ Exists(o) /\ order[o].rs = "computing"
  /\ order' = [order EXCEPT ![o].rs = "pending"]
  /\ SyncLinked(o, "awaiting_routing")
  /\ holder' = [holder EXCEPT ![o] = @ \ {r}]
  /\ Touch(o)
  /\ UNCHANGED <<runtime, released, job, repeated, notes>>

\* fail_routing_order
FailRouting(r, o) ==
  /\ r \in holder[o]
  /\ Exists(o) /\ order[o].rs \in {"computing", "failed"}
  /\ order' = [order EXCEPT ![o].rs = "failed", ![o].st = "failed"]
  /\ SyncLinked(o, "failed")
  /\ holder' = [holder EXCEPT ![o] = @ \ {r}]
  /\ Touch(o)
  /\ UNCHANGED <<runtime, released, job, repeated, notes>>

\* The calls that stop or remove an instance's containers.  One that fails is
\* counted as done.
TakesDown(i) ==
  \/ up' = up \ {i} /\ leftover' = leftover \ {i}
  \/ up' = up /\ leftover' = leftover \cup ({i} \cap up)

\* A DAG start ends with all containers up, or with status failed and what its
\* rollback has left.
StartEnds(i) ==
  \/ /\ inst' = [inst EXCEPT ![i].st = "running"]
     /\ up' = up \cup {i} /\ leftover' = leftover \ {i}
  \/ /\ inst' = [inst EXCEPT ![i].st = "failed"]
     /\ \/ up' = up \ {i} /\ leftover' = leftover \ {i}
        \/ up' = up \cup {i} /\ leftover' = leftover \cup {i}
Again(i) ==
  restarted' = IF inst[i].st = "waiting" THEN restarted ELSE restarted \cup {inst[i].src}
Startable(i) == inst[i].st \in {"waiting", "stopped", "failed"}

\* confirm_routing_order_network_ready; late: the order's end has passed.
NetworkReady(o, late) ==
  LET i == order[o].inst
      row == [order[o] EXCEPT !.rs = "completed",
                !.config.net = IF @ = "none" THEN "none" ELSE "ready"]
  IN
  /\ Exists(o)
  /\ order[o].rs \in {"network_binding_ready", "completed"}
  /\ order' = [order EXCEPT ![o] =
       IF HasRow(i) /\ late THEN [row EXCEPT !.st = "failed"]
       ELSE IF i = NoInstance /\ row.config.mode = "route_only"
            THEN [row EXCEPT !.st = "completed"]
       ELSE row]
  /\ IF HasConversation(o)
     THEN SetConversation(o, [conv[o] EXCEPT !.st = "submitted"])
     ELSE UNCHANGED conv
  /\ \/ /\ HasRow(i) /\ late
        /\ inst' = [inst EXCEPT ![i].st = "expired"]
        /\ UNCHANGED <<up, leftover, restarted>>
     \/ /\ HasRow(i) /\ ~ late /\ o \notin Benchmark /\ Startable(i)
        /\ StartEnds(i) /\ Again(i)
     \/ ~ (HasRow(i) /\ late) /\ UNCHANGED runtime
  /\ Touch(o)
  /\ UNCHANGED <<released, holder, job, repeated, notes>>

\* The user, the schedule or the evaluation run starts an instance whose order
\* is not waiting for the network.
Start(i) ==
  /\ HasRow(i) /\ Startable(i)
  /\ ~ \E o \in Owners(i) : /\ order[o].rs = "network_binding_ready"
                            /\ order[o].config.net = "waiting"
  /\ StartEnds(i) /\ Again(i)
  /\ TouchInstance(i)
  /\ UNCHANGED <<rows, released, holder, job, repeated, notes>>

Stop_bug(i) ==
  /\ HasRow(i)
  /\ inst' = [inst EXCEPT ![i].st = "stopped"]
  /\ up' \in {up, up \ {i}} /\ UNCHANGED leftover
  /\ ReleaseInstance(i)
  /\ TouchInstance(i)
  /\ UNCHANGED <<rows, restarted, holder, job, repeated, notes>>

\* stop_instance: one that is pending or stopped is released without a call.
Stop(i) ==
  /\ HasRow(i)
  /\ \/ inst[i].st \in {"waiting", "stopped"} /\ UNCHANGED <<inst, up, leftover>>
     \/ /\ inst[i].st # "stopped" /\ TakesDown(i)
        /\ inst' = [inst EXCEPT ![i].st = "stopped"]
  /\ ReleaseInstance(i)
  /\ TouchInstance(i)
  /\ UNCHANGED <<rows, restarted, holder, job, repeated, notes>>

\* schedule_task_end's job: what could not be stopped or removed is only noted,
\* and a pending row stays as it is when it is kept.
EndDue(i, keep) ==
  /\ HasRow(i)
  /\ TakesDown(i)
  /\ \E st \in IF keep THEN {"stopped"} \cup ({"waiting"} \cap {inst[i].st})
              ELSE {"purged"} :
       inst' = [inst EXCEPT ![i].st = st]
  /\ order' = [o \in Orders |->
       IF o \in Owners(i) /\ order[o].st = "materialized"
       THEN [order[o] EXCEPT !.st = "completed"] ELSE order[o]]
  /\ ReleaseInstance(i)
  /\ TouchInstance(i)
  /\ UNCHANGED <<conv, restarted, holder, job, repeated, notes>>

\* delete_instance: goes on when a container could not be removed.
DeleteInstance(i) ==
  /\ HasRow(i)
  /\ TakesDown(i)
  /\ inst' = [inst EXCEPT ![i].st = "purged"]
  /\ order' = [o \in Orders |->
       IF o \in Owners(i)
       THEN [order[o] EXCEPT !.st = "cancelled", !.inst = NoInstance] ELSE order[o]]
  /\ ReleaseInstance(i)
  /\ TouchInstance(i)
  /\ UNCHANGED <<conv, restarted, holder, job, repeated, notes>>

\* stop_order_runtime and batch_cleanup_order_instances; a container that
\* cannot be removed refuses it, after the stop if there was one.
CleanUp(o, removed) ==
  LET i == order[o].inst
      done == [order EXCEPT ![o].st = IF @ = "materialized" THEN "completed" ELSE @]
  IN
  /\ Exists(o) /\ i # NoInstance
  /\ \/ ~ HasRow(i) /\ order' = done /\ UNCHANGED <<inst, up, leftover, released>>
     \/ /\ HasRow(i) /\ removed
        /\ order' = done /\ inst' = [inst EXCEPT ![i].st = "purged"]
        /\ up' = up \ {i} /\ leftover' = leftover \ {i}
        /\ Release(o, order[o].config.slot)
     \/ /\ HasRow(i) /\ ~ removed
        /\ TakesDown(i)
        /\ \/ inst' = [inst EXCEPT ![i].st = "stopped"]
           \/ inst[i].st # "running" /\ UNCHANGED inst
        /\ UNCHANGED <<order, released>>
  /\ Touch(o)
  /\ UNCHANGED <<conv, restarted, holder, job, repeated, notes>>

\* reconcile_orphan_orders, when orders are listed.
Reconcile ==
  LET orphans == {o \in Orders : /\ order[o].st = "materialized"
                                 /\ order[o].inst # NoInstance
                                 /\ ~ HasRow(order[o].inst)}
  IN
  /\ orphans # {}
  /\ order' = [o \in Orders |-> IF o \in orphans
       THEN [order[o] EXCEPT !.st = "cancelled", !.inst = NoInstance] ELSE order[o]]
  /\ overlapped' = overlapped \cup {o \in orphans : Busy(o) # {}}
  /\ UNCHANGED <<conv, runtime, released, holder, job, repeated, notes>>

-----------------------------------------------------------------------------
(* The conversation's side.                                                *)

\* confirm_intent, with the router's queue as the next stop.
Confirm(o, mode) ==
  /\ HasConversation(o)
  /\ ~ conv[o].linked /\ conv[o].st # "awaiting_routing"
  /\ ~ Exists(o)
  /\ internalAuto => mode = "route_only"
  /\ order' = [order EXCEPT ![o] = Fresh("pending", mode)]
  /\ SetConversation(o, [st |-> "awaiting_routing", linked |-> TRUE])
  /\ Touch(o)
  /\ UNCHANGED <<runtime, released, holder, job, repeated, notes>>

\* confirm_intent while the platform routes: everything up to the instance is
\* in the transaction that makes the order, and another confirmation that was
\* first has the order's key.
PlaceConfirmed(j, i, s) ==
  LET w   == job[j]
      row == [Fresh("computing", "deploy") EXCEPT !.config.slot = s]
  IN
  /\ w.op = "confirm" /\ HasConversation(w.o) /\ ~ Exists(w.o)
  /\ s \notin w.taken /\ inst[i].st = "unused"
  /\ order' = [order EXCEPT ![w.o] = row]
  /\ inst' = [inst EXCEPT ![i] = [st |-> "waiting", src |-> w.o, slot |-> s]]
  /\ SetConversation(w.o, [st |-> "awaiting_routing", linked |-> TRUE])
  /\ job' = [job EXCEPT ![j] = [w EXCEPT !.op = "platform", !.made = TRUE,
                                         !.seen = row, !.inst = i]]
  /\ UNCHANGED <<up, leftover, restarted, released, holder, overlapped, repeated, notes>>

CancelConversation_bug(o) ==
  /\ HasConversation(o)
  /\ conv[o].st \in {"awaiting_routing", "ready_to_submit"}
  /\ SetConversation(o, [conv[o] EXCEPT !.st = "cancelled"])
  /\ Touch(o)
  /\ UNCHANGED <<order, runtime, released, holder, job, repeated, notes>>

\* cancel_conversation: neither the instance nor its slot are looked at.
CancelConversation(o) ==
  /\ HasConversation(o)
  /\ conv[o].st \in {"awaiting_routing", "ready_to_submit"}
  /\ SetConversation(o, [conv[o] EXCEPT !.st = "cancelled"])
  /\ order' = IF conv[o].linked /\ Exists(o)
              THEN [order EXCEPT ![o].st = "cancelled", ![o].rs = "cancelled"]
              ELSE order
  /\ dropped' = dropped \cup Leaves(o)
  /\ Touch(o)
  /\ UNCHANGED <<runtime, released, holder, job, repeated, disowned, met>>

\* submit_conversation
Submit(o) ==
  /\ HasConversation(o) /\ conv[o].st = "ready_to_submit"
  /\ Exists(o) /\ order[o].inst # NoInstance
  /\ SetConversation(o, [conv[o] EXCEPT !.st = "submitted"])
  /\ Touch(o)
  /\ UNCHANGED <<order, runtime, released, holder, job, repeated, notes>>

\* update_draft, in whatever state the conversation is.
EditDraft(o) ==
  /\ HasConversation(o) /\ conv[o].st # "drafting"
  /\ SetConversation(o, [conv[o] EXCEPT !.st = "drafting"])
  /\ Touch(o)
  /\ UNCHANGED <<order, runtime, released, holder, job, repeated, notes>>

\* delete_conversation: the order stays, without it.
DeleteConversation(o) ==
  /\ HasConversation(o)
  /\ SetConversation(o, [st |-> "absent", linked |-> FALSE])
  /\ Touch(o)
  /\ UNCHANGED <<order, runtime, released, holder, job, repeated, notes>>

-----------------------------------------------------------------------------
Continue(j) ==
  \/ Refuse(j) \/ AnswerAgain(j)
  \/ \E i \in Instances, s \in Slots :
       \/ PlaceAuto(j, i, s) \/ PlaceConfirmed(j, i, s)
       \/ \E net \in BOOLEAN : PlaceResult(j, i, s, net)
  \/ \E i \in Instances : PlaceMaterialized(j, i)
  \/ LinkResult(j) \/ LinkInstance(j) \/ MaterializeFails(j)
  \/ \E net \in BOOLEAN : RouteOnly(j, net)
  \/ Cancel(j) \/ Delete(j) \/ Drop(j)

RouterRequest(o) ==
  \/ \E r \in Routers : Claim(r, o) \/ Requeue(r, o) \/ FailRouting(r, o)
  \/ \E late \in BOOLEAN : NetworkReady(o, late)

InstanceRequest(i) ==
  \/ Start(i) \/ Stop(i) \/ DeleteInstance(i)
  \/ \E keep \in BOOLEAN : EndDue(i, keep)

UserRequest(o) ==
  \/ \E j \in Jobs, op \in Handlers : Open(j, op, o)
  \/ \E b \in BOOLEAN : CleanUp(o, b)
  \/ \E mode \in Modes : Confirm(o, mode)
  \/ CancelConversation(o) \/ Submit(o) \/ EditDraft(o) \/ DeleteConversation(o)

Request ==
  \/ \E o \in Orders : RouterRequest(o) \/ UserRequest(o)
  \/ \E i \in Instances : InstanceRequest(i)
  \/ Reconcile

Next ==
  /\ UNCHANGED internalAuto
  /\ \/ \E j \in Jobs : Continue(j) /\ UNCHANGED served
     \/ served < MaxRequest /\ Request /\ served' = served + 1

Spec == Init /\ [][Next]_vars

-----------------------------------------------------------------------------
TypeOK ==
  /\ order \in [Orders -> Row]
  /\ conv \in [Chat -> [st : ConversationStatus, linked : BOOLEAN]]
  /\ inst \in [Instances -> [st : InstanceStatus, src : Orders \cup {NoOrder},
                             slot : Slots \cup {NoSlot}]]
  /\ up \subseteq Instances /\ leftover \subseteq Instances
  /\ released \subseteq Orders \X Slots
  /\ internalAuto \in BOOLEAN /\ served \in 0 .. MaxRequest
  /\ holder \in [Orders -> SUBSET Routers]
  /\ job \in [Jobs -> [op : Operations \cup {"none"}, o : Orders \cup {NoOrder},
                       made : BOOLEAN, seen : Row,
                       inst : Instances \cup {NoInstance}, net : BOOLEAN,
                       mine : SUBSET Instances, taken : SUBSET Slots]]
  /\ overlapped \subseteq Orders /\ restarted \subseteq Orders
  /\ disowned \subseteq Instances /\ dropped \subseteq Orders
  /\ met \subseteq Orders \X Orders
  /\ repeated \subseteq Orders

\* Two router processes never both hold the claim of an order, whatever other
\* handlers write from the copies they have.
ClaimHeldByOne == \A o \in Orders : \A r, q \in holder[o] : r = q

\* An order whose handlers came one after the other has at most the instance
\* its row names: nothing else is left on its behalf, but for what POST
\* /materialize or the automatic routing put aside when it made another one
\* (materialize_order refuses nothing but a cancelled order).
OneInstance ==
  \A o \in Orders \ overlapped :
    Busy(o) = {} => Made(o) \ disowned \subseteq {order[o].inst}

\* The row of an instance that was given a slot does not go without the event
\* that tells the router.  It may if the order no longer named it.
SlotAccounted ==
  \A i \in Instances \ disowned :
    inst[i].st = "purged" /\ inst[i].slot # NoSlot /\ inst[i].src \notin overlapped
      => <<inst[i].src, inst[i].slot>> \in released

\* When the router is told that a slot is free, no container of the order is
\* up on it, unless the last call that should have taken it down failed and was
\* counted as done (execute_dag_stop, auto_cleanup_instance and delete_instance
\* do that), or the order no longer named the instance.
ReleasedWhenDown ==
  [][\A i \in Instances \ (leftover' \cup disowned') :
       /\ inst[i].src \notin overlapped'
       /\ <<inst[i].src, inst[i].slot>> \in released' \ released
       => i \notin up']_vars

\* The order's instance can run on the slot and the router was not told.
Holds(o, s) ==
  /\ <<o, s>> \notin released
  /\ \E i \in Made(o) \ disowned :
       inst[i].slot = s /\ inst[i].st \in {"waiting", "running"}

\* Of two orders accepted for one slot only one can hold it.  The check looks at
\* what its session saw first and at materialized orders, so this is not said
\* of two orders whose results, confirmations or platform routes were under way
\* at one time, of an order that was cancelled or failed with its instance
\* there, or of an instance that was started again; and the automatic routing
\* of an evaluation run does not check.
SlotExclusive ==
  \A o, p \in Orders \ (overlapped \cup restarted \cup dropped), s \in Slots :
    Holds(o, s) /\ Holds(p, s) =>
      o = p \/ <<o, p>> \in met \/ (internalAuto /\ {o, p} \cap Benchmark # {})

\* No slot is held by two orders, and none is lost to the router.
SlotsHold == SlotAccounted /\ SlotExclusive

\* What the user is shown agrees with where the order is.
ConversationFollows ==
  \A o \in Chat \ (overlapped \cup repeated) :
    Busy(o) = {} =>
      /\ conv[o].st = "ready_to_submit" => order[o].rs = "network_binding_ready"
      /\ conv[o].st = "awaiting_routing" => order[o].rs \in {"pending", "computing"}
      /\ conv[o].st = "cancelled" => order[o].st \in {"cancelled", "absent"}

\* docs/project/requirements-checklist.md: a repeated result returns the
\* existing result.
ResultMakesOneInstance ==
  \A o \in Orders : Cardinality({i \in Made(o) : inst[i].slot # NoSlot}) <= 1
=============================================================================
