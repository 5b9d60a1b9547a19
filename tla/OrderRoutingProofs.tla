--------------------------- MODULE OrderRoutingProofs ---------------------------
(* Proofs about OrderRouting, for any number of orders, instances, slots,    *)
(* router processes, overlapping handlers and requests.                      *)
EXTENDS OrderRouting, TLAPS

-----------------------------------------------------------------------------
(* Types.                                                                    *)

Job == [op : Operations \cup {"none"}, o : Orders \cup {NoOrder}, made : BOOLEAN,
        seen : Row, inst : Instances \cup {NoInstance}, net : BOOLEAN,
        mine : SUBSET Instances, taken : SUBSET Slots]

JobsType == job \in [Jobs -> Job] /\ \A j \in Jobs : job[j].op # "none" => job[j].o \in Orders

RowsType == order \in [Orders -> Row] /\ holder \in [Orders -> SUBSET Routers]

\* Free orders are those that are not claimed, or are not there.
Free(o) == order[o].rs = "pending" \/ order[o].st = "absent"

\* A free order's claim is held by nobody, and no claim by two.
ClaimInv ==
  /\ RowsType /\ JobsType
  /\ ClaimHeldByOne
  /\ \A o \in Orders : Free(o) => holder[o] = {}

\* What a commit of some columns makes of a row.
LEMMA MergedOK ==
  ASSUME RowsType, NEW o \in Orders, NEW seen \in Row, NEW new \in Row,
         NEW flagged \in {{}, {"config"}},
         new.rs = seen.rs \/ new.rs # "pending",
         new.st = seen.st \/ new.st # "absent",
         order' = Merged(o, seen, new, flagged)
  PROVE  /\ order' \in [Orders -> Row]
         /\ \A p \in Orders : Free(p)' => Free(p)
<1> DEFINE merged == [c \in Columns |-> IF c \in flagged \/ new[c] # seen[c] THEN new[c] ELSE order[o][c]]
<1>1. order[o] \in Row
  BY DEF RowsType
<1>2. merged \in Row
  BY <1>1 DEF Row, Columns
<1>3. /\ merged.rs = IF new.rs # seen.rs THEN new.rs ELSE order[o].rs
      /\ merged.st = IF new.st # seen.st THEN new.st ELSE order[o].st
  BY DEF Columns
<1>4. order' = [order EXCEPT ![o] = merged]
  BY DEF Merged
<1> HIDE DEF merged
<1>5. order' \in [Orders -> Row]
  BY <1>2, <1>4 DEF RowsType
<1>6. ASSUME NEW p \in Orders, Free(p)' PROVE Free(p)
  BY <1>3, <1>4, <1>6 DEF Free, RowsType
<1> QED
  BY <1>5, <1>6

\* A new order's row, and the row that is not there.
LEMMA FreshType ==
  /\ Absent \in Row
  /\ \A routing \in RoutingStatus, mode \in {"deploy", "route_only"} :
       /\ Fresh(routing, mode) \in Row
       /\ Fresh(routing, mode).rs = routing /\ Fresh(routing, mode).st = "pending"
  BY DEF Absent, Fresh, Row, RoutingStatus, OrderStatus, Config

\* A process at rest, and the modes.
LEMMA IdleType == Idle \in Job /\ Idle.op = "none"
  BY FreshType DEF Idle, Job

\* A handler that ends leaves the others as they were.
LEMMA EndType ==
  ASSUME JobsType, NEW j \in Jobs, End(j)
  PROVE  JobsType'
  BY IdleType DEF JobsType, End

\* What a handler holds.
LEMMA JobOK ==
  ASSUME ClaimInv, NEW j \in Jobs, job[j].op # "none"
  PROVE  job[j].o \in Orders /\ job[j] \in Job /\ job[j].seen \in Row
  BY DEF ClaimInv, JobsType, Job

\* Nobody gets a claim, and what becomes free was free or has lost its claim.
LEMMA Loosens ==
  ASSUME ClaimInv, RowsType', JobsType',
         \A o \in Orders : holder'[o] \subseteq holder[o],
         \A o \in Orders : Free(o)' => Free(o) \/ holder'[o] = {}
  PROVE  ClaimInv'
  BY DEF ClaimInv, ClaimHeldByOne

\* Steps that write neither orders nor claims.
LEMMA OrdersRest ==
  ASSUME ClaimInv, UNCHANGED <<order, holder>>, JobsType'
  PROVE  ClaimInv'
<1>1. RowsType' /\ \A o \in Orders : Free(o)' => Free(o)
  BY DEF ClaimInv, RowsType, Free
<1> QED
  BY <1>1, Loosens

\* Steps after which fewer orders are free, and claims are as they were.
LEMMA ClaimsRest ==
  ASSUME ClaimInv, order' \in [Orders -> Row], UNCHANGED holder, JobsType',
         \A o \in Orders : Free(o)' => Free(o)
  PROVE  ClaimInv'
<1>1. RowsType'
  BY DEF ClaimInv, RowsType
<1> QED
  BY <1>1, Loosens

\* A handler that commits columns of its order.
LEMMA Writes ==
  ASSUME ClaimInv, NEW j \in Jobs, job[j].op # "none", NEW new \in Row,
         NEW flagged \in {{}, {"config"}},
         new.rs = job[j].seen.rs \/ new.rs # "pending",
         new.st = job[j].seen.st \/ new.st # "absent",
         order' = Merged(job[j].o, job[j].seen, new, flagged),
         UNCHANGED holder \/ holder' = [holder EXCEPT ![job[j].o] = {}],
         JobsType'
  PROVE  ClaimInv'
<1>1. job[j].o \in Orders /\ job[j].seen \in Row
  BY JobOK
<1>2. order' \in [Orders -> Row] /\ \A p \in Orders : Free(p)' => Free(p)
  BY <1>1, MergedOK DEF ClaimInv
<1>3. RowsType' /\ \A o \in Orders : holder'[o] \subseteq holder[o]
  BY <1>1, <1>2 DEF ClaimInv, RowsType
<1> QED
  BY <1>2, <1>3, Loosens

-----------------------------------------------------------------------------
(* Handlers that read, then write.                                           *)

\* A handler opens with a copy of the row.
LEMMA OpenOK ==
  ASSUME ClaimInv, NEW j \in Jobs, NEW op \in Operations, NEW o \in Orders, Open(j, op, o)
  PROVE  ClaimInv'
<1> DEFINE busy == IF op \in Placers THEN {s \in Slots : ~ SlotFree(o, s)} ELSE {}
           next == [Idle EXCEPT !.op = op, !.o = o, !.seen = order[o], !.mine = Made(o),
                                !.taken = busy]
<1>0. busy \in SUBSET Slots
  OBVIOUS
<1> HIDE DEF busy
<1>1. next \in Job /\ next.o = o
  BY <1>0, IdleType DEF Job, Made, ClaimInv, RowsType
<1>2. job' = [job EXCEPT ![j] = next]
  BY DEF Open, busy
<1>3. JobsType'
  BY <1>1, <1>2 DEF ClaimInv, JobsType
<1> QED
  BY <1>3, OrdersRest DEF Open, rows

\* A new instance: the order's row is committed with it.
LEMMA CommitNewOK ==
  ASSUME ClaimInv, NEW j \in Jobs, job[j].op # "none", NEW i \in Instances, NEW new \in Row,
         NEW flagged \in {{}, {"config"}}, NEW net \in BOOLEAN,
         new.rs = job[j].seen.rs \/ new.rs # "pending",
         new.st = job[j].seen.st \/ new.st # "absent",
         CommitNew(j, i, new, flagged, net)
  PROVE  ClaimInv'
<1>1. job[j] \in Job /\ job[j].o \in Orders
  BY JobOK
<1> DEFINE next == [job[j] EXCEPT !.made = TRUE, !.inst = i, !.seen = new, !.net = net]
<1>2. next \in Job /\ next.o = job[j].o
  BY <1>1 DEF Job
<1>3. /\ job' = [job EXCEPT ![j] = next] /\ UNCHANGED holder
      /\ order' = Merged(job[j].o, job[j].seen, new, flagged)
  BY DEF CommitNew
<1>4. JobsType'
  BY <1>1, <1>2, <1>3 DEF ClaimInv, JobsType
<1> QED
  BY <1>3, <1>4, Writes

\* The first transaction of a handler that makes an instance.
LEMMA PlaceOK ==
  ASSUME ClaimInv, NEW j \in Jobs, NEW i \in Instances, NEW s \in Slots, NEW net \in BOOLEAN,
         PlaceResult(j, i, s, net) \/ PlaceAuto(j, i, s)
  PROVE  ClaimInv'
<1>1. job[j].op # "none" /\ job[j].seen \in Row
  BY JobOK DEF PlaceResult, PlaceAuto
<1>2. CASE PlaceResult(j, i, s, net)
  <2> DEFINE new == [job[j].seen EXCEPT !.rs = "computing",
                       !.config = [slot |-> s, net |-> "none", mode |-> "deploy"]]
  <2>1. new \in Row /\ new.rs = "computing" /\ new.st = job[j].seen.st
    BY <1>1 DEF Row, RoutingStatus, Config
  <2>2. CommitNew(j, i, new, {"config"}, net)
    BY <1>2 DEF PlaceResult
  <2> HIDE DEF new
  <2> QED
    BY <1>1, <2>1, <2>2, CommitNewOK
<1>3. CASE PlaceAuto(j, i, s)
  <2> DEFINE new == [job[j].seen EXCEPT !.rs = "completed", !.config.slot = s,
                       !.config.net = "none"]
  <2>1. new \in Row /\ new.rs = "completed" /\ new.st = job[j].seen.st
    BY <1>1 DEF Row, RoutingStatus, Config
  <2>2. CommitNew(j, i, new, {"config"}, FALSE)
    BY <1>3 DEF PlaceAuto
  <2> HIDE DEF new
  <2> QED
    BY <1>1, <2>1, <2>2, CommitNewOK
<1> QED
  BY <1>2, <1>3

\* A materialised order changes nothing in its row yet.
LEMMA PlaceMaterializedOK ==
  ASSUME ClaimInv, NEW j \in Jobs, NEW i \in Instances, PlaceMaterialized(j, i)
  PROVE  ClaimInv'
<1>1. job[j].op # "none" /\ job[j].seen \in Row
  BY JobOK DEF PlaceMaterialized
<1> QED
  BY <1>1, CommitNewOK DEF PlaceMaterialized

\* The second transaction, or the only one.
LEMMA LinkOK ==
  ASSUME ClaimInv, NEW j \in Jobs, NEW net \in BOOLEAN,
         \/ LinkResult(j) \/ LinkInstance(j) \/ MaterializeFails(j)
         \/ RouteOnly(j, net) \/ Cancel(j)
  PROVE  ClaimInv'
<1> DEFINE w == job[j]
<1>1. w.op # "none" /\ w.seen \in Row /\ w.inst \in Instances \cup {NoInstance} /\ w.net \in BOOLEAN
  <2>1. w.op # "none"
    BY DEF LinkResult, LinkInstance, MaterializeFails, RouteOnly, Cancel
  <2> QED
    BY <2>1, JobOK DEF Job
<1>2. JobsType'
  BY EndType DEF ClaimInv, LinkResult, LinkInstance, MaterializeFails, RouteOnly, Cancel
<1>3. CASE LinkResult(j)
  <2> DEFINE new == [w.seen EXCEPT !.inst = w.inst, !.st = "materialized",
                       !.rs = IF w.net THEN "network_binding_ready" ELSE "completed",
                       !.config.net = IF w.net THEN "waiting" ELSE "none"]
  <2>1. new \in Row /\ new.rs # "pending" /\ new.st # "absent"
    BY <1>1 DEF Row, RoutingStatus, OrderStatus, Config
  <2>2. /\ order' = Merged(w.o, w.seen, new, {"config"})
        /\ holder' = [holder EXCEPT ![w.o] = {}]
    BY <1>3 DEF LinkResult
  <2> HIDE DEF new
  <2> QED
    BY <1>1, <1>2, <2>1, <2>2, Writes
<1>4. CASE LinkInstance(j)
  <2> DEFINE new == [w.seen EXCEPT !.inst = w.inst, !.st = "materialized"]
  <2>1. new \in Row /\ new.rs = w.seen.rs /\ new.st # "absent"
    BY <1>1 DEF Row, OrderStatus
  <2>2. /\ order' = Merged(w.o, w.seen, new, IF w.op = "auto" THEN {"config"} ELSE {})
        /\ UNCHANGED holder
    BY <1>4 DEF LinkInstance
  <2> HIDE DEF new
  <2> QED
    BY <1>1, <1>2, <2>1, <2>2, Writes
<1>5. CASE MaterializeFails(j)
  <2> DEFINE new == [w.seen EXCEPT !.st = "failed"]
  <2>1. new \in Row /\ new.rs = w.seen.rs /\ new.st # "absent"
    BY <1>1 DEF Row, OrderStatus
  <2>2. order' = Merged(w.o, w.seen, new, {}) /\ UNCHANGED holder
    BY <1>5 DEF MaterializeFails
  <2> HIDE DEF new
  <2> QED
    BY <1>1, <1>2, <2>1, <2>2, Writes
<1>6. CASE RouteOnly(j, net)
  <2> DEFINE new == [w.seen EXCEPT
                       !.st = IF w.seen.config.mode = "route_only" THEN "pending"
                              ELSE "completed",
                       !.rs = IF net THEN "network_binding_ready" ELSE "completed",
                       !.config.net = IF net THEN "waiting" ELSE "none"]
  <2>1. new \in Row /\ new.rs # "pending" /\ new.st # "absent"
    BY <1>1 DEF Row, RoutingStatus, OrderStatus, Config
  <2>2. /\ order' = Merged(w.o, w.seen, new, {"config"})
        /\ holder' = [holder EXCEPT ![w.o] = {}]
    BY <1>6 DEF RouteOnly
  <2> HIDE DEF new
  <2> QED
    BY <1>1, <1>2, <2>1, <2>2, Writes
<1>7. CASE Cancel(j)
  <2> DEFINE new == [w.seen EXCEPT !.st = "cancelled", !.rs = "cancelled"]
  <2>1. new \in Row /\ new.rs # "pending" /\ new.st # "absent"
    BY <1>1 DEF Row, RoutingStatus, OrderStatus
  <2>2. order' = Merged(w.o, w.seen, new, {}) /\ UNCHANGED holder
    BY <1>7 DEF Cancel
  <2> HIDE DEF new
  <2> QED
    BY <1>1, <1>2, <2>1, <2>2, Writes
<1> QED
  BY <1>3, <1>4, <1>5, <1>6, <1>7

\* Handlers that end without a write of their own, or take the order away.
LEMMA EndingOK ==
  ASSUME ClaimInv, NEW j \in Jobs, Refuse(j) \/ AnswerAgain(j) \/ Drop(j) \/ Delete(j)
  PROVE  ClaimInv'
<1>1. JobsType'
  BY EndType DEF ClaimInv, Refuse, AnswerAgain, Drop, Delete
<1>2. CASE Refuse(j) \/ Drop(j)
  BY <1>1, <1>2, OrdersRest DEF Refuse, Drop, rows
<1>3. CASE AnswerAgain(j)
  <2>1. order' = order /\ (holder' = holder \/ holder' = [holder EXCEPT ![job[j].o] = {}])
    BY <1>3 DEF AnswerAgain
  <2>2. RowsType' /\ \A o \in Orders : holder'[o] \subseteq holder[o]
    BY <2>1 DEF ClaimInv, RowsType
  <2>3. \A o \in Orders : Free(o)' => Free(o)
    BY <2>1 DEF Free
  <2> QED
    BY <1>1, <2>2, <2>3, Loosens
<1>4. CASE Delete(j)
  <2>1. job[j].o \in Orders
    BY <1>4, JobOK DEF Delete
  <2>2. /\ order' = [order EXCEPT ![job[j].o] = Absent]
        /\ holder' = [holder EXCEPT ![job[j].o] = {}]
    BY <1>4 DEF Delete
  <2>3. RowsType' /\ \A o \in Orders : holder'[o] \subseteq holder[o]
    BY <2>1, <2>2, FreshType DEF ClaimInv, RowsType
  <2>4. \A o \in Orders : Free(o)' => Free(o) \/ holder'[o] = {}
    BY <2>1, <2>2 DEF ClaimInv, RowsType, Free
  <2> QED
    BY <1>1, <2>3, <2>4, Loosens
<1> QED
  BY <1>2, <1>3, <1>4

-----------------------------------------------------------------------------
(* Handlers that lock first, and those that are short.                       *)

\* A claim is given only for an order whose claim nobody holds.
LEMMA ClaimOK ==
  ASSUME ClaimInv, NEW r \in Routers, NEW o \in Orders, Claim(r, o)
  PROVE  ClaimInv'
<1>1. /\ order[o].rs = "pending" /\ UNCHANGED job
      /\ order' = [order EXCEPT ![o] = [order[o] EXCEPT !.rs = "computing"]]
      /\ holder' = [holder EXCEPT ![o] = holder[o] \cup {r}]
      /\ order[o].st # "absent"
  BY DEF Claim, Exists
<1>2. holder[o] = {} /\ order[o] \in Row
  BY <1>1 DEF ClaimInv, RowsType, Free
<1>3. RowsType' /\ JobsType'
  <2>1. [order[o] EXCEPT !.rs = "computing"] \in Row
    BY <1>2 DEF Row, RoutingStatus
  <2>2. RowsType'
    BY <1>1, <2>1 DEF ClaimInv, RowsType
  <2>3. JobsType'
    BY <1>1 DEF ClaimInv, JobsType
  <2> QED
    BY <2>2, <2>3
<1>4. ClaimHeldByOne'
  BY <1>1, <1>2 DEF ClaimInv, RowsType, ClaimHeldByOne
<1>5. ~ Free(o)'
  BY <1>1, <1>2 DEF Free, ClaimInv, RowsType, Row
<1>6. \A p \in Orders \ {o} : (Free(p)' <=> Free(p)) /\ holder'[p] = holder[p]
  BY <1>1 DEF Free, ClaimInv, RowsType
<1> QED
  BY <1>3, <1>4, <1>5, <1>6 DEF ClaimInv

\* Whoever gives an order back held its claim alone.
LEMMA GiveBackOK ==
  ASSUME ClaimInv, NEW r \in Routers, NEW o \in Orders, Requeue(r, o) \/ FailRouting(r, o)
  PROVE  ClaimInv'
<1>1. /\ r \in holder[o] /\ UNCHANGED job
      /\ holder' = [holder EXCEPT ![o] = holder[o] \ {r}]
      /\ \/ order' = [order EXCEPT ![o] = [order[o] EXCEPT !.rs = "pending"]]
         \/ order' = [order EXCEPT ![o] = [order[o] EXCEPT !.rs = "failed", !.st = "failed"]]
  BY DEF Requeue, FailRouting
<1>2. order[o] \in Row
  BY DEF ClaimInv, RowsType
<1>3. RowsType' /\ JobsType'
  <2>1. /\ [order[o] EXCEPT !.rs = "pending"] \in Row
        /\ [order[o] EXCEPT !.rs = "failed", !.st = "failed"] \in Row
    BY <1>2 DEF Row, RoutingStatus, OrderStatus
  <2>2. RowsType'
    BY <1>1, <2>1 DEF ClaimInv, RowsType
  <2>3. JobsType'
    BY <1>1 DEF ClaimInv, JobsType
  <2> QED
    BY <2>2, <2>3
<1>4. \A p \in Orders : holder'[p] \subseteq holder[p]
  BY <1>1 DEF ClaimInv, RowsType
<1>5. holder'[o] = {}
  BY <1>1 DEF ClaimInv, RowsType, ClaimHeldByOne
<1>6. \A p \in Orders \ {o} : Free(p)' => Free(p)
  BY <1>1 DEF Free, ClaimInv, RowsType
<1> QED
  BY <1>3, <1>4, <1>5, <1>6, Loosens

\* The network is ready, or an order's runtime is cleaned up.
LEMMA OrderRuntimeOK ==
  ASSUME ClaimInv, NEW o \in Orders, NEW b \in BOOLEAN, NetworkReady(o, b) \/ CleanUp(o, b)
  PROVE  ClaimInv'
<1>1. JobsType' /\ UNCHANGED holder
  BY DEF ClaimInv, JobsType, NetworkReady, CleanUp
<1>2. order \in [Orders -> Row]
  BY DEF ClaimInv, RowsType
<1>3. CASE NetworkReady(o, b)
  <2> DEFINE row == [order[o] EXCEPT !.rs = "completed",
                       !.config.net = IF order[o].config.net = "none" THEN "none" ELSE "ready"]
  <2>1. row \in Row /\ row.rs = "completed" /\ row.st = order[o].st
    BY <1>2 DEF Row, RoutingStatus, Config
  <2>2. PICK st \in {"failed", "completed", row.st} :
          order' = [order EXCEPT ![o] = [row EXCEPT !.st = st]]
    <3>1. row = [row EXCEPT !.st = row.st]
      BY <2>1 DEF Row
    <3> QED
      BY <1>3, <3>1 DEF NetworkReady
  <2>3. [row EXCEPT !.st = st] \in Row
    BY <2>1 DEF OrderStatus, Row
  <2>4. order' \in [Orders -> Row] /\ \A p \in Orders : Free(p)' => Free(p)
    BY <1>2, <2>1, <2>2, <2>3 DEF Free, Row
  <2> QED
    BY <1>1, <2>4, ClaimsRest
<1>4. CASE CleanUp(o, b)
  <2>1. \/ order' = order
        \/ order' = [order EXCEPT ![o] = [order[o] EXCEPT !.st =
                       IF order[o].st = "materialized" THEN "completed" ELSE order[o].st]]
    BY <1>4 DEF CleanUp
  <2>2. order' \in [Orders -> Row]
    BY <1>2, <2>1 DEF OrderStatus, Row
  <2>3. \A p \in Orders : Free(p)' => Free(p)
    BY <1>2, <2>1 DEF Free, Row
  <2> QED
    BY <1>1, <2>2, <2>3, ClaimsRest
<1> QED
  BY <1>3, <1>4

\* A schedule ends, or an instance goes.
LEMMA InstanceRuntimeOK ==
  ASSUME ClaimInv, NEW i \in Instances, NEW b \in BOOLEAN, EndDue(i, b) \/ DeleteInstance(i)
  PROVE  ClaimInv'
<1>1. JobsType' /\ UNCHANGED holder
  BY DEF ClaimInv, JobsType, EndDue, DeleteInstance
<1>2. order \in [Orders -> Row]
  BY DEF ClaimInv, RowsType
<1>3. CASE EndDue(i, b)
  <2>1. order' = [p \in Orders |->
          IF p \in Owners(i) /\ order[p].st = "materialized"
          THEN [order[p] EXCEPT !.st = "completed"] ELSE order[p]]
    BY <1>3 DEF EndDue
  <2>2. order' \in [Orders -> Row]
    BY <1>2, <2>1 DEF OrderStatus, Row
  <2>3. \A p \in Orders : Free(p)' => Free(p)
    BY <1>2, <2>1 DEF Free, Row
  <2> QED
    BY <1>1, <2>2, <2>3, ClaimsRest
<1>4. CASE DeleteInstance(i)
  <2>1. order' = [p \in Orders |->
          IF p \in Owners(i)
          THEN [order[p] EXCEPT !.st = "cancelled", !.inst = NoInstance] ELSE order[p]]
    BY <1>4 DEF DeleteInstance
  <2>2. order' \in [Orders -> Row]
    BY <1>2, <2>1 DEF OrderStatus, Row
  <2>3. \A p \in Orders : Free(p)' => Free(p)
    BY <1>2, <2>1 DEF Free, Row
  <2> QED
    BY <1>1, <2>2, <2>3, ClaimsRest
<1> QED
  BY <1>3, <1>4

\* Listing the orders cancels those whose instance is gone.
LEMMA ReconcileOK ==
  ASSUME ClaimInv, Reconcile
  PROVE  ClaimInv'
<1>1. JobsType' /\ UNCHANGED holder
  BY DEF ClaimInv, JobsType, Reconcile
<1>2. order \in [Orders -> Row]
  BY DEF ClaimInv, RowsType
<1>3. PICK orphans : order' = [o \in Orders |-> IF o \in orphans
        THEN [order[o] EXCEPT !.st = "cancelled", !.inst = NoInstance] ELSE order[o]]
  BY DEF Reconcile
<1>4. order' \in [Orders -> Row]
  BY <1>2, <1>3 DEF OrderStatus, Row
<1>5. \A p \in Orders : Free(p)' => Free(p)
  BY <1>2, <1>3 DEF Free, Row
<1> QED
  BY <1>1, <1>4, <1>5, ClaimsRest

\* Starts and stops leave orders alone.
LEMMA ShortOK ==
  ASSUME ClaimInv, NEW i \in Instances, Start(i) \/ Stop(i)
  PROVE  ClaimInv'
<1>1. UNCHANGED <<order, holder>> /\ JobsType'
  BY DEF ClaimInv, JobsType, Start, Stop, rows
<1> QED
  BY <1>1, OrdersRest

\* So does most of what the user does to a conversation.
LEMMA TalkOK ==
  ASSUME ClaimInv, NEW o \in Orders, Submit(o) \/ EditDraft(o) \/ DeleteConversation(o)
  PROVE  ClaimInv'
<1>1. UNCHANGED <<order, holder>> /\ JobsType'
  BY DEF ClaimInv, JobsType, Submit, EditDraft, DeleteConversation
<1> QED
  BY <1>1, OrdersRest

\* A conversation makes an order that was not there, for the router's queue.
LEMMA ConfirmOK ==
  ASSUME ClaimInv, NEW o \in Orders, NEW mode \in {"deploy", "route_only"}, Confirm(o, mode)
  PROVE  ClaimInv'
<1>1. order \in [Orders -> Row] /\ UNCHANGED holder
  BY DEF ClaimInv, RowsType, Confirm
<1>2. order' = [order EXCEPT ![o] = Fresh("pending", mode)] /\ Free(o) /\ UNCHANGED job
  BY DEF Confirm, Free, Exists
<1>3. Fresh("pending", mode) \in Row
  BY FreshType DEF RoutingStatus
<1>4. order' \in [Orders -> Row] /\ \A p \in Orders : Free(p)' => Free(p)
  BY <1>1, <1>2, <1>3 DEF Free
<1> QED
  BY <1>1, <1>2, <1>4, ClaimsRest DEF ClaimInv, JobsType

\* Or one that the platform has placed.
LEMMA PlaceConfirmedOK ==
  ASSUME ClaimInv, NEW j \in Jobs, NEW i \in Instances, NEW s \in Slots,
         PlaceConfirmed(j, i, s)
  PROVE  ClaimInv'
<1> DEFINE row == [Fresh("computing", "deploy") EXCEPT !.config.slot = s]
           next == [job[j] EXCEPT !.op = "platform", !.made = TRUE, !.seen = row, !.inst = i]
<1>0. job[j] \in Job /\ job[j].o \in Orders
  BY JobOK DEF PlaceConfirmed
<1>1. order \in [Orders -> Row] /\ UNCHANGED holder
  BY DEF ClaimInv, RowsType, PlaceConfirmed
<1>2. /\ order' = [order EXCEPT ![job[j].o] = row] /\ Free(job[j].o)
      /\ job' = [job EXCEPT ![j] = next]
  BY DEF PlaceConfirmed, Free, Exists
<1>3. row \in Row
  <2>1. Fresh("computing", "deploy") \in Row
    BY FreshType DEF RoutingStatus
  <2> QED
    BY <2>1 DEF Row, Config
<1>4. order' \in [Orders -> Row] /\ \A p \in Orders : Free(p)' => Free(p)
  BY <1>0, <1>1, <1>2, <1>3 DEF Free
<1>5. next \in Job /\ next.o = job[j].o
  BY <1>0, <1>3 DEF Job, Operations
<1>6. JobsType'
  BY <1>0, <1>2, <1>5 DEF ClaimInv, JobsType
<1> QED
  BY <1>1, <1>4, <1>6, ClaimsRest

\* Or it cancels its order.
LEMMA CancelConversationOK ==
  ASSUME ClaimInv, NEW o \in Orders, CancelConversation(o)
  PROVE  ClaimInv'
<1>1. order \in [Orders -> Row] /\ UNCHANGED holder /\ UNCHANGED job
  BY DEF ClaimInv, RowsType, CancelConversation
<1>2. \/ order' = order
      \/ order' = [order EXCEPT ![o] = [order[o] EXCEPT !.st = "cancelled", !.rs = "cancelled"]]
  BY DEF CancelConversation
<1>3. order' \in [Orders -> Row]
  BY <1>1, <1>2 DEF Row, RoutingStatus, OrderStatus
<1>4. \A p \in Orders : Free(p)' => Free(p)
  BY <1>1, <1>2 DEF Free, Row
<1> QED
  BY <1>1, <1>3, <1>4, ClaimsRest DEF ClaimInv, JobsType

-----------------------------------------------------------------------------
(* The theorem.                                                              *)

\* At first no claim is held.
LEMMA ClaimInit == Init => ClaimInv
<1> SUFFICES ASSUME Init PROVE ClaimInv
  OBVIOUS
<1>1. order \in [Orders -> Row]
  BY FreshType DEF Init, RoutingStatus
<1> QED
  BY <1>1, IdleType DEF Init, ClaimInv, RowsType, JobsType, ClaimHeldByOne

\* Every step keeps claims apart.
LEMMA ClaimStep == ClaimInv /\ [Next]_vars => ClaimInv'
<1> SUFFICES ASSUME ClaimInv, [Next]_vars PROVE ClaimInv'
  OBVIOUS
<1>1. ASSUME NEW j \in Jobs, Continue(j) PROVE ClaimInv'
  <2>1. ASSUME NEW i \in Instances, NEW s \in Slots,
               \/ PlaceAuto(j, i, s) \/ PlaceConfirmed(j, i, s)
               \/ \E net \in BOOLEAN : PlaceResult(j, i, s, net)
        PROVE  ClaimInv'
    BY <2>1, PlaceOK, PlaceConfirmedOK
  <2>2. ASSUME NEW i \in Instances, PlaceMaterialized(j, i) PROVE ClaimInv'
    BY <2>2, PlaceMaterializedOK
  <2>3. CASE \/ LinkResult(j) \/ LinkInstance(j) \/ MaterializeFails(j) \/ Cancel(j)
             \/ \E net \in BOOLEAN : RouteOnly(j, net)
    BY <2>3, LinkOK
  <2>4. CASE Refuse(j) \/ AnswerAgain(j) \/ Delete(j) \/ Drop(j)
    BY <2>4, EndingOK
  <2> QED
    BY <1>1, <2>1, <2>2, <2>3, <2>4 DEF Continue
<1>2. ASSUME NEW o \in Orders, RouterRequest(o) PROVE ClaimInv'
  BY <1>2, ClaimOK, GiveBackOK, OrderRuntimeOK DEF RouterRequest
<1>3. ASSUME NEW o \in Orders, UserRequest(o) PROVE ClaimInv'
  <2>1. ASSUME NEW j \in Jobs, NEW op \in Handlers, Open(j, op, o) PROVE ClaimInv'
    BY <2>1, OpenOK, HandlerAssumption
  <2>2. ASSUME NEW b \in BOOLEAN, CleanUp(o, b) PROVE ClaimInv'
    BY <2>2, OrderRuntimeOK
  <2>3. ASSUME NEW mode \in Modes, Confirm(o, mode) PROVE ClaimInv'
    BY <2>3, ConfirmOK, ModeAssumption
  <2>5. CASE CancelConversation(o) \/ Submit(o) \/ EditDraft(o) \/ DeleteConversation(o)
    BY <2>5, CancelConversationOK, TalkOK
  <2> QED
    BY <1>3, <2>1, <2>2, <2>3, <2>5 DEF UserRequest
<1>4. ASSUME NEW i \in Instances, InstanceRequest(i) PROVE ClaimInv'
  BY <1>4, ShortOK, InstanceRuntimeOK DEF InstanceRequest
<1>5. CASE UNCHANGED vars
  <2>1. UNCHANGED <<order, holder>> /\ JobsType'
    BY <1>5 DEF vars, rows, ClaimInv, JobsType
  <2> QED
    BY <2>1, OrdersRest
<1> QED
  BY <1>1, <1>2, <1>3, <1>4, <1>5, ReconcileOK DEF Next, Request

\* Two router processes never both hold the claim of an order: for any number of
\* processes, orders, overlapping handlers and requests.
THEOREM OneHolder == Spec => []ClaimHeldByOne
<1>1. ClaimInv => ClaimHeldByOne
  BY DEF ClaimInv
<1> QED
  BY <1>1, ClaimInit, ClaimStep, PTL DEF Spec
=============================================================================
