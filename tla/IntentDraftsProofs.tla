--------------------------- MODULE IntentDraftsProofs ---------------------------
(***************************************************************************)
(* Proofs about IntentDrafts, for every number of requests, drafts and     *)
(* edits and whatever is said, edited, unregistered or configured:         *)
(*   OneOrder          at most one order and one request for it            *)
(*   DraftTypes        drafts have the type of drafts; versions are dense  *)
(*   ConfirmedIsSound  what is ordered can be run and led to the sink      *)
(* The last two come from one invariant, SoundInv: rows are drafts, and    *)
(* what a request has read is a draft, or a sound order, of a row that is  *)
(* still there.                                                            *)
(***************************************************************************)
EXTENDS IntentDrafts, TLAPS

(***************************************************************************)
(* One order.                                                              *)
(***************************************************************************)
ConvType == conv \in [status : {conv.status}, order : BOOLEAN]

\* What is kept: the conversation knows of its order, and there is one request for it.
OrderInv == ConvType /\ ConfirmedOnce

\* A step that leaves orders and requests alone, and of the conversation changes at
\* most the status, keeps the invariant.
LEMMA StatusOnly ==
  ASSUME OrderInv, UNCHANGED <<orders, requests>>,
         NEW status, conv' = [conv EXCEPT !.status = status]
  PROVE  OrderInv'
  BY DEF OrderInv, ConvType, ConfirmedOnce

\* A step that leaves all of it alone.
LEMMA NothingMoves ==
  ASSUME OrderInv, UNCHANGED <<orders, requests, conv>>
  PROVE  OrderInv'
  BY DEF OrderInv, ConvType, ConfirmedOnce

\* A request reads, and writes at its end; only the end of a confirmation makes an order.
LEMMA UserStepOK ==
  ASSUME OrderInv, NEW h \in Handlers, UserStep(h)
  PROVE  OrderInv'
<1> USE DEF draftVars
<1>1. ASSUME NEW kind, MessageBegins(h, kind) PROVE OrderInv'
  BY <1>1, NothingMoves DEF MessageBegins
<1>2. CASE MessageEnds(h) \/ PatchEnds(h)
  BY <1>2, StatusOnly DEF MessageEnds, PatchEnds
<1>3. CASE MessageFails(h) \/ PatchBegins(h) \/ ConfirmBegins(h) \/ ConfirmRefused(h)
  BY <1>3, NothingMoves DEF MessageFails, PatchBegins, ConfirmBegins, ConfirmRefused
<1>4. CASE ConfirmEnds(h)
  <2>1. /\ orders = {} /\ orders' = {handler[h].order}
        /\ requests' = requests + 1
        /\ conv' = [status |-> "awaiting", order |-> TRUE]
    BY <1>4 DEF ConfirmEnds, IdFree
  <2>2. requests' = 1
    BY <2>1 DEF OrderInv, ConfirmedOnce
  <2> QED
    BY <2>1, <2>2 DEF OrderInv, ConvType, ConfirmedOnce
<1> QED
  BY <1>1, <1>2, <1>3, <1>4 DEF UserStep

\* Every step keeps the invariant.
LEMMA OrderStep == OrderInv /\ [Next]_vars => OrderInv'
<1> SUFFICES ASSUME OrderInv, [Next]_vars PROVE OrderInv'
  OBVIOUS
<1> USE DEF draftVars
<1>1. ASSUME NEW h \in Handlers, UserStep(h) PROVE OrderInv'
  BY <1>1, UserStepOK
<1>2. CASE OrderMoves
  BY <1>2, StatusOnly DEF OrderMoves
<1>3. CASE OrderDeleted
  BY <1>3 DEF OrderDeleted, OrderInv, ConvType, ConfirmedOnce
<1>4. ASSUME NEW n \in Names, Unregister(n) PROVE OrderInv'
  BY <1>4, NothingMoves DEF Unregister
<1>5. CASE UNCHANGED <<scenario, registered, draftVars, handler>>
  BY <1>5, NothingMoves
<1>6. CASE UNCHANGED vars
  BY <1>6, NothingMoves DEF vars
<1> QED
  BY <1>1, <1>2, <1>3, <1>4, <1>5, <1>6 DEF Next

\* A conversation has at most one order and one request for it, and knows whether it
\* has, for any number of overlapping confirmations, messages, edits and deletions.
THEOREM OneOrder == Spec => []ConfirmedOnce
<1>1. Init => OrderInv
  BY DEF Init, OrderInv, ConvType, ConfirmedOnce
<1>2. OrderInv => ConfirmedOnce
  BY DEF OrderInv
<1> QED
  BY <1>1, <1>2, OrderStep, PTL DEF Spec

(***************************************************************************)
(* What a draft, a row and a request are.                                  *)
(***************************************************************************)
IsDraft(d) ==
  /\ d = [task |-> d.task, source |-> d.source, dest |-> d.dest, start |-> d.start, end |-> d.end,
          size |-> d.size, count |-> d.count, resources |-> d.resources, plan |-> d.plan]
  /\ {d.start, d.end} \subseteq Nat
  /\ {d.size, d.count} \subseteq Number
  /\ d.plan \in Plan

Verdicts == {"valid", "incomplete"}
IsRow(row) ==
  /\ row = [version |-> row.version, content |-> row.content, verdict |-> row.verdict]
  /\ IsDraft(row.content)
  /\ row.verdict \in Verdicts

\* What ConfirmedSound says of an order, between requests and within.
Sound(o) ==
  LET nodes == o.dag.nodes
  IN  /\ 0 < o.content.start /\ o.content.start < o.content.end
      /\ o.content.task \in Numbered => o.content.size = "good" /\ o.content.count = "good"
      /\ o.content.task \in Catalogued
      /\ Blank \notin {nodes[1].at, nodes[Len(nodes)].at}
      /\ (\E i \in DOMAIN nodes : nodes[i].deployable)
           <=> ~ (o.content.task \in RouteOnlyTasks \/ o.content.plan.routeOnly)
      /\ RoutedAsConfirmed(o)

\* A request has read what was there, and what was there stays: rows are never removed.
Has(r, n) ==
  /\ r.kind \in {"message", "stream"} =>
       /\ r.version \in 1..(n + 1) /\ r.status \in ConversationStatus
       /\ IsDraft(r.parse.content) /\ r.parse.verdict \in Verdicts
  /\ r.kind = "patch" =>
       r.row \in 1..n /\ r.status \in ConversationStatus /\ IsRow(r.loaded) /\ IsDraft(r.content)
  /\ r.kind = "confirm" => r.row \in 1..n /\ Sound(r.order)

Around ==
  /\ scenario \in Scenarios
  /\ registered \subseteq Names
  /\ conv \in [status : ConversationStatus, order : BOOLEAN]
  /\ requests \in Nat
Rows ==
  /\ drafts \in Seq({drafts[i] : i \in DOMAIN drafts})
  /\ Len(drafts) <= MaxDrafts
  /\ \A i \in DOMAIN drafts : IsRow(drafts[i]) /\ drafts[i].version \in 1..i
Asked ==
  /\ handler = [h \in Handlers |-> handler[h]]
  /\ \A h \in Handlers : Has(handler[h], Len(drafts))
SoundInv == Around /\ Rows /\ Asked /\ \A o \in orders : Sound(o)
(***************************************************************************)
(* From a message to a draft.                                              *)
(***************************************************************************)
Texts == Strategies \cup {Blank, "junk"}

\* A draft with fields of these types is one.
LEMMA MakesDraft ==
  ASSUME NEW t, NEW s, NEW k, NEW b \in Nat, NEW e \in Nat, NEW z \in Number, NEW n \in Number,
         NEW r, NEW p \in Plan
  PROVE  IsDraft([task |-> t, source |-> s, dest |-> k, start |-> b, end |-> e,
                  size |-> z, count |-> n, resources |-> r, plan |-> p])
BY DEF IsDraft

\* So is what has fields of these types.
LEMMA IsADraft ==
  ASSUME NEW t, NEW s, NEW k, NEW b \in Nat, NEW e \in Nat, NEW z \in Number, NEW n \in Number,
         NEW r, NEW p \in Plan,
         NEW d \in [task : {t}, source : {s}, dest : {k}, start : {b}, end : {e}, size : {z},
                   count : {n}, resources : {r}, plan : {p}]
  PROVE  IsDraft(d)
<1>1. d = [task |-> t, source |-> s, dest |-> k, start |-> b, end |-> e, size |-> z, count |-> n,
           resources |-> r, plan |-> p]
  OBVIOUS
<1>. QED BY <1>1, MakesDraft

\* The empty draft is one.
LEMMA NoDraftIs == IsDraft(NoDraft)
<1>1. NoPlan \in Plan BY DEF NoPlan, Plan
<1>2. Blank \in Number /\ 0 \in Nat BY DEF Number
<1>. HIDE DEF NoPlan
<1>. QED BY <1>1, <1>2, MakesDraft DEF NoDraft

\* What is merged from two times or two texts is of their type.
LEMMA OrTypes ==
  /\ \A a, b \in Number : Or(a, b) \in Number
  /\ \A a, b \in Texts : Or(a, b) \in Texts
  /\ \A a, b \in Nat : OrTime(a, b) \in Nat
BY DEF Or, OrTime

\* The default of a task.
LEMMA DefaultTypes ==
  ASSUME NEW task
  PROVE  DefaultStrategy(task) \in Texts /\ DefaultNumber(task) \in Number
BY DEF DefaultStrategy, DefaultNumber, Texts, Strategies, Number

\* Cleaning an answer leaves its types.
LEMMA CleanedIs ==
  ASSUME NEW raw, Message(raw), NEW nodes
  PROVE  LET c == Cleaned(raw, nodes)
         IN  /\ {c.start, c.end, c.lasts} \subseteq Nat
             /\ {c.size, c.count} \subseteq Number
             /\ c.strategy \in Texts
<1>. DEFINE task == IF raw.task \in Tasks THEN raw.task ELSE Blank
            source == IF Known(raw.source, nodes) THEN raw.source ELSE Blank
            dest == IF Known(raw.dest, nodes) THEN raw.dest ELSE Blank
            strategy == IF raw.strategy \in Strategies THEN raw.strategy ELSE Blank
            end == IF raw.start # 0 /\ raw.end <= raw.start THEN 0 ELSE raw.end
            c == [task |-> task, source |-> source, dest |-> dest, start |-> raw.start, end |-> end,
                  now |-> raw.now, lasts |-> raw.lasts, size |-> Positive(raw.size),
                  count |-> Positive(raw.count), strategy |-> strategy]
<1>1. raw = [task |-> raw.task, source |-> raw.source, dest |-> raw.dest, start |-> raw.start,
             end |-> raw.end, now |-> raw.now, lasts |-> raw.lasts, size |-> raw.size,
             count |-> raw.count, strategy |-> raw.strategy]
  BY DEF Message
<1>0. raw \in [task : {raw.task}, source : {raw.source}, dest : {raw.dest}, start : {raw.start},
               end : {raw.end}, now : {raw.now}, lasts : {raw.lasts}, size : {raw.size},
               count : {raw.count}, strategy : {raw.strategy}]
  BY <1>1
<1>2. Cleaned(raw, nodes) = c
  <2>1. Cleaned(raw, nodes) = [raw EXCEPT !.task = task, !.source = source, !.dest = dest,
          !.size = Positive(raw.size), !.count = Positive(raw.count), !.strategy = strategy, !.end = end]
    BY DEF Cleaned
  <2>. HIDE DEF task, source, dest, strategy, end
  <2>. QED BY <1>0, <2>1
<1>3. /\ {raw.start, raw.end, raw.lasts} \subseteq Nat /\ {raw.size, raw.count} \subseteq Number
      /\ raw.strategy \in Texts
  BY DEF Message, Texts
<1>4. Positive(raw.size) \in Number /\ Positive(raw.count) \in Number BY <1>3 DEF Positive, Number
<1>5. end \in Nat BY <1>3
<1>6. strategy \in Texts BY DEF Texts
<1>7. c.start = raw.start /\ c.end = end /\ c.lasts = raw.lasts /\ c.size = Positive(raw.size)
      /\ c.count = Positive(raw.count) /\ c.strategy = strategy
  OBVIOUS
<1>. HIDE DEF c, end, strategy
<1>. QED BY <1>2, <1>3, <1>4, <1>5, <1>6, <1>7

\* The fields of a draft, as a set it is in.
DraftOf(d) ==
  [task : {d.task}, source : {d.source}, dest : {d.dest}, start : {d.start}, end : {d.end},
   size : {d.size}, count : {d.count}, resources : {d.resources}, plan : {d.plan}]

\* A draft is in it, and its fields have their types.
LEMMA DraftFields ==
  ASSUME NEW d, IsDraft(d)
  PROVE  /\ d \in DraftOf(d)
         /\ d.start \in Nat /\ d.end \in Nat /\ d.size \in Number /\ d.count \in Number /\ d.plan \in Plan
BY DEF IsDraft, DraftOf

\* What the model says of a message is a draft.
LEMMA ModelResultIs ==
  ASSUME NEW said, Message(said), NEW raw, {raw.start, raw.end, raw.lasts} \subseteq Nat,
         {raw.size, raw.count} \subseteq Number, raw.strategy \in Texts
  PROVE  IsDraft(ModelResult(said, raw))
<1>. DEFINE start == ModelStart(said, raw)
            end == ModelEnd(said, raw)
            size == Or(raw.size, DefaultNumber(raw.task))
            count == Or(raw.count, DefaultNumber(raw.task))
            strategy == RoutingStrategy(said, Or(raw.strategy, DefaultStrategy(raw.task)))
            plan == [NoPlan EXCEPT !.strategy = strategy, !.routeOnly = raw.task = "transfer"]
            r == [task |-> raw.task, source |-> raw.source, dest |-> raw.dest, start |-> start, end |-> end,
                  size |-> size, count |-> count, resources |-> Blank, plan |-> plan]
<1>1. said.lasts \in Nat /\ said.strategy \in Texts BY DEF Message, Texts
<1>2. start \in Nat BY NowAssumption DEF ModelStart
<1>3. end \in Nat BY <1>1, <1>2 DEF ModelEnd
<1>4. size \in Number /\ count \in Number BY OrTypes, DefaultTypes
<1>5. strategy \in Texts BY <1>1, OrTypes, DefaultTypes DEF RoutingStrategy
<1>6. plan \in Plan
  <2>1. NoPlan \in Plan /\ (raw.task = "transfer") \in BOOLEAN BY DEF NoPlan, Plan
  <2>. HIDE DEF NoPlan, strategy
  <2>. QED BY <1>5, <2>1 DEF Plan, Texts
<1>7. ModelResult(said, raw) = r
  <2>1. r = [task |-> raw.task, source |-> raw.source, dest |-> raw.dest, start |-> ModelStart(said, raw),
             end |-> ModelEnd(said, raw), size |-> Or(raw.size, DefaultNumber(raw.task)),
             count |-> Or(raw.count, DefaultNumber(raw.task)), resources |-> Blank, plan |-> plan]
    OBVIOUS
  <2>. HIDE DEF plan, r
  <2>2. plan = [NoPlan EXCEPT !.strategy = RoutingStrategy(said, Or(raw.strategy, DefaultStrategy(raw.task))),
                              !.routeOnly = raw.task = "transfer"]
    BY DEF plan
  <2>. QED BY <2>1, <2>2, Zenon DEF ModelResult
<1>. HIDE DEF start, end, size, count, strategy, plan
<1>8. IsDraft(r) BY <1>2, <1>3, <1>4, <1>6, MakesDraft
<1>. QED BY <1>7, <1>8, Zenon

\* Completed from the draft so far.
LEMMA MergeIs ==
  ASSUME NEW new, NEW old, IsDraft(new), IsDraft(old)
  PROVE  IsDraft(MergeWithDraft(new, old))
<1>. DEFINE plan == [old.plan EXCEPT !.strategy = Or(new.plan.strategy, @),
                                     !.routeOnly = @ \/ new.plan.routeOnly]
<1>1. plan \in Plan
  <2>1. old.plan \in Plan /\ new.plan \in Plan BY DEF IsDraft
  <2>2. Or(new.plan.strategy, old.plan.strategy) \in Texts BY <2>1, OrTypes DEF Plan, Texts
  <2>3. (old.plan.routeOnly \/ new.plan.routeOnly) \in BOOLEAN OBVIOUS
  <2>. QED BY <2>1, <2>2, <2>3 DEF Plan, Texts
<1>2. OrTime(new.start, old.start) \in Nat /\ OrTime(new.end, old.end) \in Nat
      /\ Or(new.size, old.size) \in Number /\ Or(new.count, old.count) \in Number
  BY DraftFields, OrTypes
<1>. HIDE DEF plan
<1>3. MergeWithDraft(new, old) =
        [task |-> Or(new.task, old.task), source |-> Or(new.source, old.source),
         dest |-> Or(new.dest, old.dest), start |-> OrTime(new.start, old.start),
         end |-> OrTime(new.end, old.end), size |-> Or(new.size, old.size),
         count |-> Or(new.count, old.count), resources |-> new.resources, plan |-> plan]
  BY DEF MergeWithDraft, plan
<1>. QED BY <1>1, <1>2, <1>3, MakesDraft

\* The model's parse of a message.
LEMMA ByModelIs ==
  ASSUME NEW said, Message(said), NEW answer, Message(answer), NEW old, IsDraft(old), NEW nodes
  PROVE  LET p == ByModel(said, answer, old, nodes)
         IN  IsDraft(p.content) /\ p.verdict \in Verdicts
<1>. DEFINE c == Cleaned(answer, nodes)
            d == MergeWithDraft(ModelResult(said, c), old)
<1>1. {c.start, c.end, c.lasts} \subseteq Nat /\ {c.size, c.count} \subseteq Number /\ c.strategy \in Texts
  BY CleanedIs
<1>. HIDE DEF c
<1>2. IsDraft(ModelResult(said, c)) BY <1>1, ModelResultIs
<1>3. IsDraft(d) BY <1>2, MergeIs
<1>. QED BY <1>3 DEF ByModel, Verdict, Verdicts, c

\* Drafts with these nine fields.
DraftWith(f) ==
  [task : {f[1]}, source : {f[2]}, dest : {f[3]}, start : {f[4]}, end : {f[5]},
   size : {f[6]}, count : {f[7]}, resources : {f[8]}, plan : {f[9]}]

\* Such a draft is one if its fields have their types.
LEMMA DraftIn ==
  ASSUME NEW f, NEW d \in DraftWith(f), f[4] \in Nat, f[5] \in Nat,
         f[6] \in Number, f[7] \in Number, f[9] \in Plan
  PROVE  IsDraft(d)
BY IsADraft DEF DraftWith

\* A change of the plan alone, of the times, or of the task and the plan.
LEMMA PlanChanged ==
  ASSUME NEW d, IsDraft(d), NEW st \in Texts
  PROVE  /\ IsDraft([d EXCEPT !.plan.routeOnly = TRUE])
         /\ \A t : IsDraft([d EXCEPT !.task = t, !.plan.strategy = st])
         /\ \A s, k : IsDraft([d EXCEPT !.source = s, !.dest = k, !.plan.strategy = st])
<1>1. d \in DraftOf(d) /\ d.plan \in Plan /\ d.start \in Nat /\ d.end \in Nat
      /\ d.size \in Number /\ d.count \in Number
  BY DraftFields
<1>2. [d.plan EXCEPT !.routeOnly = TRUE] \in Plan /\ [d.plan EXCEPT !.strategy = st] \in Plan
  BY <1>1 DEF Plan, Texts
<1>3. IsDraft([d EXCEPT !.plan.routeOnly = TRUE])
  <2>. DEFINE p == [d.plan EXCEPT !.routeOnly = TRUE]
  <2>1. [d EXCEPT !.plan.routeOnly = TRUE] = [d EXCEPT !.plan = p] OBVIOUS
  <2>. HIDE DEF p
  <2>2. [d EXCEPT !.plan = p]
        \in DraftWith(<<d.task, d.source, d.dest, d.start, d.end, d.size, d.count, d.resources, p>>)
    BY <1>1 DEF DraftOf, DraftWith
  <2>3. p \in Plan BY <1>2 DEF p
  <2>. QED BY <1>1, <2>1, <2>2, <2>3, DraftIn
<1>4. ASSUME NEW t PROVE IsDraft([d EXCEPT !.task = t, !.plan.strategy = st])
  <2>. DEFINE p == [d.plan EXCEPT !.strategy = st]
  <2>1. [d EXCEPT !.task = t, !.plan.strategy = st] = [d EXCEPT !.task = t, !.plan = p]
    BY <1>1 DEF DraftOf, DraftWith
  <2>. HIDE DEF p
  <2>2. [d EXCEPT !.task = t, !.plan = p]
        \in DraftWith(<<t, d.source, d.dest, d.start, d.end, d.size, d.count, d.resources, p>>)
    BY <1>1 DEF DraftOf, DraftWith
  <2>3. p \in Plan BY <1>2 DEF p
  <2>. QED BY <1>1, <2>1, <2>2, <2>3, DraftIn
<1>5. ASSUME NEW s, NEW k PROVE IsDraft([d EXCEPT !.source = s, !.dest = k, !.plan.strategy = st])
  <2>. DEFINE p == [d.plan EXCEPT !.strategy = st]
  <2>1. [d EXCEPT !.source = s, !.dest = k, !.plan.strategy = st] =
          [d EXCEPT !.source = s, !.dest = k, !.plan = p]
    BY <1>1 DEF DraftOf, DraftWith
  <2>. HIDE DEF p
  <2>2. [d EXCEPT !.source = s, !.dest = k, !.plan = p]
        \in DraftWith(<<d.task, s, k, d.start, d.end, d.size, d.count, d.resources, p>>)
    BY <1>1 DEF DraftOf, DraftWith
  <2>3. p \in Plan BY <1>2 DEF p
  <2>. QED BY <1>1, <2>1, <2>2, <2>3, DraftIn
<1>. QED BY <1>3, <1>4, <1>5

\* A change of the endpoints, of the times, or of the numbers.
LEMMA FieldsChanged ==
  ASSUME NEW d, IsDraft(d)
  PROVE  /\ \A s, k : IsDraft([d EXCEPT !.source = s, !.dest = k])
         /\ \A b, e \in Nat : IsDraft([d EXCEPT !.start = b, !.end = e])
         /\ \A z, n \in Number : IsDraft([d EXCEPT !.size = z, !.count = n])
<1>1. d \in DraftOf(d) /\ d.plan \in Plan /\ d.start \in Nat /\ d.end \in Nat
      /\ d.size \in Number /\ d.count \in Number
  BY DraftFields
<1>2. ASSUME NEW s, NEW k PROVE IsDraft([d EXCEPT !.source = s, !.dest = k])
  <2>1. [d EXCEPT !.source = s, !.dest = k]
        \in DraftWith(<<d.task, s, k, d.start, d.end, d.size, d.count, d.resources, d.plan>>)
    BY <1>1 DEF DraftOf, DraftWith
  <2>. QED BY <1>1, <2>1, DraftIn
<1>3. ASSUME NEW b \in Nat, NEW e \in Nat PROVE IsDraft([d EXCEPT !.start = b, !.end = e])
  <2>1. [d EXCEPT !.start = b, !.end = e]
        \in DraftWith(<<d.task, d.source, d.dest, b, e, d.size, d.count, d.resources, d.plan>>)
    BY <1>1 DEF DraftOf, DraftWith
  <2>. QED BY <1>1, <2>1, DraftIn
<1>4. ASSUME NEW z \in Number, NEW n \in Number PROVE IsDraft([d EXCEPT !.size = z, !.count = n])
  <2>1. [d EXCEPT !.size = z, !.count = n]
        \in DraftWith(<<d.task, d.source, d.dest, d.start, d.end, z, n, d.resources, d.plan>>)
    BY <1>1 DEF DraftOf, DraftWith
  <2>. QED BY <1>1, <2>1, DraftIn
<1>. QED BY <1>2, <1>3, <1>4

\* What keywords and regular expressions make of a message is a draft.
LEMMA ByRulesIs ==
  ASSUME NEW said, Message(said), NEW old, IsDraft(old), NEW nodes
  PROVE  LET p == ByRules(said, old, nodes)
         IN  IsDraft(p.content) /\ p.verdict \in Verdicts
<1>. DEFINE located == Located(said, old)
            timed == Timed(said, located)
            branch == Branch(said, timed)
            d == [timed EXCEPT !.task = Or(@, said.task),
                     !.plan.strategy = Or(@, RoutingStrategy(said, DefaultStrategy(said.task)))]
            last == [branch EXCEPT !.source = IF Known(@, nodes) THEN @ ELSE Blank,
                                   !.dest = IF Known(@, nodes) THEN @ ELSE Blank,
                                   !.plan.strategy = Or(@, "resource_guarantee")]
<1>1. IsDraft(located) BY FieldsChanged DEF Located
<1>. HIDE DEF located
<1>2. IsDraft(timed)
  <2>1. said.lasts \in Nat /\ located.start \in Nat /\ located.end \in Nat BY <1>1, DraftFields DEF Message
  <2>2. RuleStart(said) \in Nat /\ RuleEnd(said) \in Nat BY <2>1, NowAssumption DEF RuleStart, RuleEnd
  <2>3. OrTime(RuleStart(said), located.start) \in Nat /\ OrTime(RuleEnd(said), located.end) \in Nat
    BY <2>1, <2>2, OrTypes
  <2>. QED BY <1>1, <2>3, FieldsChanged DEF Timed
<1>. HIDE DEF timed
<1>3. IsDraft(d)
  <2>1. Or(timed.plan.strategy, RoutingStrategy(said, DefaultStrategy(said.task))) \in Texts
    <3>1. said.strategy \in Texts BY DEF Message, Texts
    <3>2. timed.plan.strategy \in Texts BY <1>2, DraftFields DEF Plan, Texts
    <3>3. RoutingStrategy(said, DefaultStrategy(said.task)) \in Texts
      BY <3>1, OrTypes, DefaultTypes DEF RoutingStrategy
    <3>. QED BY <3>2, <3>3, OrTypes
  <2>. QED BY <1>2, <2>1, PlanChanged
<1>4. branch = IF said.task = Blank THEN timed
               ELSE IF said.task = "transfer" THEN RouteOnly(d)
               ELSE IF said.task \in Numbered THEN WithNumbers(said, d)
               ELSE d
  BY DEF Branch
<1>. HIDE DEF d
<1>5. IsDraft(RouteOnly(d)) BY <1>3, PlanChanged DEF RouteOnly, Texts
<1>6. IsDraft(WithNumbers(said, d))
  <2>1. said.size \in Number /\ said.count \in Number /\ d.size \in Number /\ d.count \in Number
    BY <1>3, DraftFields DEF Message
  <2>2. /\ NumberIn(said.size, d.size, DefaultNumber(said.task)) \in Number
        /\ NumberIn(said.count, d.count, DefaultNumber(said.task)) \in Number
    BY <2>1, OrTypes, DefaultTypes DEF NumberIn
  <2>. QED BY <1>3, <2>2, FieldsChanged DEF WithNumbers
<1>7. IsDraft(branch) BY <1>2, <1>3, <1>4, <1>5, <1>6
<1>. HIDE DEF branch
<1>8. IsDraft(last)
  <2>1. branch.plan.strategy \in Texts BY <1>7, DraftFields DEF Plan, Texts
  <2>2. Or(branch.plan.strategy, "resource_guarantee") \in Texts
    <3>1. "resource_guarantee" \in Texts BY DEF Texts, Strategies
    <3>. QED BY <2>1, <3>1, OrTypes
  <2>. QED BY <1>7, <2>2, PlanChanged
<1>. HIDE DEF last
<1>9. ByRules(said, old, nodes) =
        IF branch.task = Blank THEN [content |-> branch, verdict |-> "incomplete"]
        ELSE [content |-> last, verdict |-> Verdict(RuleComplete(branch, nodes))]
  BY DEF ByRules, branch, timed, located, last
<1>. QED BY <1>7, <1>8, <1>9 DEF Verdict, Verdicts

\* Whatever a message is parsed to.
LEMMA ParsesAre ==
  ASSUME NEW said, Message(said), NEW answers, \A m \in answers : Message(m), NEW old, IsDraft(old),
         NEW nodes, NEW uses, NEW may, NEW p \in Parses(said, answers, old, nodes, uses, may)
  PROVE  IsDraft(p.content) /\ p.verdict \in Verdicts
<1>1. \/ \E answer \in answers : p = ByModel(said, answer, old, nodes)
      \/ p = ByRules(said, old, nodes)
  BY DEF Parses
<1>. QED BY <1>1, ByModelIs, ByRulesIs
(***************************************************************************)
(* From a PATCH to a draft.                                                *)
(***************************************************************************)
\* The fields of the plan.
LEMMA EnteredIs ==
  ASSUME NEW edit, Edit(edit), NEW d, IsDraft(d)
  PROVE  Entered(edit, d) \in Plan
<1>1. d.plan \in Plan BY DraftFields
<1>. DEFINE s == Set(edit, "sourceInput", d.plan.sourceInput)
            k == Set(edit, "destInput", d.plan.destInput)
            port == Set(edit, "port", d.plan.port)
            only == IF d.task \in RouteOnlyTasks /\ "routeOnly" \in DOMAIN edit THEN TRUE
                    ELSE Set(edit, "routeOnly", d.plan.routeOnly)
            call == Set(edit, "callback",
                        IF Set(edit, "port", Blank) = "off" THEN Blank ELSE d.plan.callback)
<1>2. s \in Names \cup {Blank} BY <1>1 DEF Edit, Set, Plan
<1>3. k \in Names \cup {Blank} BY <1>1 DEF Edit, Set, Plan
<1>4. port \in {Blank, "set", "off"} BY <1>1 DEF Edit, Set, Plan
<1>5. only \in BOOLEAN BY <1>1 DEF Edit, Set, Plan
<1>6. call \in Names \cup {Blank, "own"} BY <1>1 DEF Edit, Set, Plan
<1>7. Entered(edit, d) = [d.plan EXCEPT !.sourceInput = s, !.destInput = k, !.port = port,
                                        !.routeOnly = only, !.callback = call]
  BY DEF Entered
<1>. HIDE DEF s, k, port, only, call
<1>. QED BY <1>1, <1>2, <1>3, <1>4, <1>5, <1>6, <1>7 DEF Plan

\* The plan.
LEMMA PatchedPlanIs ==
  ASSUME NEW edit, Edit(edit), NEW d, IsDraft(d)
  PROVE  PatchedPlan(edit, d) \in Plan
<1>. DEFINE plan == Entered(edit, d)
            port == HasPort([d EXCEPT !.plan = plan])
<1>1. d.plan \in Plan /\ plan \in Plan BY DraftFields, EnteredIs
<1>. HIDE DEF plan, port
<1>2. ASSUME "strategy" \in DOMAIN edit PROVE [d.plan EXCEPT !.strategy = edit.strategy] \in Plan
  <2>1. edit["strategy"] \in Texts BY <1>2 DEF Edit, Texts
  <2>. QED BY <1>1, <2>1 DEF Plan, Texts
<1>3. [plan EXCEPT !.callback = Blank] \in Plan BY <1>1 DEF Plan
<1>4. [plan EXCEPT !.callback = Or(plan.destInput, @)] \in Plan
  <2>1. Or(plan.destInput, plan.callback) \in Names \cup {Blank, "own"} BY <1>1 DEF Or, Plan
  <2>. QED BY <1>1, <2>1 DEF Plan
<1>5. PatchedPlan(edit, d) =
        IF "strategy" \in DOMAIN edit THEN [d.plan EXCEPT !.strategy = edit.strategy]
        ELSE IF ~ Touches(edit) \/ "callback" \in DOMAIN edit THEN plan
        ELSE IF ~ port THEN [plan EXCEPT !.callback = Blank]
        ELSE [plan EXCEPT !.callback = Or(plan.destInput, @)]
  BY DEF PatchedPlan, plan, port
<1>. QED BY <1>1, <1>2, <1>3, <1>4, <1>5

\* A draft that was edited is one.
LEMMA PatchedIs ==
  ASSUME NEW edit, Edit(edit), NEW d, IsDraft(d)
  PROVE  IsDraft(Patched(edit, d))
<1>. DEFINE source == Set(edit, "source", Or(Set(edit, "sourceInput", Blank), d.source))
            dest == Set(edit, "dest", Or(Set(edit, "destInput", Blank), d.dest))
            start == Set(edit, "start", d.start)
            end == Set(edit, "end", d.end)
            size == Set(edit, "size", d.size)
            resources == Set(edit, "resources", d.resources)
            plan == PatchedPlan(edit, d)
<1>1. d \in DraftOf(d) /\ d.start \in Nat /\ d.end \in Nat /\ d.size \in Number /\ d.count \in Number
  BY DraftFields
<1>2. start \in Nat BY <1>1 DEF Edit, Set
<1>3. end \in Nat BY <1>1 DEF Edit, Set
<1>4. size \in Number BY <1>1 DEF Edit, Set
<1>5. plan \in Plan BY PatchedPlanIs
<1>6. Patched(edit, d) = [d EXCEPT !.source = source, !.dest = dest, !.start = start, !.end = end,
                                   !.size = size, !.resources = resources, !.plan = plan]
  BY DEF Patched
<1>. HIDE DEF source, dest, start, end, size, resources, plan
<1>7. Patched(edit, d) \in DraftWith(<<d.task, source, dest, start, end, size, d.count, resources, plan>>)
  BY <1>1, <1>6 DEF DraftOf, DraftWith
<1>. QED BY <1>1, <1>2, <1>3, <1>4, <1>5, <1>7, DraftIn

(***************************************************************************)
(* The order that is made of a draft.                                      *)
(***************************************************************************)
\* The roles of a task, with their places.
LEMMA RolesAre ==
  ASSUME NEW task
  PROVE  LET roles == Roles(task)
         IN  /\ Len(roles) \in {2, 3} /\ DOMAIN roles = 1..Len(roles)
             /\ roles[1] = "source" /\ roles[Len(roles)] = "sink"
             /\ Len(roles) = 2 <=> task \in RouteOnlyTasks
             /\ Len(roles) = 3 => roles[2] = "compute"
             /\ \A i, j \in DOMAIN roles : roles[i] = roles[j] => i = j
             /\ \A i \in DOMAIN roles : roles[i] = "sink" => i = Len(roles)
<1>1. CASE task \in RouteOnlyTasks BY <1>1 DEF Roles
<1>2. CASE task \notin RouteOnlyTasks BY <1>2 DEF Roles
<1>. QED BY <1>1, <1>2

\* The DAG's nodes: the source at the one end, the sink with its callback at the other,
\* and a compute node in between that is deployed unless the task is a route.
LEMMA DagIs ==
  ASSUME NEW d, NEW source, NEW sink, NEW port, NEW callback, NEW override
  PROVE  LET dag == Payload(d, source, sink, port, callback, override)
             nodes == dag.nodes
         IN  /\ nodes[1].at = source /\ nodes[Len(nodes)].at = sink
             /\ Role(dag, "source").at = source
             /\ Role(dag, "sink").at = sink /\ Role(dag, "sink").callback = callback
             /\ (\E i \in DOMAIN nodes : nodes[i].deployable) <=> Deployable(d) # {}
             /\ \A flow \in dag.edges :
                  flow \in {<<"source", "sink">>, <<"source", "compute">>, <<"compute", "sink">>}
<1>. DEFINE dag == Payload(d, source, sink, port, callback, override)
            roles == Roles(d.task)
            n == Len(roles)
            node(i) == [role |-> roles[i], deployable |-> roles[i] \in Deployable(d),
                        at |-> BoundTo(roles[i], source, sink), port |-> roles[i] = "sink" /\ port,
                        callback |-> IF roles[i] = "sink" THEN callback ELSE Blank,
                        resources |-> Resources(d, override)]
            nodes == [i \in 1..n |-> node(i)]
<1>1. /\ n \in {2, 3} /\ DOMAIN roles = 1..n /\ roles[1] = "source" /\ roles[n] = "sink"
      /\ (n = 2 <=> d.task \in RouteOnlyTasks) /\ (n = 3 => roles[2] = "compute")
      /\ (\A i, j \in 1..n : roles[i] = roles[j] => i = j)
  BY RolesAre
<1>2. dag.nodes = nodes /\ dag.edges = DagEdges(d.task)
  BY <1>1 DEF Payload, DagNodes
<1>. HIDE DEF dag, roles, n
<1>3. ASSUME NEW i \in 1..n PROVE nodes[i] = node(i) BY <1>3
<1>4. DOMAIN nodes = 1..n OBVIOUS
<1>5. Len(nodes) = n BY <1>1, <1>4
<1>6. \A i \in 1..n : node(i).role = roles[i] /\ node(i).at = BoundTo(roles[i], source, sink)
                      /\ node(i).callback = (IF roles[i] = "sink" THEN callback ELSE Blank)
                      /\ node(i).deployable = (roles[i] \in Deployable(d))
  OBVIOUS
<1>. HIDE DEF nodes, node
<1>7. ASSUME NEW k \in 1..n PROVE Role(dag, roles[k]) = node(k)
  <2>. DEFINE S == {dag.nodes[i] : i \in DOMAIN dag.nodes}
  <2>1. S = {node(i) : i \in 1..n} BY <1>2, <1>3, <1>4
  <2>2. node(k) \in S /\ node(k).role = roles[k] BY <1>6, <2>1
  <2>3. ASSUME NEW m \in S, m.role = roles[k] PROVE m = node(k)
    <3>1. PICK i \in 1..n : m = node(i) BY <2>1
    <3>2. i = k BY <1>1, <1>6, <2>3, <3>1
    <3>. QED BY <3>1, <3>2
  <2>4. \E i \in DOMAIN dag.nodes : dag.nodes[i].role = roles[k] BY <1>2, <1>3, <1>4, <1>6
  <2>5. Role(dag, roles[k]) = CHOOSE m \in S : m.role = roles[k] BY <2>4 DEF Role
  <2>. HIDE DEF S
  <2>. QED BY <2>2, <2>3, <2>5
<1>8. 1 \in 1..n /\ n \in 1..n BY <1>1
<1>9. node(1).at = source BY <1>1, <1>6, <1>8 DEF BoundTo
<1>10. node(n).at = sink /\ node(n).callback = callback BY <1>1, <1>6, <1>8 DEF BoundTo
<1>11. Role(dag, "source") = node(1) /\ Role(dag, "sink") = node(n) BY <1>1, <1>7, <1>8
<1>12. dag.nodes[1] = node(1) /\ dag.nodes[Len(dag.nodes)] = node(n) BY <1>2, <1>3, <1>5, <1>8
<1>13. (\E i \in DOMAIN dag.nodes : dag.nodes[i].deployable) <=> Deployable(d) # {}
  <2>1. (\E i \in DOMAIN dag.nodes : dag.nodes[i].deployable) <=> \E i \in 1..n : roles[i] \in Deployable(d)
    BY <1>2, <1>3, <1>4, <1>6
  <2>2. CASE d.task \in RouteOnlyTasks \/ d.plan.routeOnly BY <2>1, <2>2 DEF Deployable
  <2>3. CASE ~ (d.task \in RouteOnlyTasks \/ d.plan.routeOnly)
    <3>1. Deployable(d) = {"compute"} BY <2>3 DEF Deployable
    <3>2. n = 3 /\ roles[2] = "compute" BY <1>1, <2>3
    <3>. QED BY <2>1, <3>1, <3>2
  <2>. QED BY <2>2, <2>3
<1>14. \A flow \in DagEdges(d.task) :
         flow \in {<<"source", "sink">>, <<"source", "compute">>, <<"compute", "sink">>}
  <2>1. CASE d.task \in RouteOnlyTasks
    <3>1. Roles(d.task) = <<"source", "sink">> BY <2>1 DEF Roles
    <3>. QED BY <3>1 DEF DagEdges
  <2>2. CASE d.task \notin RouteOnlyTasks
    <3>1. Roles(d.task) = <<"source", "compute", "sink">> BY <2>2 DEF Roles
    <3>2. Len(Roles(d.task)) = 3 BY <3>1
    <3>3. DagEdges(d.task) = {<<Roles(d.task)[i], Roles(d.task)[i + 1]>> : i \in 1..2} BY <3>2 DEF DagEdges
    <3>4. \A i \in 1..2 : i = 1 \/ i = 2 OBVIOUS
    <3>. QED BY <3>1, <3>3, <3>4
  <2>. QED BY <2>1, <2>2
<1>. QED BY <1>2, <1>9, <1>10, <1>11, <1>12, <1>13, <1>14 DEF dag

\* Which roles an answer makes containers of, and the GPU of the compute container.
LEMMA ContainersAre ==
  ASSUME NEW order, NEW answer \in Answers
  PROVE  LET placements == Effective(order, answer)
             containers == Containers(order, placements)
         IN  /\ DOMAIN containers \subseteq order.policy
             /\ "compute" \in DOMAIN containers => containers["compute"].gpu # Blank
<1>. DEFINE completed == CompletedAnswer(order, answer)
            placements == Effective(order, answer)
            containers == Containers(order, placements)
<1>1. DOMAIN containers = {r \in DOMAIN placements : r \in order.policy}
  BY DEF Containers, IsDeployable
<1>2. ASSUME "compute" \in DOMAIN containers PROVE containers["compute"].gpu # Blank
  <2>1. "compute" \in DOMAIN placements /\ containers["compute"] = placements["compute"]
    BY <1>1, <1>2 DEF Containers
  <2>2. "compute" \in DOMAIN completed
        /\ placements["compute"] = [completed["compute"] EXCEPT !.gpu = Or(@, "0")]
    BY <2>1 DEF Effective
  <2>3. "compute" \in DOMAIN answer /\ completed["compute"] = answer["compute"]
    BY <2>2 DEF CompletedAnswer
  <2>4. answer["compute"] \in [host : {"compute-1"} \cup Names, gpu : {Blank}]
    BY <2>3 DEF Answers
  <2>. HIDE DEF completed, placements, containers
  <2>. DEFINE c == completed["compute"]
  <2>5. c \in [host : {"compute-1"} \cup Names, gpu : {Blank}] BY <2>3, <2>4
  <2>6. placements["compute"] = [c EXCEPT !.gpu = Or(@, "0")] BY <2>2
  <2>. HIDE DEF c
  <2>7. placements["compute"].gpu = Or(c.gpu, "0") BY <2>5, <2>6
  <2>8. Or(c.gpu, "0") # Blank BY DEF Or, Blank
  <2>. QED BY <2>1, <2>7, <2>8
<1>. QED BY <1>1, <1>2

\* The flows of any answer are right, whichever roles are deployed.
LEMMA FlowsAreRight ==
  ASSUME NEW order, NEW d, NEW override, order.content = d, order.callback = CallbackOf(d),
         order.dag = Payload(d, SourceOf(d), SinkOf(d), HasPort(d), CallbackOf(d), override),
         NEW answer \in Answers
  PROVE  FlowsRight(order, answer)
<1>. DEFINE placements == Effective(order, answer)
            containers == Containers(order, placements)
            run == Routed(order, answer)
<1>d. /\ Role(order.dag, "source").at = SourceOf(d)
      /\ Role(order.dag, "sink").at = SinkOf(d) /\ Role(order.dag, "sink").callback = CallbackOf(d)
      /\ \A flow \in order.dag.edges :
           flow \in {<<"source", "sink">>, <<"source", "compute">>, <<"compute", "sink">>}
  BY DagIs
<1>c. /\ DOMAIN containers \subseteq order.policy
      /\ "compute" \in DOMAIN containers => containers["compute"].gpu # Blank
  BY ContainersAre
<1>1. CASE DOMAIN containers = {}
  <2>1. run.bindings = {} BY <1>1 DEF Routed
  <2>. HIDE DEF run
  <2>. QED BY <2>1 DEF FlowsRight, run
<1>2. CASE DOMAIN containers # {}
  <2>1. run = [status |-> "materialized", containers |-> containers,
               bindings |-> NetworkBindings(order, containers), posts |-> CallbackEnv(order)]
    BY <1>2 DEF Routed
  <2>2. run.containers = containers /\ run.bindings = NetworkBindings(order, containers)
        /\ run.posts = CallbackEnv(order)
    BY <2>1
  <2>. HIDE DEF run, containers, placements
  <2>3. ASSUME NEW b \in run.bindings
        PROVE  /\ b.from \in {"source", "compute"} /\ b.to \in {"compute", "sink"}
               /\ b.src = EndAt(order, containers, b.from) /\ b.dst = EndAt(order, containers, b.to)
               /\ b.to \notin DOMAIN containers => b.callback = Role(order.dag, b.to).callback
    <3>1. PICK flow \in order.dag.edges : b = Binding(order, containers, flow)
      BY <2>2, <2>3 DEF NetworkBindings
    <3>2. flow[1] \in {"source", "compute"} /\ flow[2] \in {"compute", "sink"} BY <1>d
    <3>3. /\ b.from = flow[1] /\ b.to = flow[2]
          /\ b.src = EndAt(order, containers, flow[1]) /\ b.dst = EndAt(order, containers, flow[2])
          /\ b.callback = IF flow[2] \in DOMAIN containers THEN Blank ELSE Role(order.dag, flow[2]).callback
      BY <3>1 DEF Binding
    <3>. QED BY <3>2, <3>3
  <2>4. ASSUME "source" \notin order.policy PROVE EndAt(order, containers, "source") = SourceOf(d)
    BY <1>c, <1>d, <2>4 DEF EndAt
  <2>5. ASSUME "sink" \notin order.policy PROVE EndAt(order, containers, "sink") = SinkOf(d)
    BY <1>c, <1>d, <2>5 DEF EndAt
  <2>6. run.posts = CallbackOf(d)
    <3>1. CallbackOf(d) = Blank => d.plan.callback = Blank BY DEF CallbackOf, Or
    <3>2. CallbackEnv(order) = Or(CallbackOf(d), Or(d.plan.callback, CallbackOf(d)))
      BY <1>d DEF CallbackEnv
    <3>3. Or(CallbackOf(d), Or(d.plan.callback, CallbackOf(d))) = CallbackOf(d) BY <3>1 DEF Or
    <3>. QED BY <2>2, <3>2, <3>3
  <2>7. ASSUME "compute" \in DOMAIN containers
        PROVE  \E slot \in GpuSlots(containers) :
                 slot[1] = EndAt(order, containers, "compute") /\ slot[2] # Blank
    <3>. DEFINE slot == <<containers["compute"].host, containers["compute"].gpu>>
    <3>1. slot \in GpuSlots(containers) BY <2>7 DEF GpuSlots
    <3>2. slot[1] = EndAt(order, containers, "compute") BY <2>7 DEF EndAt
    <3>3. slot[2] # Blank BY <1>c, <2>7
    <3>. QED BY <3>1, <3>2, <3>3
  <2>8. ASSUME NEW b \in run.bindings
        PROVE  /\ b.from = "source" /\ "source" \notin order.policy => b.src = SourceOf(d)
               /\ b.to = "sink" /\ "sink" \notin order.policy =>
                    b.dst = SinkOf(d) /\ b.callback = run.posts
               /\ b.from = "compute" /\ "compute" \in DOMAIN run.containers =>
                    \E slot \in GpuSlots(run.containers) : slot[1] = b.src /\ slot[2] # Blank
    BY <1>c, <1>d, <2>2, <2>3, <2>4, <2>5, <2>6, <2>7, <2>8
  <2>9. \A b, c \in run.bindings : b.to = c.from => b.dst = c.src BY <2>3
  <2>. QED BY <2>8, <2>9 DEF FlowsRight, run
<1>. QED BY <1>1, <1>2

\* What is confirmed is sound.
LEMMA OrderedIsSound ==
  ASSUME registered \subseteq Names, NEW i, NEW d, IsDraft(d), Confirmable(d)
  PROVE  Sound(Ordered(i, d))
<1>. DEFINE o == Ordered(i, d)
            policy == Deployable(d)
            callback == CallbackOf(d)
            dag == Payload(d, SourceOf(d), SinkOf(d), HasPort(d), CallbackOf(d), Settings.override)
<1>1. o = [draft |-> i, content |-> d, policy |-> policy, callback |-> callback, dag |-> dag]
  BY DEF Ordered
<1>2. /\ dag.nodes[1].at = SourceOf(d) /\ dag.nodes[Len(dag.nodes)].at = SinkOf(d)
      /\ (\E j \in DOMAIN dag.nodes : dag.nodes[j].deployable) <=> Deployable(d) # {}
  BY DagIs
<1>3. Errors(d) = {} /\ d.task \in Catalogued /\ SourceOf(d) \in registered /\ SinkOf(d) \in registered
  BY DEF Confirmable
<1>4. 0 < d.start /\ d.start < d.end
  <2>1. d.start \in Nat /\ d.end \in Nat BY DraftFields
  <2>2. d.start # 0 /\ d.end # 0 /\ ~ (d.end <= d.start)
    <3>1. "start" \notin Errors(d) /\ "end" \notin Errors(d) /\ "order" \notin Errors(d) BY <1>3
    <3>2. d.start # 0 BY <3>1 DEF Errors
    <3>3. d.end # 0 BY <3>1 DEF Errors
    <3>. QED BY <3>1, <3>2, <3>3 DEF Errors
  <2>. QED BY <2>1, <2>2
<1>5. d.task \in Numbered => d.size = "good" /\ d.count = "good"
  <2>1. "size" \notin Errors(d) /\ "count" \notin Errors(d) BY <1>3
  <2>. QED BY <2>1 DEF Errors
<1>6. Deployable(d) # {} <=> ~ (d.task \in RouteOnlyTasks \/ d.plan.routeOnly) BY DEF Deployable
<1>7. SourceOf(d) # Blank /\ SinkOf(d) # Blank BY <1>3, NamesAssumption
<1>. HIDE DEF o, policy, callback, dag
<1>8. o.content = d /\ o.callback = callback /\ o.dag = dag BY <1>1
<1>9. ASSUME NEW order \in {o, [o EXCEPT !.policy = @ \cup {"source", "sink"}]}, NEW answer \in Answers
      PROVE  FlowsRight(order, answer)
  <2>1. order.content = d /\ order.callback = callback /\ order.dag = dag BY <1>1, <1>9
  <2>. QED BY <2>1, FlowsAreRight DEF callback, dag
<1>10. RoutedAsConfirmed(o) BY <1>9 DEF RoutedAsConfirmed
<1>11. Sound(o) BY <1>2, <1>3, <1>4, <1>5, <1>6, <1>7, <1>8, <1>10 DEF Sound
<1>. QED BY <1>11 DEF o

(***************************************************************************)
(* The rows and the requests.                                              *)
(***************************************************************************)
\* A sequence, by its length and its elements.
LEMMA SeqOf ==
  ASSUME NEW n \in Nat, NEW s, s = [j \in 1..n |-> s[j]]
  PROVE  s \in Seq({s[j] : j \in DOMAIN s}) /\ Len(s) = n /\ DOMAIN s = 1..n
<1>1. DOMAIN s = 1..n BY Zenon
<1>2. s \in [1..n -> {s[j] : j \in DOMAIN s}] BY <1>1
<1>. QED BY <1>1, <1>2

\* A sequence is one of its own elements.
LEMMA SeqOfItsOwn ==
  ASSUME NEW T, NEW s \in Seq(T)
  PROVE  s \in Seq({s[j] : j \in DOMAIN s}) /\ Len(s) \in Nat /\ DOMAIN s = 1..Len(s)
<1>1. Len(s) \in Nat /\ s = [j \in 1..Len(s) |-> s[j]] OBVIOUS
<1>. QED BY <1>1, SeqOf

\* The rows by their number.
LEMMA RowsAre ==
  ASSUME Rows
  PROVE  /\ Len(drafts) \in Nat /\ DOMAIN drafts = 1..Len(drafts)
         /\ drafts = [j \in 1..Len(drafts) |-> drafts[j]]
BY DEF Rows

\* A row is inserted.
LEMMA RowAppended ==
  ASSUME Rows, Len(drafts) < MaxDrafts, NEW row, IsRow(row), row.version \in 1..(Len(drafts) + 1),
         drafts' = Append(drafts, row)
  PROVE  Rows' /\ Len(drafts') = Len(drafts) + 1
<1>. DEFINE n == Len(drafts)
            S == {drafts[i] : i \in DOMAIN drafts} \cup {row}
<1>1. n \in Nat /\ DOMAIN drafts = 1..n /\ drafts \in Seq(S)
  BY RowsAre DEF Rows
<1>. HIDE DEF S
<1>2. row \in S BY DEF S
<1>3. drafts' \in Seq(S) /\ Len(drafts') = n + 1 BY <1>1, <1>2
<1>4. \A j \in 1..(n + 1) : drafts'[j] = IF j = n + 1 THEN row ELSE drafts[j] BY <1>1, <1>2
<1>5. DOMAIN drafts' = 1..(n + 1) /\ drafts' \in Seq({drafts'[j] : j \in DOMAIN drafts'})
  <2>1. \A s \in Seq(S) : s \in Seq({s[j] : j \in DOMAIN s}) /\ DOMAIN s = 1..Len(s) BY SeqOfItsOwn
  <2>. QED BY <1>3, <2>1
<1>7. \A j \in 1..(n + 1) : IsRow(drafts'[j]) /\ drafts'[j].version \in 1..j
  <2>. SUFFICES ASSUME NEW j \in 1..(n + 1) PROVE IsRow(drafts'[j]) /\ drafts'[j].version \in 1..j OBVIOUS
  <2>1. CASE j = n + 1 BY <1>4, <2>1
  <2>2. CASE j # n + 1
    <3>1. j \in DOMAIN drafts BY <1>1, <2>2
    <3>2. drafts'[j] = drafts[j] BY <1>4, <2>2
    <3>. QED BY <3>1, <3>2 DEF Rows
  <2>. QED BY <2>1, <2>2
<1>8. Len(drafts') <= MaxDrafts BY <1>1, <1>3, BoundsAssumption
<1>. QED BY <1>3, <1>5, <1>7, <1>8 DEF Rows

\* A row is updated.
LEMMA RowUpdated ==
  ASSUME Rows, NEW i \in 1..Len(drafts), NEW row, IsRow(row), row.version = drafts[i].version,
         drafts' = [drafts EXCEPT ![i] = row]
  PROVE  Rows' /\ Len(drafts') = Len(drafts)
<1>. DEFINE n == Len(drafts)
<1>1. n \in Nat /\ DOMAIN drafts = 1..n BY RowsAre
<1>2. DOMAIN drafts' = 1..n BY <1>1
<1>3. \A j \in 1..n : drafts'[j] = IF j = i THEN row ELSE drafts[j] BY <1>1
<1>4. drafts' \in Seq({drafts'[j] : j \in DOMAIN drafts'}) /\ Len(drafts') = n
  <2>. DEFINE S == {drafts[j] : j \in DOMAIN drafts} \cup {row}
  <2>1. drafts \in Seq(S) /\ row \in S /\ i \in 1..Len(drafts) BY DEF Rows
  <2>. HIDE DEF S
  <2>2. drafts' \in Seq(S) /\ Len(drafts') = n BY <1>1, <2>1
  <2>3. \A s \in Seq(S) : s \in Seq({s[j] : j \in DOMAIN s}) BY SeqOfItsOwn
  <2>. QED BY <2>2, <2>3
<1>5. \A j \in 1..n : IsRow(drafts'[j]) /\ drafts'[j].version \in 1..j
  <2>. SUFFICES ASSUME NEW j \in 1..n PROVE IsRow(drafts'[j]) /\ drafts'[j].version \in 1..j OBVIOUS
  <2>1. j \in DOMAIN drafts BY <1>1
  <2>2. IsRow(drafts[j]) /\ drafts[j].version \in 1..j BY <2>1 DEF Rows
  <2>. QED BY <1>3, <2>2
<1>. QED BY <1>2, <1>4, <1>5 DEF Rows

\* What a request has read is still there when there are more rows.
LEMMA StillHas ==
  ASSUME NEW n \in Nat, NEW m \in Nat, n <= m, NEW r, Has(r, n)
  PROVE  Has(r, m)
BY DEF Has

\* A request begins or ends.
LEMMA RequestMoves ==
  ASSUME Asked, Len(drafts) \in Nat, Len(drafts') \in Nat, Len(drafts) <= Len(drafts'),
         NEW h \in Handlers, NEW r, Has(r, Len(drafts')), handler' = [handler EXCEPT ![h] = r]
  PROVE  Asked'
<1>1. DOMAIN handler = Handlers BY Zenon DEF Asked
<1>2. handler' = [k \in Handlers |-> handler'[k]] BY <1>1
<1>3. \A k \in Handlers : Has(handler'[k], Len(drafts'))
  <2>. SUFFICES ASSUME NEW k \in Handlers PROVE Has(handler'[k], Len(drafts')) OBVIOUS
  <2>1. handler'[k] = IF k = h THEN r ELSE handler[k] BY <1>1
  <2>2. Has(handler[k], Len(drafts')) BY StillHas DEF Asked
  <2>. QED BY <2>1, <2>2
<1>. QED BY <1>2, <1>3 DEF Asked

\* No request at all.
LEMMA IdleHas == ASSUME NEW n PROVE Has(Idle, n)
BY DEF Has, Idle

\* One that ends.
LEMMA RequestEnds ==
  ASSUME Asked, Len(drafts) \in Nat, Len(drafts') \in Nat, Len(drafts) <= Len(drafts'),
         NEW h \in Handlers, Ends(h)
  PROVE  Asked'
BY IdleHas, RequestMoves DEF Ends

\* The columns of a PATCH over what the row is by now.
LEMMA MergedIs ==
  ASSUME NEW row, IsDraft(row), NEW new, IsDraft(new), NEW loaded
  PROVE  IsDraft(Merged(row, loaded, new))
<1>. DEFINE m == Merged(row, loaded, new)
            fields == {"task", "source", "dest", "start", "end", "size", "count", "resources", "plan"}
<1>1. row \in DraftOf(row) /\ row.start \in Nat /\ row.end \in Nat /\ row.size \in Number
      /\ row.count \in Number /\ row.plan \in Plan
  BY DraftFields
<1>2. new.start \in Nat /\ new.end \in Nat /\ new.size \in Number /\ new.count \in Number /\ new.plan \in Plan
  BY DraftFields
<1>3. DOMAIN row = fields BY <1>1 DEF DraftOf
<1>4. m = [f \in fields |-> m[f]] BY <1>3 DEF Merged
<1>5. \A f \in fields : m[f] \in {new[f], row[f]} BY <1>3 DEF Merged
<1>6. m.start \in Nat /\ m.end \in Nat BY <1>1, <1>2, <1>5
<1>7. m.size \in Number /\ m.count \in Number /\ m.plan \in Plan BY <1>1, <1>2, <1>5
<1>. HIDE DEF m
<1>8. m \in DraftWith(<<m.task, m.source, m.dest, m.start, m.end, m.size, m.count, m.resources, m.plan>>)
  BY <1>4 DEF DraftWith
<1>9. IsDraft(m) BY <1>6, <1>7, <1>8, DraftIn
<1>. QED BY <1>9 DEF m

(***************************************************************************)
(* The steps.                                                              *)
(***************************************************************************)
\* The status a request leaves is one.
LEMMA StatusAfterIs ==
  ASSUME Around, NEW h
  PROVE  StatusAfter(h) \in ConversationStatus
BY DEF Around, StatusAfter, ConversationStatus

\* A step of a request that leaves the rows and the orders alone.
LEMMA OnlyAsked ==
  ASSUME SoundInv, NEW h \in Handlers, NEW r, Has(r, Len(drafts)), handler' = [handler EXCEPT ![h] = r],
         UNCHANGED <<scenario, registered, conv, drafts, orders, requests>>
  PROVE  SoundInv'
<1>1. Len(drafts) \in Nat /\ Len(drafts') = Len(drafts) BY RowsAre DEF SoundInv
<1>2. Asked'
  <2>1. Has(r, Len(drafts')) BY <1>1
  <2>2. Len(drafts) \in Nat /\ Len(drafts') \in Nat /\ Len(drafts) <= Len(drafts') BY <1>1
  <2>3. Asked BY DEF SoundInv
  <2>. QED BY <2>1, <2>2, <2>3, RequestMoves
<1>3. Rows' BY DEF SoundInv, Rows
<1>. QED BY <1>2, <1>3 DEF SoundInv, Around

\* Any step that leaves the rows, the requests and the orders alone.
LEMMA NothingRead ==
  ASSUME SoundInv, UNCHANGED <<drafts, handler>>, Around', orders' \subseteq orders
  PROVE  SoundInv'
<1>1. Rows' /\ Asked' BY DEF SoundInv, Rows, Asked
<1>. QED BY <1>1 DEF SoundInv

\* A message is read and parsed.
LEMMA MessageBeginsSound ==
  ASSUME SoundInv, NEW h \in Handlers, NEW kind \in {"message", "stream"}, MessageBegins(h, kind)
  PROVE  SoundInv'
<1>1. PICK said \in scenario.said, base \in IF drafts = <<>> THEN {Unwritten}
                                         ELSE {drafts[i] : i \in Latest} :
        \E parse \in Parses(said, scenario.said, base.content, registered, UsesModel, MayFallBack) :
          Begins(h, [kind |-> kind, parse |-> parse, version |-> base.version + 1,
                     status |-> conv.status, fails |-> UsesModel /\ ~ MayFallBack])
  BY DEF MessageBegins
<1>2. PICK parse \in Parses(said, scenario.said, base.content, registered, UsesModel, MayFallBack) :
        Begins(h, [kind |-> kind, parse |-> parse, version |-> base.version + 1,
                   status |-> conv.status, fails |-> UsesModel /\ ~ MayFallBack])
  BY <1>1
<1>3. \A m \in scenario.said : Message(m) BY ScenarioAssumption DEF SoundInv, Around
<1>4. Len(drafts) \in Nat /\ DOMAIN drafts = 1..Len(drafts) BY RowsAre DEF SoundInv
<1>5. IsDraft(base.content) /\ base.version + 1 \in 1..(Len(drafts) + 1)
  <2>1. CASE drafts = <<>>
    <3>1. base = Unwritten BY <2>1
    <3>2. base.content = NoDraft /\ base.version = 0 BY <3>1 DEF Unwritten
    <3>. QED BY <3>2, <1>4, NoDraftIs
  <2>2. CASE drafts # <<>>
    <3>1. PICK i \in Latest : base = drafts[i] BY <2>2, <1>1
    <3>2. i \in 1..Len(drafts) BY <1>4 DEF Latest
    <3>3. IsRow(drafts[i]) /\ drafts[i].version \in 1..i BY <1>4, <3>2 DEF SoundInv, Rows
    <3>. QED BY <3>1, <3>2, <3>3, <1>4 DEF IsRow
  <2>. QED BY <2>1, <2>2
<1>6. IsDraft(parse.content) /\ parse.verdict \in Verdicts
  <2>1. Message(said) BY <1>3
  <2>. QED BY <2>1, <1>2, <1>3, <1>5, ParsesAre
<1>. DEFINE r == [kind |-> kind, parse |-> parse, version |-> base.version + 1,
                  status |-> conv.status, fails |-> UsesModel /\ ~ MayFallBack]
<1>7. r.kind = kind /\ r.parse = parse /\ r.version = base.version + 1 /\ r.status = conv.status OBVIOUS
<1>8. handler' = [handler EXCEPT ![h] = r] BY <1>2 DEF Begins
<1>. HIDE DEF r
<1>9. Has(r, Len(drafts))
  BY <1>5, <1>6, <1>7 DEF Has, SoundInv, Around
<1>10. UNCHANGED <<scenario, registered, conv, drafts, orders, requests>> BY DEF MessageBegins, draftVars
<1>. QED BY <1>8, <1>9, <1>10, OnlyAsked

\* A message that has been parsed makes a row; one that failed does not.
LEMMA MessageEndsSound ==
  ASSUME SoundInv, NEW h \in Handlers, MessageEnds(h)
  PROVE  SoundInv'
<1>. DEFINE row == [version |-> handler[h].version, content |-> handler[h].parse.content,
                    verdict |-> handler[h].parse.verdict]
<1>1. Rows /\ Asked /\ Around BY DEF SoundInv
<1>2. handler[h].version \in 1..(Len(drafts) + 1) /\ IsDraft(handler[h].parse.content)
      /\ handler[h].parse.verdict \in Verdicts
  BY <1>1 DEF Asked, Has, MessageEnds
<1>3. IsRow(row) /\ row.version \in 1..(Len(drafts) + 1) BY <1>2 DEF IsRow
<1>4. drafts' = Append(drafts, row) /\ Len(drafts) < MaxDrafts BY DEF MessageEnds
<1>. HIDE DEF row
<1>5. Rows' /\ Len(drafts') = Len(drafts) + 1 BY <1>1, <1>3, <1>4, RowAppended
<1>6. Len(drafts) \in Nat BY <1>1, RowsAre
<1>7. Asked' BY <1>1, <1>5, <1>6, RequestEnds DEF MessageEnds
<1>8. Around'
  <2>1. conv' = [conv EXCEPT !.status = StatusAfter(h)] /\ UNCHANGED <<scenario, registered, requests>>
    BY DEF MessageEnds
  <2>2. StatusAfter(h) \in ConversationStatus BY <1>1, StatusAfterIs
  <2>. QED BY <1>1, <2>1, <2>2 DEF Around
<1>9. UNCHANGED orders BY DEF MessageEnds
<1>. QED BY <1>5, <1>7, <1>8, <1>9 DEF SoundInv

\* A request that ends without a trace.
LEMMA EndsSound ==
  ASSUME SoundInv, NEW h \in Handlers, MessageFails(h) \/ ConfirmRefused(h)
  PROVE  SoundInv'
BY OnlyAsked, IdleHas DEF MessageFails, ConfirmRefused, Ends, draftVars

\* The latest of the rows are rows.
LEMMA LatestIs ==
  ASSUME Rows, NEW i \in Latest
  PROVE  i \in 1..Len(drafts) /\ IsRow(drafts[i]) /\ IsDraft(drafts[i].content)
<1>1. i \in 1..Len(drafts) BY RowsAre DEF Latest
<1>2. IsRow(drafts[i]) BY <1>1, RowsAre DEF Rows
<1>. QED BY <1>1, <1>2 DEF IsRow

\* A PATCH is read and worked out.
LEMMA PatchBeginsSound ==
  ASSUME SoundInv, NEW h \in Handlers, PatchBegins(h)
  PROVE  SoundInv'
<1>1. PICK i \in Latest, edit \in scenario.edits :
        Begins(h, [kind |-> "patch", row |-> i, loaded |-> drafts[i], status |-> conv.status,
                   content |-> Patched(edit, drafts[i].content)])
  BY DEF PatchBegins
<1>2. Rows /\ Around BY DEF SoundInv
<1>3. Edit(edit) BY <1>2, ScenarioAssumption DEF Around
<1>4. i \in 1..Len(drafts) /\ IsRow(drafts[i]) /\ IsDraft(drafts[i].content) BY <1>2, LatestIs
<1>5. IsDraft(Patched(edit, drafts[i].content)) BY <1>3, <1>4, PatchedIs
<1>. DEFINE r == [kind |-> "patch", row |-> i, loaded |-> drafts[i], status |-> conv.status,
                  content |-> Patched(edit, drafts[i].content)]
<1>6. r.kind = "patch" /\ r.row = i /\ r.loaded = drafts[i] /\ r.status = conv.status
      /\ r.content = Patched(edit, drafts[i].content)
  OBVIOUS
<1>7. handler' = [handler EXCEPT ![h] = r] BY <1>1 DEF Begins
<1>. HIDE DEF r
<1>8. Has(r, Len(drafts)) BY <1>2, <1>4, <1>5, <1>6 DEF Has, Around
<1>9. UNCHANGED <<scenario, registered, conv, drafts, orders, requests>> BY DEF PatchBegins
<1>. QED BY <1>7, <1>8, <1>9, OnlyAsked

\* The verdict of a row is set.
LEMMA VerdictSet ==
  ASSUME NEW v, NEW c, NEW w, NEW new
  PROVE  [[version |-> v, content |-> c, verdict |-> w] EXCEPT !.verdict = new]
           = [version |-> v, content |-> c, verdict |-> new]
OBVIOUS

\* A PATCH writes its columns over whatever the row is by now.
LEMMA PatchEndsSound ==
  ASSUME SoundInv, NEW h \in Handlers, PatchEnds(h)
  PROVE  SoundInv'
<1>. DEFINE i == handler[h].row
            new == handler[h].content
            loaded == handler[h].loaded
            verdict == Verdict(Errors(new) = {})
            old == drafts[i]
            content == Merged(old.content, loaded.content, new)
            newVerdict == IF verdict # loaded.verdict THEN verdict ELSE old.verdict
            row == [version |-> old.version, content |-> content, verdict |-> newVerdict]
<1>1. Rows /\ Asked /\ Around BY DEF SoundInv
<1>2. i \in 1..Len(drafts) /\ IsRow(loaded) /\ IsDraft(new) BY <1>1 DEF Asked, Has, PatchEnds, Is
<1>3. Len(drafts) \in Nat /\ DOMAIN drafts = 1..Len(drafts) BY <1>1, RowsAre
<1>4. IsRow(old) BY <1>1, <1>2, <1>3 DEF Rows
<1>5. IsDraft(content) BY <1>2, <1>4, MergedIs DEF IsRow
<1>6. verdict \in Verdicts BY DEF Verdict, Verdicts
<1>7. newVerdict \in Verdicts BY <1>4, <1>6 DEF IsRow
<1>8. drafts' = [drafts EXCEPT ![i].content = content, ![i].verdict = newVerdict]
  BY DEF PatchEnds
<1>. HIDE DEF i, new, loaded, verdict, content, newVerdict
<1>9. IsRow(row) /\ row.version = drafts[i].version BY <1>5, <1>7 DEF IsRow
<1>10. drafts' = [drafts EXCEPT ![i] = row]
  <2>1. [old EXCEPT !.content = content]
          = [version |-> old.version, content |-> content, verdict |-> old.verdict]
    BY <1>4 DEF IsRow
  <2>2. drafts' = [drafts EXCEPT ![i] = [[old EXCEPT !.content = content] EXCEPT !.verdict = newVerdict]]
    BY <1>2, <1>3, <1>8
  <2>3. row = [version |-> old.version, content |-> content, verdict |-> newVerdict]
    OBVIOUS
  <2>4. [[old EXCEPT !.content = content] EXCEPT !.verdict = newVerdict] = row
    <3>. DEFINE half == [version |-> old.version, content |-> content, verdict |-> old.verdict]
    <3>1. [half EXCEPT !.verdict = newVerdict]
            = [version |-> old.version, content |-> content, verdict |-> newVerdict]
      BY Zenon, VerdictSet
    <3>. HIDE DEF half
    <3>2. [old EXCEPT !.content = content] = half BY <2>1 DEF half
    <3>. QED BY <3>1, <3>2, <2>3, Zenon
  <2>. QED BY <2>2, <2>4
<1>. HIDE DEF row
<1>11. Rows' /\ Len(drafts') = Len(drafts) BY <1>1, <1>2, <1>9, <1>10, RowUpdated
<1>12. Asked' BY <1>1, <1>3, <1>11, RequestEnds DEF PatchEnds
<1>13. Around'
  <2>1. conv' = [conv EXCEPT !.status = StatusAfter(h)] /\ UNCHANGED <<scenario, registered, requests>>
    BY DEF PatchEnds
  <2>2. StatusAfter(h) \in ConversationStatus BY <1>1, StatusAfterIs
  <2>. QED BY <1>1, <2>1, <2>2 DEF Around
<1>14. UNCHANGED orders BY DEF PatchEnds
<1>. QED BY <1>11, <1>12, <1>13, <1>14 DEF SoundInv

\* What is confirmed is sound when it is read.
LEMMA ConfirmBeginsSound ==
  ASSUME SoundInv, NEW h \in Handlers, ConfirmBegins(h)
  PROVE  SoundInv'
<1>1. PICK i \in Latest :
        /\ Confirmable(drafts[i].content)
        /\ Begins(h, [kind |-> "confirm", row |-> i, loaded |-> drafts[i].verdict,
                      placed |-> PlacedByPlatform(drafts[i].content),
                      order |-> Ordered(i, drafts[i].content)])
  BY DEF ConfirmBegins
<1>2. Rows /\ registered \subseteq Names BY DEF SoundInv, Around
<1>3. i \in 1..Len(drafts) /\ IsDraft(drafts[i].content) BY <1>2, LatestIs
<1>4. Sound(Ordered(i, drafts[i].content)) BY <1>1, <1>2, <1>3, OrderedIsSound
<1>. DEFINE r == [kind |-> "confirm", row |-> i, loaded |-> drafts[i].verdict,
                  placed |-> PlacedByPlatform(drafts[i].content),
                  order |-> Ordered(i, drafts[i].content)]
<1>5. r.kind = "confirm" /\ r.row = i /\ r.order = Ordered(i, drafts[i].content) OBVIOUS
<1>6. handler' = [handler EXCEPT ![h] = r] BY <1>1 DEF Begins
<1>. HIDE DEF r
<1>7. Has(r, Len(drafts)) BY <1>3, <1>4, <1>5 DEF Has
<1>8. UNCHANGED <<scenario, registered, conv, drafts, orders, requests>> BY DEF ConfirmBegins, draftVars
<1>. QED BY <1>6, <1>7, <1>8, OnlyAsked

\* The order is what was read, whatever has become of the row.
LEMMA ConfirmEndsSound ==
  ASSUME SoundInv, NEW h \in Handlers, ConfirmEnds(h)
  PROVE  SoundInv'
<1>. DEFINE i == handler[h].row
            old == drafts[i]
            verdict == IF handler[h].loaded # "valid" THEN "valid" ELSE old.verdict
            row == [version |-> old.version, content |-> old.content, verdict |-> verdict]
<1>1. Rows /\ Asked /\ Around BY DEF SoundInv
<1>2. i \in 1..Len(drafts) /\ Sound(handler[h].order) BY <1>1 DEF Asked, Has, ConfirmEnds, Is
<1>3. Len(drafts) \in Nat /\ DOMAIN drafts = 1..Len(drafts) BY <1>1, RowsAre
<1>4. IsRow(old) BY <1>1, <1>2, <1>3 DEF Rows
<1>5. verdict \in Verdicts BY <1>4 DEF IsRow, Verdicts
<1>6. drafts' = [drafts EXCEPT ![i].verdict = verdict] BY DEF ConfirmEnds
<1>. HIDE DEF i, verdict
<1>7. IsRow(row) /\ row.version = drafts[i].version BY <1>4, <1>5 DEF IsRow
<1>8. drafts' = [drafts EXCEPT ![i] = row]
  <2>1. [old EXCEPT !.verdict = verdict] = row BY <1>4 DEF IsRow
  <2>2. drafts' = [drafts EXCEPT ![i] = [old EXCEPT !.verdict = verdict]] BY <1>2, <1>3, <1>6
  <2>. QED BY <2>1, <2>2
<1>. HIDE DEF row
<1>9. Rows' /\ Len(drafts') = Len(drafts) BY <1>1, <1>2, <1>7, <1>8, RowUpdated
<1>10. Asked' BY <1>1, <1>3, <1>9, RequestEnds DEF ConfirmEnds
<1>11. Around' BY <1>1 DEF Around, ConfirmEnds, ConversationStatus
<1>12. \A o \in orders' : Sound(o) BY <1>2 DEF ConfirmEnds, SoundInv
<1>. QED BY <1>9, <1>10, <1>11, <1>12 DEF SoundInv

\* Those who are not requests leave what is read alone.
LEMMA OthersSound ==
  ASSUME SoundInv,
         \/ OrderMoves \/ OrderDeleted \/ \E n \in Names : Unregister(n)
         \/ UNCHANGED <<scenario, registered, draftVars, handler>>
  PROVE  SoundInv'
<1>1. CASE OrderMoves
  <2>1. Around' BY <1>1 DEF OrderMoves, SoundInv, Around, ConversationStatus
  <2>. QED BY <1>1, <2>1, NothingRead DEF OrderMoves
<1>2. CASE OrderDeleted
  <2>1. Around' BY <1>2 DEF OrderDeleted, SoundInv, Around, ConversationStatus
  <2>. QED BY <1>2, <2>1, NothingRead DEF OrderDeleted
<1>3. ASSUME NEW n \in Names, Unregister(n) PROVE SoundInv'
  <2>1. Around' BY <1>3 DEF Unregister, SoundInv, Around, draftVars
  <2>. QED BY <1>3, <2>1, NothingRead DEF Unregister, draftVars
<1>4. CASE UNCHANGED <<scenario, registered, draftVars, handler>>
  <2>1. Around' BY <1>4 DEF SoundInv, Around, draftVars
  <2>. QED BY <1>4, <2>1, NothingRead DEF draftVars
<1>. QED BY <1>1, <1>2, <1>3, <1>4

\* Every step keeps it.
LEMMA SoundStep == SoundInv /\ [Next]_vars => SoundInv'
<1>. SUFFICES ASSUME SoundInv, [Next]_vars PROVE SoundInv' OBVIOUS
<1>1. ASSUME NEW h \in Handlers, UserStep(h) PROVE SoundInv'
  <2>1. ASSUME NEW kind \in {"message", "stream"}, MessageBegins(h, kind) PROVE SoundInv'
    BY <2>1, MessageBeginsSound
  <2>2. CASE MessageEnds(h) BY <2>2, MessageEndsSound
  <2>3. CASE MessageFails(h) \/ ConfirmRefused(h) BY <2>3, EndsSound
  <2>4. CASE PatchBegins(h) BY <2>4, PatchBeginsSound
  <2>5. CASE PatchEnds(h) BY <2>5, PatchEndsSound
  <2>6. CASE ConfirmBegins(h) BY <2>6, ConfirmBeginsSound
  <2>7. CASE ConfirmEnds(h) BY <2>7, ConfirmEndsSound
  <2>. QED BY <1>1, <2>1, <2>2, <2>3, <2>4, <2>5, <2>6, <2>7 DEF UserStep
<1>2. CASE OrderMoves \/ OrderDeleted BY <1>2, OthersSound
<1>3. ASSUME NEW n \in Names, Unregister(n) PROVE SoundInv' BY <1>3, OthersSound
<1>4. CASE UNCHANGED <<scenario, registered, draftVars, handler>> BY <1>4, OthersSound
<1>5. CASE UNCHANGED vars BY <1>5, OthersSound DEF vars
<1>. QED BY <1>1, <1>2, <1>3, <1>4, <1>5 DEF Next

\* It holds at the start: no row, no request, no order.
LEMMA SoundInit == Init => SoundInv
<1>. SUFFICES ASSUME Init PROVE SoundInv OBVIOUS
<1>1. Around BY DEF Init, Around, ConversationStatus
<1>2. Rows BY BoundsAssumption DEF Init, Rows
<1>3. Asked
  <2>1. handler = [h \in Handlers |-> Idle] BY DEF Init
  <2>2. handler = [h \in Handlers |-> handler[h]] BY <2>1
  <2>. QED BY <2>1, <2>2, IdleHas DEF Asked
<1>4. \A o \in orders : Sound(o) BY DEF Init
<1>. QED BY <1>1, <1>2, <1>3, <1>4 DEF SoundInv

\* Drafts, however they come about (a model's answer, keywords, a PATCH over what
\* another PATCH has written), have the fields and values of a draft, and no version
\* is skipped.
THEOREM DraftTypes == Spec => []TypeOK
<1>1. SoundInv => TypeOK
  <2>. SUFFICES ASSUME SoundInv PROVE TypeOK OBVIOUS
  <2>1. ASSUME NEW i \in DOMAIN drafts
        PROVE  /\ drafts[i].version \in 1..i
               /\ drafts[i].verdict \in {"valid", "incomplete"}
               /\ {drafts[i].content.size, drafts[i].content.count} \subseteq Number
               /\ drafts[i].content.plan \in Plan
    BY DEF SoundInv, Rows, IsRow, IsDraft, Verdicts
  <2>. QED BY <2>1 DEF SoundInv, Around, Rows, TypeOK
<1>. QED BY <1>1, SoundInit, SoundStep, PTL DEF Spec

\* Whatever overlaps, what is ordered can be run, its DAG is bound at both ends, and
\* whatever a router answers leads from the user's source to the user's sink.
THEOREM ConfirmedIsSound == Spec => []ConfirmedSound
<1>1. SoundInv => ConfirmedSound BY DEF SoundInv, Sound, ConfirmedSound
<1>. QED BY <1>1, SoundInit, SoundStep, PTL DEF Spec
=============================================================================
