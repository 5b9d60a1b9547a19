------------------------------ MODULE IntentParse ------------------------------
(***************************************************************************)
(* From a message to a draft (services/intent_workflow.py, intent_parser.  *)
(* py, llm_intent_parser.py).  The model's answer is cleaned, completed    *)
(* from the draft so far and validated; when the model fails, or is not    *)
(* used, regular expressions and keywords take its place.                  *)
(*                                                                         *)
(* A message is what can be found in it: the task its keywords name, the   *)
(* endpoints, whether it says "now", how long it lasts, two numbers of the *)
(* data profile, a strategy.  The model's answer has the same fields and   *)
(* need not have anything to do with the message.                          *)
(***************************************************************************)
EXTENDS Naturals

CONSTANTS
  Names,       \* of endpoints a user may write
  Now          \* the hour of every message: a bound

ASSUME NowAssumption == Now \in Nat \ {0}

Blank == "blank"
ASSUME NamesAssumption == Blank \notin Names

\* One task of each treatment: numbers that the user must give; numbers with
\* defaults; no compute node; neither numbers nor a template.
Tasks == {"matmul", "fusion", "transfer", "training"}
Numbered == {"matmul", "fusion"}
RouteOnlyTasks == {"transfer"}
Catalogued == {"matmul", "fusion", "transfer"}

Strategies == {"resource_guarantee", "low_latency_forwarding", "cost_priority"}
DefaultStrategy(task) ==
  IF task = "fusion" THEN "low_latency_forwarding" ELSE "resource_guarantee"

\* _default_data_profile: a profile of its own for the fusion of two videos.
DefaultNumber(task) == IF task = "fusion" THEN "good" ELSE Blank

Number == {Blank, "zero", "bad", "good"}

\* What is found in a message, and what an answer has, wherever its words come from.
Message(m) ==
  /\ m = [task |-> m.task, source |-> m.source, dest |-> m.dest, start |-> m.start, end |-> m.end,
          now |-> m.now, lasts |-> m.lasts, size |-> m.size, count |-> m.count,
          strategy |-> m.strategy]
  /\ {m.start, m.end, m.lasts} \subseteq Nat
  /\ {m.size, m.count} \subseteq Number
  /\ m.strategy \in Strategies \cup {Blank, "junk"}

Or(new, old) == IF new = Blank THEN old ELSE new
OrTime(new, old) == IF new = 0 THEN old ELSE new

NoPlan ==
  [strategy |-> Blank, sourceInput |-> Blank, destInput |-> Blank, port |-> Blank,
   callback |-> Blank, routeOnly |-> FALSE]
NoDraft ==
  [task |-> Blank, source |-> Blank, dest |-> Blank, start |-> 0, end |-> 0,
   size |-> Blank, count |-> Blank, resources |-> Blank, plan |-> NoPlan]

(***************************************************************************)
(* validate_draft_fields: the only check that compares the two times and   *)
(* looks at the range of a number.                                         *)
(***************************************************************************)
Errors_bug(d) ==
  {e \in {"task", "size", "count", "source", "dest", "start", "end", "strategy"} :
     \/ e = "task" /\ d.task = Blank
     \/ e = "size" /\ d.task \in Numbered /\ d.size # "good"
     \/ e = "count" /\ d.task \in Numbered /\ d.count # "good"
     \/ e = "source" /\ d.source = Blank
     \/ e = "dest" /\ d.dest = Blank
     \/ e = "start" /\ d.start = 0
     \/ e = "end" /\ d.end = 0
     \/ e = "strategy" /\ d.plan.strategy = Blank}
Errors(d) ==
  {e \in {"task", "size", "count", "source", "dest", "start", "end", "order", "strategy"} :
     \/ e = "task" /\ d.task = Blank
     \/ e = "size" /\ d.task \in Numbered /\ d.size # "good"
     \/ e = "count" /\ d.task \in Numbered /\ d.count # "good"
     \/ e = "source" /\ d.source = Blank
     \/ e = "dest" /\ d.dest = Blank
     \/ e = "start" /\ d.start = 0
     \/ e = "end" /\ d.end = 0
     \/ e = "order" /\ d.start # 0 /\ d.end # 0 /\ d.end <= d.start
     \/ e = "strategy" /\ d.plan.strategy = Blank}

Verdict(ok) == IF ok THEN "valid" ELSE "incomplete"

(***************************************************************************)
(* The model's answer.                                                     *)
(***************************************************************************)
Known(name, nodes) == name = Blank \/ nodes = {} \/ name \in nodes
Misnamed(raw, nodes) == ~ Known(raw.source, nodes) \/ ~ Known(raw.dest, nodes)

\* A number that is not positive is dropped; its range is looked at later.
Positive(number) == IF number = "zero" THEN Blank ELSE number

\* _validate_and_clean
Cleaned(raw, nodes) ==
  [raw EXCEPT
     !.task = IF @ \in Tasks THEN @ ELSE Blank,
     !.source = IF Known(@, nodes) THEN @ ELSE Blank,
     !.dest = IF Known(@, nodes) THEN @ ELSE Blank,
     !.size = Positive(@),
     !.count = Positive(@),
     !.strategy = IF @ \in Strategies THEN @ ELSE Blank,
     !.end = IF raw.start # 0 /\ @ <= raw.start THEN 0 ELSE @]

\* What the message says of "now" and of a duration wins over the answer.
ModelStart(said, raw) == IF said.now = "yes" THEN Now ELSE raw.start
ModelEnd(said, raw) ==
  LET start == ModelStart(said, raw)
  IN  IF said.lasts # 0 /\ start # 0 THEN start + said.lasts
      ELSE IF raw.end # 0 THEN raw.end
      ELSE IF raw.lasts # 0 /\ start # 0 THEN start + raw.lasts
      ELSE 0

\* extract_routing_strategy: what the message names, or the default.
RoutingStrategy(said, default) == Or(said.strategy, default)

\* _raw_to_parse_result: there is always a strategy; the resources an order asks for
\* are dropped.
ModelResult(said, raw) ==
  [task |-> raw.task,
   source |-> raw.source,
   dest |-> raw.dest,
   start |-> ModelStart(said, raw),
   end |-> ModelEnd(said, raw),
   size |-> Or(raw.size, DefaultNumber(raw.task)),
   count |-> Or(raw.count, DefaultNumber(raw.task)),
   resources |-> Blank,
   plan |-> [NoPlan EXCEPT
               !.strategy = RoutingStrategy(said, Or(raw.strategy, DefaultStrategy(raw.task))),
               !.routeOnly = raw.task = "transfer"]]

\* _merge_with_draft: what the answer leaves open stays as it was.
MergeWithDraft(new, old) ==
  [task |-> Or(new.task, old.task),
   source |-> Or(new.source, old.source),
   dest |-> Or(new.dest, old.dest),
   start |-> OrTime(new.start, old.start),
   end |-> OrTime(new.end, old.end),
   size |-> Or(new.size, old.size),
   count |-> Or(new.count, old.count),
   resources |-> new.resources,
   plan |-> [old.plan EXCEPT !.strategy = Or(new.plan.strategy, @),
                             !.routeOnly = @ \/ new.plan.routeOnly]]

ByModel(said, answer, old, nodes) ==
  LET d == MergeWithDraft(ModelResult(said, Cleaned(answer, nodes)), old)
  IN  [content |-> d, verdict |-> Verdict(~ Misnamed(answer, nodes) /\ Errors(d) = {})]

(***************************************************************************)
(* Keywords and regular expressions.                                       *)
(***************************************************************************)
\* _extract_time has no ear for "not now", and a duration starts now.
RuleStart(said) == IF said.now # "unsaid" \/ said.lasts # 0 THEN Now ELSE 0
RuleEnd(said) == IF said.lasts # 0 THEN Now + said.lasts ELSE 0

\* _extract_source_destination
Located(said, d) == [d EXCEPT !.source = Or(said.source, @), !.dest = Or(said.dest, @)]

Timed(said, d) ==
  [d EXCEPT !.start = OrTime(RuleStart(said), @), !.end = OrTime(RuleEnd(said), @)]

\* The extractors of numbers, and defaults for what is not there yet.
NumberIn(number, old, default) == Or(number, Or(old, default))

\* The branches of tasks with a template of their own.
WithNumbers(said, d) ==
  [d EXCEPT !.size = NumberIn(said.size, @, DefaultNumber(said.task)),
            !.count = NumberIn(said.count, @, DefaultNumber(said.task))]

RouteOnly(d) == [d EXCEPT !.plan.routeOnly = TRUE]

\* The branch the keywords choose.  A task once known is kept, and so is a strategy.
Branch(said, old) ==
  LET d == [old EXCEPT
              !.task = Or(@, said.task),
              !.plan.strategy = Or(@, RoutingStrategy(said, DefaultStrategy(said.task)))]
  IN  IF said.task = Blank THEN old
      ELSE IF said.task = "transfer" THEN RouteOnly(d)
      ELSE IF said.task \in Numbered THEN WithNumbers(said, d)
      ELSE d

\* The checks at the end of parse_intent: a name nobody registered is dropped, a
\* number must be there; neither its range nor the order of the times is looked at.
RuleComplete(d, nodes) ==
  /\ d.source # Blank /\ Known(d.source, nodes)
  /\ d.dest # Blank /\ Known(d.dest, nodes)
  /\ d.start # 0 /\ d.end # 0
  /\ d.task \in Numbered => {d.size, d.count} \cap {Blank, "zero"} = {}

ByRules(said, old, nodes) ==
  LET d == Branch(said, Timed(said, Located(said, old)))
  IN  IF d.task = Blank THEN [content |-> d, verdict |-> "incomplete"]
      ELSE [content |-> [d EXCEPT !.source = IF Known(@, nodes) THEN @ ELSE Blank,
                                  !.dest = IF Known(@, nodes) THEN @ ELSE Blank,
                                  !.plan.strategy = Or(@, "resource_guarantee")],
            verdict |-> Verdict(RuleComplete(d, nodes))]

\* run_intent_workflow: what may come of a message, given what the model may answer.
Parses(said, answers, old, nodes, usesModel, mayFallBack) ==
  (IF usesModel THEN {ByModel(said, answer, old, nodes) : answer \in answers} ELSE {})
    \cup (IF ~ usesModel \/ mayFallBack THEN {ByRules(said, old, nodes)} ELSE {})
=============================================================================
