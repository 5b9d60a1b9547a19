----------------------------- MODULE MetricBackend -----------------------------
(***************************************************************************)
(* Metrics, baselines and evaluations of one order's instance              *)
(* (api/instances.py report_metric, api/business_tasks.py, api/baselines.py,*)
(* services/business_evaluator.py, services/baseline_runner.py).           *)
(*                                                                         *)
(* A handler is a transaction: it reads everything from the snapshot of    *)
(* its first SELECT and writes at its end.  For a benchmark of a node that *)
(* means that it decides between INSERT and UPDATE on what it saw before   *)
(* the containers ran.  Neither table has a uniqueness constraint, so two  *)
(* handlers can both insert; scalar_one_or_none then raises in every later *)
(* one.  An UPDATE writes the columns that differ from the loaded ones.    *)
(***************************************************************************)
EXTENDS Naturals, Sequences, FiniteSets

CONSTANTS
  Runs,          \* numbers of the runs of the instance
  Benches,       \* baseline requests
  BaselineValues,
  Goal,          \* target_value of the objective, 0 when it has none
  MaxRows        \* bound: baseline rows

ASSUME RunAssumption == Runs \subseteq Nat /\ BaselineValues \subseteq Nat
ASSUME LimitAssumption == Goal \in Nat /\ MaxRows \in Nat

VARIABLES
  kind,       \* task type of the order
  formal,     \* it is measured with the parameters of the formal baseline
  metrics,    \* the TaskMetric rows: one result per reported run
  evals,      \* the BusinessObjectiveEvaluation rows, oldest first
  call,       \* run -> the handler of its metric report
  advance,    \* the re-evaluation of the managed benchmark
  baselines,  \* the NodeBaseline rows of the node and this task type
  bench       \* client -> the baseline run it has asked for

backend == <<metrics, evals, call, advance, baselines, bench>>

Idle == [phase |-> "none"]

BackendInit ==
  /\ metrics = {}
  /\ evals = <<>>
  /\ call = [r \in Runs |-> Idle]
  /\ advance = Idle
  /\ baselines = <<>>
  /\ bench = [b \in Benches |-> Idle]

(***************************************************************************)
(* Evaluation.                                                             *)
(***************************************************************************)
\* scalar_one_or_none
Raises(rows) == Len(rows) > 1

\* _lookup_baseline: none for a task measured with other parameters.
BaselineOf(rows) == IF ~ formal \/ rows = <<>> THEN 0 ELSE rows[1]

HasTarget(base) == base > 0 \/ Goal > 0

\* Values are scaled by 10, baselines and goals are not.
Reaches(value, base) ==
  \/ base > 0 /\ kind = "matmul" /\ value >= 8 * base
  \/ base > 0 /\ kind # "matmul" /\ value <= 15 * base
  \/ base = 0 /\ kind = "matmul" /\ value >= 10 * Goal
  \/ base = 0 /\ kind # "matmul" /\ value <= 10 * Goal

\* _apply_video_gpu_success_guard: without the GPU path there is no success.
GpuGuard(result) == kind = "matmul" \/ result.backend = "gpu"

Evaluation(result, base) ==
  [value |-> result.value, base |-> base,
   meta |-> [backend |-> result.backend, samples |-> result.samples, uris |-> result.uris],
   success |-> Reaches(result.value, base) /\ GpuGuard(result)]

\* The columns of a loaded row that a new evaluation changes, over what the row
\* is by now.
Merged(now, loaded, new) ==
  [f \in DOMAIN new |-> IF new[f] = loaded[f] THEN now[f] ELSE new[f]]

\* evaluate_and_store_business_metric, on the snapshot the handler has.
EvaluationRaises(snap) ==
  \/ formal /\ Raises(snap.base)
  \/ HasTarget(BaselineOf(snap.base)) /\ Raises(snap.evals)

Store(snap, result) ==
  LET base == BaselineOf(snap.base)
      new == Evaluation(result, base)
  IN  evals' = IF ~ HasTarget(base) THEN evals
               ELSE IF snap.evals = <<>> THEN Append(evals, new)
               ELSE [evals EXCEPT ![1] = Merged(@, snap.evals[1], new)]

Snapshot == [base |-> [i \in DOMAIN baselines |-> baselines[i].value], evals |-> evals]

(***************************************************************************)
(* POST /instances/{id}/metrics: the row and its evaluation, one commit.   *)
(* The worker's side of the call is in TaskPipeline.                       *)
(***************************************************************************)
MetricWritten(r) ==
  /\ call[r].phase = "begun"
  /\ ~ EvaluationRaises(call[r].snap)
  /\ metrics' = metrics \cup {call[r].result}
  /\ Store(call[r].snap, call[r].result)
  /\ call' = [call EXCEPT ![r] = [phase |-> "stored"]]
  /\ UNCHANGED <<advance, baselines, bench>>

\* The evaluation raises, or the database does: both are rolled back.
MetricFails(r) ==
  /\ call[r].phase = "begun"
  /\ call' = [call EXCEPT ![r] = [phase |-> "error"]]
  /\ UNCHANGED <<metrics, evals, advance, baselines, bench>>

(***************************************************************************)
(* _reevaluate_orders_from_latest_metrics, which an advance of the managed *)
(* benchmark calls for an order that has metrics and no evaluation.        *)
(***************************************************************************)
Latest(rows) == CHOOSE m \in rows : \A n \in rows : n.run <= m.run

ReevaluateRead ==
  /\ advance = Idle
  /\ metrics # {}
  /\ evals = <<>>
  /\ advance' = [phase |-> "begun", snap |-> Snapshot, result |-> Latest(metrics)]
  /\ UNCHANGED <<metrics, evals, call, baselines, bench>>

ReevaluateWrite ==
  /\ advance # Idle
  /\ IF EvaluationRaises(advance.snap) THEN UNCHANGED evals
     ELSE Store(advance.snap, advance.result)
  /\ advance' = Idle
  /\ UNCHANGED <<metrics, call, baselines, bench>>

(***************************************************************************)
(* Baselines.  run_baseline_on_node starts a container that measures and   *)
(* prints, waits, reads its log and removes it; each of its runs is        *)
(* validated, the median is stored.  What a container tells is which       *)
(* backend its result names; where its frames really ran goes with it.     *)
(***************************************************************************)
\* The frames of a measurement that falls back do so once and for all.
Measured == {[on |-> {"gpu"}, names |-> "gpu"],
             [on |-> {"gpu", "cpu"}, names |-> "cpu"],
             [on |-> {"cpu"}, names |-> "cpu"],
             [on |-> {"surrogate"}, names |-> "surrogate"]}

\* _validate_benchmark_result: no CPU run becomes a formal baseline.
Valid(outcome) == outcome.names = "gpu"

BenchmarkBegins(b) ==
  /\ bench[b] = Idle
  /\ bench' = [bench EXCEPT ![b] = [phase |-> "running",
                                     snap |-> [i \in DOMAIN baselines |-> baselines[i].id]]]
  /\ UNCHANGED <<metrics, evals, call, advance, baselines>>

\* A container that cannot be started, watched or parsed, or whose result is not
\* valid: 502, with nothing written.
BenchmarkFails(b) ==
  /\ bench[b].phase = "running"
  /\ bench' = [bench EXCEPT ![b] = [phase |-> "done"]]
  /\ UNCHANGED <<metrics, evals, call, advance, baselines>>

BenchmarkStored(b, value, outcome) ==
  /\ bench[b].phase = "running"
  /\ Valid(outcome)
  /\ LET row == [id |-> b, value |-> value, on |-> outcome.on]
         seen == bench[b].snap
     IN  \/ /\ seen = <<>>
            /\ Len(baselines) < MaxRows
            /\ baselines' = Append(baselines, row)
         \/ /\ Len(seen) = 1
            /\ \E i \in DOMAIN baselines :
                 /\ baselines[i].id = seen[1]
                 /\ baselines' = [baselines EXCEPT ![i] = [row EXCEPT !.id = seen[1]]]
  /\ bench' = [bench EXCEPT ![b] = [phase |-> "done"]]
  /\ UNCHANGED <<metrics, evals, call, advance>>

\* POST and DELETE /baselines, by hand and at once.
ByHand(value) == [id |-> "manual", value |-> value, on |-> {"manual"}]

BaselineCreated(value) ==
  /\ baselines = <<>>
  /\ baselines' = <<ByHand(value)>>
  /\ UNCHANGED <<metrics, evals, call, advance, bench>>

BaselineDeleted ==
  /\ \E i \in DOMAIN baselines :
       baselines' = SubSeq(baselines, 1, i - 1) \o SubSeq(baselines, i + 1, Len(baselines))
  /\ UNCHANGED <<metrics, evals, call, advance, bench>>

BaselineStep ==
  \/ \E b \in Benches : BenchmarkBegins(b)
  \/ \E b \in Benches : BenchmarkFails(b)
  \/ \E b \in Benches, value \in BaselineValues, outcome \in Measured :
       BenchmarkStored(b, value, outcome)
  \/ \E value \in BaselineValues : BaselineCreated(value)
  \/ BaselineDeleted
=============================================================================
