# TLA+ models of the task orchestration platform

The platform (`src/backend`, with one `src/node_agent` per machine) turns a
user's request into a work order and the order into a DAG of Docker containers.
A language model or a set of rules reads the request; an external router (or
the platform) chooses machines and GPUs and sets up the network; the backend
materialises the order as a *task instance*, starts its containers in
topological order, takes their measurements, stops them, and gives the GPU
back. This directory holds TLA+ models of that machinery, TLC configurations
that check them on small instances, and TLAPS proofs.

Contents: 1 inventory; 2 modules and how they meet; 3 the modules one by one;
4 runs, bounds and fairness; 5 proofs; 6 disagreements with the documentation;
7 hazards without a property; 8 what is not modelled; 9 plan.

## 1. Inventory

| component | state | operations | talks to |
|---|---|---|---|
| **DAG executor** `services/dag_executor.py`, **health checker** | loop variables of each invocation, one DB session each; instance and node rows | `execute_dag_start`, `execute_dag_stop`, rollback, health waits | agents, DB |
| **Agent client / node agent** `agents/agent_client.py`, `node_agent/` | Docker's containers, by name; ports of a machine | start, stop, remove, preflight, inspect; the client may time out while the agent goes on | executor, port planning |
| **Scheduler** `services/scheduler.py` | jobs `start_<id>`, `end_<id>`, in memory only | register, replace, cancel, fire, misfire; restore at startup | executor, order sync |
| **Instances API** `api/instances.py` | `task_instances` and node rows | create, update, schedule, start, stop, restart, delete, preflight, report a metric | executor, scheduler, ports, evaluator |
| **Port planning** `services/port_plan.py`, `auto_port_allocator.py` | none of its own: rows and agents | allocation, preflight | instances API, agents |
| **Order sync, lifecycle** `services/order_sync.py`, `services/instance_lifecycle.py` | order status, link to the instance | complete, cancel, repair, purge, auto cleanup | scheduler, APIs |
| **Routing resource events** | release events, unique per order and slot | emit, list, ack | router |
| **External routing API** `api/routing.py` | `routing_status`, network-ready flag | claim, requeue, fail, result, network-ready | router, orders API |
| **Orders API** `api/orders.py` | order rows; evaluation run's control record; controller and start tasks in memory | materialise, results, cancel, delete, stop, managed evaluation run with watchdog | all of the above |
| **Conversations** `api/conversations.py`, parsers | conversation, draft versions, routing requests | message, stream, edit, confirm, cancel, submit, delete | orders API, model, settings |
| **Settings** `services/system_settings.py` | one row with two profiles | update, activate, normalise | conversations, orders API |
| **Routing payload** `services/routing_payload_builder.py` | none | the DAG of an order | router |
| **Evaluation** `services/business_evaluator.py`, **baselines** `services/baseline_runner.py` | metric, evaluation and baseline rows | report, evaluate, re-evaluate, measure a node | instances API, orders API |
| **Workers** `src/workers` | one process each; objects in MinIO; the user's receiver | receive, measure, archive, pass on, report, call back | each other, instances API |
| intent evaluation batches, authentication, templates, uploads, frontend, scripts | rows or none | CRUD, offline scoring | |

What makes them hard, and what makes each correct:

- *Executor*: tasks run concurrently with the loop and share its session; calls
  fail, raise or time out after they took effect; starts and stops overlap; the
  process dies. Correct when starts follow the graph and stops follow it
  backwards, `running` means complete and backed by containers, and every
  invocation ends.
- *Scheduler, instances, order sync, events*: coroutines read a row, spend
  minutes in agent calls and write what they read; jobs live in memory. Correct
  when release event, order and row stay together, nothing runs before the
  network is confirmed, scheduled ends are served and nobody waits for ever.
- *Orders and routing*: duplicated and late calls, check-then-act on GPU slots,
  commits in the middle of a handler, copies of rows that a lock does not
  refresh. Correct when an order has one instance, a slot one order, a claim one
  owner, and the conversation shows where the order is.
- *Evaluation run*: a loop in memory, a watchdog, requests and restarts advance
  one run. Correct when samples do not share a slot, `completed` means evaluated
  and clean, a stop holds, and every run settles.
- *Ports*: no reservations, only rows and what agents see, looked at one after
  the other. Correct when two containers share a port only if neither start
  could have seen the other.
- *Conversations*: overlapping handlers without locks. Correct when one
  conversation makes one order and what is ordered can be run.
- *Workers and evaluation*: lost replies, fall backs in the middle of a
  measurement, restarts under the same keys. Correct when a metric says what was
  measured, its evidence exists, and nobody announces what the manager lacks.

`PROJECT.json` lists each hazard at its line with the properties that watch it.

## 2. Modules and how they meet

| module | models | proofs |
|---|---|---|
| `DagLifecycle` | abstract promise of a start | |
| `DagExecutor` | starts and stops at work on one instance; implements `DagLifecycle` | `DagExecutorProofs` |
| `InstanceSchedule` | jobs, requests, order, row and release event of one instance | `InstanceScheduleProofs` |
| `OrderRouting` | orders between user, router and platform | `OrderRoutingProofs`, `OrderInstanceProofs` |
| `ManagedBenchmark` | the evaluation run | `ManagedBenchmarkProofs` |
| `PortPlan` | the host ports of one machine | `PortPlanProofs` |
| `RuntimeSettings` | the settings row | |
| `IntentParse` | from a message to a draft (operators) | |
| `RoutingPayload` | from a draft to the router's DAG (operators) | |
| `RoutePlacement` | from the router's answer to containers, flows and the callback (operators) | |
| `IntentDrafts` | a conversation up to its order; extends the three above | `IntentDraftsProofs` |
| `WorkerMeasure` | what a worker measures (operators) | |
| `MetricBackend` | reports, evaluations, baselines | |
| `TaskPipeline` | the workers of one instance; extends the two above | `TaskPipelineProofs` |

`MC*` modules give the constants values for TLC. Modules meet where one takes
what another opens up as one or two steps: a start is a pair of steps in
`InstanceSchedule`, `PortPlan` and `ManagedBenchmark`, and `DagExecutor` says
what happens between them; `IntentDrafts` ends where `OrderRouting` begins, with
the order; `ManagedBenchmark` sees a report as one step, `TaskPipeline` is what
leads to it. The settings are read by conversations at each step of
`IntentDrafts`, so `RuntimeSettings` runs as a part of it, as `MetricBackend`
does of `TaskPipeline`. Definitions whose names have a suffix such as `_bug` are
mutated forms of the definition after them; no action uses them, they show that
each property notices a plausible error.

## 3. The modules one by one

One modelling decision is common to all: an action is what runs between two
awaits that can let another coroutine in and let it change what is read later.
A handler whose first statement locks its row is one action.

### DagExecutor

*State.* `instance`, `nodeRow` are the committed rows; `wset` is what each
session has assigned and not committed; `lock` is the session that has flushed.
`container` and `late` are the agents' side. For each start `pc`, `pending`,
`running`, `launched`, `task`, `started`, `failed`, `todo` are the local
variables of the loop (`pending_nodes`, `running_nodes`, ...); `spc`,
`spending`, `stask`, `stopped` those of the stop loop.

*Actions.* `Begin*` is the code up to the loop; `LaunchTask`, `EndFill`, `Wake`,
`Drain`, `Break`, `Succeed`, `Fail`, `Remove` are its steps between awaits;
`AgentStarts`, `Recorded`, `AgentRefuses`, `CallTimesOut`, `Healthy`,
`Unhealthy`, `Halted`, `Raises` are those of `start_and_monitor`.

*Abstractions.* One lock stands for all rows of the instance (every flush of the
executor touches them in one transaction). A lock wait that times out is the
fault `raise`. An assignment is always written at commit, also when it equals
the loaded value. Handling one finished task is atomic. The stop loop drains
finished calls singly: its batches have no effect on its decisions. Containers
do not die by themselves. The fault set names what may happen: `timeout` (the
client gives up, the agent goes on), `raise` (a task raises, before its call to
the agent or at any point after it), `crash` (the backend dies with all
invocations), `delete` (a removal fails).

*Observed.* A join node whose upstream nodes become ready while the loop drains
is started twice, and the first task is forgotten. Two concurrent starts can
break `RunningIsBacked`, which is checked and proved for one, without joins.
Nothing forbids a cyclic graph: without roots the instance becomes `running` at
once.

### InstanceSchedule

*State.* `row`, `runtime` (node rows name a container), `order`, `released` are
the database; `job` the two jobs; `containers` the agents; `now`, `up` clock and
process. A *session* is one coroutine with its database session: `at` says where
it is, `ctx` what it read or was asked for, `lock` who has the instance's row.
`lost` records that a crash, a misfire or a lock wait dropped a job or coroutine.

*Actions.* `FireStart` and `FireEnd` are the jobs, `Request*` and `NetworkReady`
the handlers up to their first long await; `Launch` ... `CommitSave` continue
them. `_run_stop` is `FireEnd`, `Halt`, `CommitStop`, `FinishRead`, `CleanUp`,
`FinishCommit`: the stop commits first, then orders and instance are read, then
agents are called, then all is written at once. `Crash` empties `job` and rolls
back all sessions, `Restart` is `restore_pending_jobs`.

*Abstractions.* One order with one GPU. Time is a small range of instants; the
one second `next_business_time` adds is below its resolution. Agents' failures
are ignored by stop, delete and cleanup, so these may or may not take the
containers down. `FinishRead` sees the instance as the session loaded it before
the stop (the identity map keeps it) or afresh. A network-ready keeps the
order's row locked from its first read to the commit of its start. A delete and
an end job that need each other's flushed rows are a deadlock one of which
InnoDB rolls back (`Clash`). STARTING and STOPPING are committed only together
with the final status, with one exception, the fault `raise`: a start that
raises (`StartRaises`) is rolled back by a job or a request, but committed by
network-ready, which leaves the row `starting`, the network confirmed, and no end
job. Restart is stop, then start.
`order.waiting` is a `routing_status` of `network_binding_ready` without the
router's confirmation.

### OrderRouting

*State.* `order`, `conv`, `inst` are the rows of orders, conversations and
instances, `released` the release events, `up` the instances with containers,
`holder` which router process has been given an order's claim. A handler that
reads first and writes later is a `job`: it keeps the copy of the row it has read
(`seen`), and commits the columns in which its own copy has changed (`Merged`).

*Actions.* `Open` is the reading; `Place*` makes the instance and commits, which
ends the row lock; `Link*` is the second transaction, in which the order learns
its instance; `Refuse`, `AnswerAgain`, `Drop`, `MaterializeFails`, `Cancel`,
`Delete`, `RouteOnly` are the other ends of a handler. A confirmation while the
platform routes is a handler too: `PlaceConfirmed` makes order and instance in
one commit and goes on as a platform route. `Claim`, `Requeue`, `FailRouting`,
`NetworkReady`, `Start`, `Stop`, `EndDue`, `DeleteInstance`, `CleanUp`,
`Reconcile` and the conversation's `Confirm`, `Submit`, `EditDraft`, ... lock
first or are short, and are one step.

*Abstractions.* All orders want overlapping times, so that a slot can belong to
one of them. A `SELECT ... FOR UPDATE` does not refresh what the session holds:
`/result` decides on the copy it read before the lock. Whether a slot is free is
a plain `SELECT` on the snapshot that the handler's first read has opened:
`taken` is what was not free then. A call that stops or removes containers may
fail and is counted as done by most handlers (`TakesDown`). A materialisation
that fails after the instance is committed is a `Drop`. The router answers only
orders it has claimed, or repeats an answer.

*Histories* name the orders and instances for which the code gives no
guarantee, so that the properties say exactly what holds for the rest:

| history | what it records |
|---|---|
| `overlapped` | two handlers of the order met, or one died between its commits |
| `met` | two orders whose placing handlers were under way at one time: neither's snapshot shows the other's placement |
| `disowned` | an instance whose order was materialised or routed by the platform again: `POST /materialize` refuses only cancelled orders, so the order forgets it |
| `dropped` | an order cancelled with its conversation, or failed by a materialisation, while it had an instance |
| `restarted` | an order whose instance was started again after its slot was given back |
| `leftover` | containers that are up although the last call to take them down was counted as done |
| `repeated` | an answer given again, which rewrites the conversation |

### ManagedBenchmark

*State.* `ord`, `inst`, `done`, `phase` are rows (status, instance, evaluation,
stored phase). In the process live, for each of the two keys a request can name
the run by (`task_type::run`, `"typed"`, and `*::run`, `"any"`), `flag[k]`,
`known[k]` and `loop[k]`: stop flag, status dictionary, controller; further the
background starts `bg`, the advances `adv[a]` under way with what they read (of
the controllers and of a manual request), the watchdog's reading `watch`, the
stop request `stopper`.

*Actions.* A round is `LoopTop`, `Read`, `Recover`, `CleanFirst`, `Claim`,
`Finish`, then the next round, or `Persist` with the outcome `Decide` finds;
`AdvanceFails` is any exception. `RunRequest`, `RunRefused`, `ManualRequest`,
`StopRequest` ... `StopDone`, `WatchRead` and `Restore`, `Crash` and `Restart`
are the rest of the code; `Route`, `Report`, `StopInstance`, `DeleteInstance` the
surroundings. `Restore` and `Restart` rebuild the controller of the typed key
only; a controller of the other key is not seen by them, and can run beside the
rebuilt one. A stop with a task type reaches the typed key, one without both
(`Scopes`). A background start that raises is only logged: the row stays STARTING
without a task (`BackgroundEnd`). The phase is stored "safely", which forgets an
error of the database: by a controller at its end (`Persist`) and by a stop
(`StopDone`), which answers all the same.

*Abstractions.* The run's orders are of one task type. An advance reads one
snapshot until it commits, and rows it has loaded keep their status even then
(`fresh` says whether it has committed). Which claims succeed is any subset
within the limits, since preflight and network gate may refuse each. The sixty
seconds a stop waits, and the rounds' pauses, are not timed. `shared` says who
else has advanced the run next to its controller: a manual request, or the
controller of the other key; `again` and `cut` mark starts that were repeated or
cut short by hand: properties except them, since nothing in the code keeps these
apart. `quiet` follows a stop that reaches all there is of the run from its
request (`asked`) to its stored answer (`yes`); `adv.lost` names starts that
raised while the round was under way. `Menus` are bounds: kinds of events that
occur together, how many of them, and how many rounds a controller may take.

### PortPlan

*State.* One machine; an instance has one node and needs one port. `row` and
`port` are the database, `container` what the machine has, `call` the requests
and jobs in flight. `unseen` and `avoided` are histories: whom a start's check
knew nothing of, and whose ports an allocation had to avoid.

*Actions.* `CreateReads`/`CreateCommits` allocate; `EditPort` is a PUT of another
port. A preflight is `StartReads`,
`Ask`, `Inspect`, `RemoveOrphan`, `Record`, `Reconcile`, then `Granted` or
`Refused`; each looks at one thing: the agent's containers, what a container is,
the rows of the transaction's snapshot. `StartUnchecked` is a scheduled or
network-ready start, which has no preflight. `AgentStarts`, `Commits`,
`RollsBack`, `StartFails`, `Stop`, `Delete`, `Exits`, `RemovedByHand`,
`OrphansListed`, `OrphanRemoved`, `Crash` are the rest of an instance's life.

*Abstractions.* `start_container` looks at no port, and with the host network,
its default, Docker does not either: the model lets two containers with one port
both be up, which is what a preflight is there to prevent. The label of a
container names its port whether it runs or has stopped. With the fault `agent`
the agent answers as its code does when Docker fails: a list of containers is any
part of them (`Shown`), so that a preflight may let a start pass; a container that
cannot be read has no status, so that a preflight may take a live row for stale
(`Record`); a stop or removal may be reported as done and not be (`Stays`). What
listens is looked at without Docker. A port is edited between requests and while
no container carries the old one; what was known of the instance is void from
then on.

### RuntimeSettings, IntentParse, RoutingPayload, RoutePlacement, IntentDrafts

`RuntimeSettings` is the row with the profiles of production and development,
in the flat form of earlier releases or the present one, and administrators who
read, compute and write the whole value. `IntentParse` are operators: what
`_validate_and_clean`, `_raw_to_parse_result`, `_merge_with_draft` and
`validate_draft_fields` make of a model's answer, and what the rules make of a
message; a message is what can be found in it, a draft its fields, a number is
blank, zero, out of range (`"bad"`) or in range (`"good"`). One task stands for
each treatment the parsers know. `RoutingPayload` is the DAG for the router.
`RoutePlacement` takes the router's answer to what `receive_routing_result`
makes of it: the placements completed with the platform's endpoints and a GPU
(`Effective`), refused in a place of the wrong kind (`Hostable`), the instance's
nodes (`Containers`, by the order's policy and not by what the router placed),
the `NetworkBindings` and the callback the compute container is given.

`IntentDrafts` puts them to work. `MessageBegins`/`MessageEnds` are a message
with the wait for the model in between, `PatchBegins`/`PatchEnds`,
`ConfirmBegins`/`ConfirmEnds` likewise; each ends by writing what follows from
what it read, column by column where SQLAlchemy does so. A streamed message
persists in a session of its own and sets the status whatever it is.
`OrderMoves`, `OrderDeleted`, `Unregister` and the administrators' steps are the
surroundings. `ConfirmedSound` asks of every order whether it can be run, and of
every answer (`Answers`: for each role nothing, a compute node or an endpoint)
whether the flows lead from the confirmed source to the confirmed sink.
`Scenarios` names groups of requests, messages and edits that occur together;
without it the combinations would be out of TLC's reach. `Message` and `Edit` are
the types of what is said and of what a PATCH carries.

### WorkerMeasure, MetricBackend, TaskPipeline

`WorkerMeasure` are operators on measurements: which frames are warmed up and
measured, on which backend each ran and which backend the result names, the
median and the P90 with its interpolation (values times ten). There
is at least one frame of warm-up, as in every profile and default of the platform
(one to ten): a video's first frame is then never among the measured, and the
receiver's key for a frame result, `frame_index or label or item`, is the number
of the frame (`Deduped`). Its
`IsQuantile` is the reference the aggregates are checked against.

`MetricBackend` has the rows of metrics, evaluations and baselines. A report
reads on a snapshot and writes metric and evaluation in one commit; the
evaluation run's re-evaluation may overlap it; a baseline run decides between
INSERT and UPDATE on what it saw before its containers ran. No table has a
uniqueness constraint, so a lookup by `scalar_one_or_none` may come to raise
(`Raises`), in every later handler.

`TaskPipeline` has the three workers (`pc`, `slot`: the last body a worker was
posted), MinIO (`objects`: which run wrote each key), the reporter's attempts and
the user's receiver with its memory and file. Every call between two processes
may be served and its reply be lost; every wait has a deadline after which the
worker raises and exits; the instance can be stopped and started under the same
keys while a handler works for the earlier run; the receiver can crash between
memory and file. A `Scenario` is one kind of task in one mode, with the part of
the surroundings that may interfere. A video whose profile is strict about its
detector fails where another one falls back to the surrogate (`MeasureFails`).

## 4. Runs, bounds and fairness

| run | question | distinct states |
|---|---|---|
| `dag_fork` | one start of a fork, all faults: types, backing, refinement of `DagLifecycle`, termination | 23 thousand |
| `dag_join_stop` | start against stop at a join, calls may raise: order and completeness of both, termination of stops | 640 thousand |
| `dag_rollback` | does a failed start leave nothing? (violated) | |
| `schedule` | all requests, jobs, faults and a crash: release, order, row, network; are ends served, do coroutines return? | 150 thousand |
| `schedule_restart` | does an end survive a restart? (violated) | |
| `orders` | two orders that want one slot, two router processes, two handlers in flight | 1.4 million |
| `orders_duplicate` | does a repeated result make one instance? (violated) | |
| `bench` | two orders for one slot under every kind of event: slot limit, cleanliness, adoption of claims | 3.0 million |
| `bench_live` | does every run come to a stored outcome, and do stops hold? | 670 thousand |
| `pipeline` | one order of each kind of task, whole and compute-only, with everything that can be lost | 310 thousand |
| `drafts` | a conversation with two requests at once, in six scenarios | 960 thousand |
| `ports` | three instances, two ports, two requests at once, every fault | 1.8 million |

Each passing run takes between five seconds and a little under three minutes.

*Bounds.* Three nodes make a fork and a join, hence every way in which two
answers race for a decision of the loop; `MaxParallel` is 2 instead of 10 so
that the limit is reached. In `schedule` two sessions race each other; a
request, two jobs and one crash follow each other in any order; `Horizon` 1
gives a start time, an end time and an instant at which both have passed, and
with `Grace` 0 a misfire; `schedule_restart` needs 2 to let an end pass while
the process is down. In `orders` two handlers are what it takes to overlap, five
requests allow a claim, a result, its repetition and two of cancel, delete,
confirm, cleanup, or two materialisations and what comes of their instances; one
slot makes the orders rivals and the second instance name is what a duplicate
would take. In `bench` `Limit` 1 and two orders make the slot scarce,
`MaxParallel` 2 lets one advance want both, two events and two rounds allow a
crash or a stop to meet a manual request, and `Patience` 2 stands for the code's
3; `bench_live` has one order, three events and three rounds, and retries failed
instances. A run that is requested without its task type and then finds a second
controller beside it has a menu of its own in both, with one round for each
controller: the second controller comes from the watchdog and needs no event. In
`pipeline` one frame of warm-up and two measured frames make a P90 of two
samples and let a fall back come before, between and after them; `Readable` 2
makes a fusion pad its frames; two runs are what one restart makes. In `drafts`
two messages make a second version, two edits a mixed row. In `ports` three
instances want two ports, so that a range is used up and a default port is
shared.

*Symmetry* is used in `orders`, `bench`, `drafts` and `ports`, whose properties
are invariants and step properties, for processes, handlers, instances or orders
that nothing tells apart. Runs with liveness properties use none.

*Deadlock* is not checked: invocations and requests are finitely many, and a
platform that has served them all may rest. That nothing waits for ever is
checked as liveness (`StartTerminates`, `StopTerminates`, `EndServed`,
`SessionsReturn`, `RunSettles`, `RunEnds`).

*Fairness.* What the event loop can run, it runs: weak fairness for each loop,
task, session, handler and controller that has begun, and for the scheduler's
jobs that are due; agent calls, health checks and the workers' waits have
timeouts, whose expiry is fair. Time passes. A backend that is down is brought
back (`Restart`) by whoever runs it. Requests, faults, crashes, routers, and
containers that answer are never forced. `EndServed` therefore excepts what a
fault has dropped, and `EndSurvivesRestart` is the version without the exception;
`RunEnds` counts a worker that exited as an end, since nothing restarts it.

## 5. Proofs

Every safety property of a passing run, invariant or step property, and the
refinement, is a theorem as well; the runs say that it holds of small instances,
the theorems that it does for every value of the constants. What is left to TLC
alone is listed at the end.

| module | theorems for the properties of | inductive invariants |
|---|---|---|
| `DagExecutorProofs` | `dag_fork`, `dag_join_stop` | `TypeOK`, `StartInv`, `StopInv`, `AloneInv` |
| `InstanceScheduleProofs` | `schedule` | the conjunction of its properties |
| `OrderRoutingProofs`, `OrderInstanceProofs` | `orders` | `ClaimInv`; `OwnInv`, `CalmInv`, `AdmittedInv`, `TalksInv`, `SlotInv` |
| `ManagedBenchmarkProofs` | `bench`, `bench_live` | `StopInv`, `CleanInv`, `AdoptInv`, `SlotInv` |
| `TaskPipelineProofs` | `pipeline` | `PipeInv` |
| `IntentDraftsProofs` | `drafts` | `OrderInv`, `SoundInv` |
| `PortPlanProofs` | `ports` | `PortInv` |

*Assumptions* are those of the modules. Most say what a constant is: `Edge`
relates nodes, bounds are natural numbers, markers such as `NoSession`, `NoTime`,
`NoInstance`, `Blank` are not members of the sets they complete. Some say more:
the orders of an evaluation run are finitely many (`OrdersAssumption`: they are
rows); a job has at least one frame, a stride and a sample to take
(`JobAssumption`: the workers replace zero by one or by a default), and at least
one frame of warm-up; an instance's
runs are counted from one (`FirstRunAssumption`); messages, answers and edits have
fields of their types (`ScenarioAssumption` with `Message` and `Edit`: the
parsers extract them by type, the request body of a PATCH is a pydantic model).
No theorem bounds the number of nodes, invocations, sessions, requests,
instances, router processes, orders, runs, drafts or faults. `RunningBacked` has
hypotheses of its own, below.

*`DagExecutorProofs`*: `TypeCorrect`; `StartInvariant`, from which `StartsInOrder`
and `RunningComplete` follow; `StopInvariant`, with `StopsInOrder` and
`StopComplete`; `PromiseKept` (refinement of `DagLifecycle`); `RunningBacked`. The
properties speak of the calls made and of the end of a loop. The invariants add
the *frontier*: while a loop works, every node not yet done whose predecessors are
done is pending, awaited, or will be found when the batch in hand is drained
(`Frontier`); tasks that nobody awaits have ended or were replaced
(`TasksKnown`); what is pending, awaited or done has its predecessors done
(`InOrder`). Each action moves nodes from one part to the next, and when the loop
ends the frontier is empty.

`RunningBacked` is the theorem about `RunningIsBacked`, under what makes that true
of the code: one start and no stop (`Alone`), no node behind two others
(`Forest`), no cycle (`Acyclic`). A join may start a node twice, and the task that
is forgotten may take the container down after the instance is running; a cycle
is never started at all. `AloneInv` says why nothing of the kind happens
otherwise: a node's predecessor has been drained, once, before the node is asked
for (`Once`); until a rollback, what an agent has answered is up and what was
flushed of it waits for the commit (`Backing`); and a start that is over leaves
no task in flight (`Settled`).

*`InstanceScheduleProofs`*: `ScheduleTypes`, and `ScheduleInvariant`, the
conjunction of `TypeOK`, `Agreement`, `LetGoMeansReleased`, `GoneMeansLetGo` and
`NotBeforeNetwork`, with one theorem for each. The safety properties speak of
rows only and are not inductive: a coroutine acts on what it read. `Agreement`
relates the readings to the rows, and survives other sessions' steps by two
lemmas: the order moves one way (`OneWay`), and a row is deleted only while no
network-ready holds the order (`WhoDeletes`).

*`OrderRoutingProofs`*: `OneHolder`. The invariant `ClaimInv` adds that the claim
of an order that is pending, or not there, is held by nobody; then a claim can
only be given to an order without a holder. What makes it hard is that handlers
write rows from old copies: `MergedOK` shows that such a write never makes an
order pending that was not, because a column is written only when the handler
changed it, and none changes it to `pending`. So no handler can put a claimed
order back into the queue behind its holder's back; only `Requeue` can, which
takes the claim away in the same step.

*`OrderInstanceProofs`* climbs from there. `OwnInv` has the types and says that
whatever a row names, or a handler has made or read, was made for that order
(`Owned`); it gives `OrderTypes`. `CalmInv` describes an order whose handlers
did not meet (`overlapped` has the others): its handler is alone and its copy is
the row (`HandlersCalm`), all that was made for it and not put aside is what the
row names or the handler is about to link (`RowCalm`), and an instance is on the
order's slot until its release was told (`InstanceCalm`). It gives
`NoSecondInstance`, and with what a handler's guard has established
(`AdmittedInv`) `ToldWhenDown`. `TalksInv` follows the conversation through the
commits between which it and the order differ, for `ConversationShowsOrder`.
`SlotInv` is for `SlotsOfOrders`, and has to bridge the time between a handler's
look at the slots and its placement. An order that holds a slot, and is not
between its commits, shows it to others (`Backed`); whoever is placing at the
same time has met (`Together`); so whatever holds a slot that a handler has not
seen taken is an order that the handler has met (`SeenTaken`). Every step then
either takes no slot for any order, or is a placement on a slot that was seen
free.

*`ManagedBenchmarkProofs`*: four invariants over `BenchType` (`BenchTypes`).
`StopInv` says who can be there: no controller without a process, an advance
exactly while the controller says so, one controller unless `shared` says
otherwise (`Actors`), and that after a stop that reached the run, for either
key, the flag is still there or nothing is left that could rebuild a controller
(`Held`); hence `AnsweredStop`. `CleanInv` relates what an advance has read to
what is: what was over by its reading is over (`Views`); hence `CompletedRuns`,
at whatever point the phase says so. `AdoptInv` follows a round through its
first part: a claim without a task is in hand until it is adopted, or its start
raised since the round began (`AdoptedClaims`). `SlotInv` is for
`SlotsWithinLimit`: unless a start was repeated, cut short or run next to the
controller (`Calm`), tasks belong to claims and instances to materialised orders
(`RowCalm`), what a controller counts as occupied includes what is (`Counts`),
and so what it adds stays within the limit (`Within`); the rest is cardinality
of finite sets.

*`TaskPipelineProofs`*: `PipeInv` has the control of the three workers and where a
result is between them (`Control`, `Flow`), the measurement in progress
(`Measuring`), honesty of every result that is carried, in a worker, a posted
body, a handler or a row (`Carried`), the objects behind it (`Filed`), what the
receiver has in memory, on disk and has promised (`Keeping`, `Lengths`), and the
metric row behind everybody who is done (`Announced`). From it come `PipeTypes`,
`MetricsAreHonest`, `EvidenceIsThere`, `AnnouncedIsReported`, `ReceiverKeepsIt`
and `CompletedStays`. Two facts about data carry it. `PercentileIsQuantile` and
`MedianIsQuantile` say that the aggregates are quantiles of the samples: by
counting, with an injection from the ranks below into the samples that are not
greater. That samples can be sorted at all (`Ranking` chooses a permutation) is
proved by well-founded descent on the first place where two neighbours are out
of order.

*`IntentDraftsProofs`*: `OneOrder`: handlers read without locks, but only the end
of a confirmation makes an order, and the order's id is the conversation's; the
primary key does what a lock would. `DraftTypes` and `ConfirmedIsSound` come from
`SoundInv`: rows are drafts with versions that skip none (`Rows`); what a request
has read and worked out is a draft, a row that is still there, or an order that
is sound (`Asked`). That a draft stays one has a lemma for each way to make one: a
model's answer cleaned and merged (`ByModelIs`), keywords (`ByRulesIs`), a PATCH
(`PatchedIs`), and a PATCH's columns over a row that has changed since
(`MergedIs`). `OrderedIsSound` needs no more of a draft than that it is one and
passed the confirmation's checks: soundness comes from validating again what is
about to be ordered, not from the verdict stored with it. `DagIs` and
`FlowsAreRight` take it through the DAG and through every answer of a router.

*`PortPlanProofs`*: `PortsKnown` (`PortInv`), from which `PortsStayApart` and
`AllocationsStayApart` follow. What a call finds out lies in the past when it is
used. The invariant says why it is still true: the port of an instance that is
*known* (its row is there, or was) does not change while a call is under way, and
what a call relies on is only that certain known instances have other ports
(`Cleared`, `Apart`). An edit does change a port: it comes between the calls, and
what starts and allocations had found out about the instance is struck from what
they are held to (`EditPortOK`). The claims a preflight has yet to look at
(`left`) are the exception that it works off, one by one.

*Only model-checked:* liveness under fairness (`StartTerminates`,
`StopTerminates`, `EndServed`, `SessionsReturn`, `RunSettles`, `RunEnds`), out of
the prover's reach; and the three violations of section 6, which are
counterexamples. The inductive invariants hold of the instances of the runs too,
by TLC (`SoundInv` is slow to evaluate: half of the states of `drafts`). Some
attempts changed a model or a property: `CompletedIsClean` and `StopHolds` turned
out to hold under weaker conditions and now say so; sorting is a choice of a
permutation (`Ranking`), and the frames a job reads are given by their number and
stride (`PairsRead`), because the library's sorting operators cannot be reasoned
about; the types of what is said and edited became assumptions of their own.

## 6. Disagreements with the documentation

Those below are counterexamples of runs; `PROJECT.json` quotes the lines.

1. `dag_rollback`: a node fails while its sibling's start call is under way; the
   rollback does not know the sibling, its container stays
   (`docs/architecture/overview.md:38`).
2. `schedule_restart`: an end that comes due while the backend is down is served
   only for running instances; that of a scheduled one is dropped and its order
   stays `materialized` (`services/scheduler.py:165`).
3. `orders_duplicate`: a repeated `/result` that arrives while the first is under
   way makes a second instance; the row names one of them
   (`docs/project/requirements-checklist.md:63`).

The following were met while reading and are taken as the code has them. They
have no run of their own.

- A stop gives the GPU back although the instance may run again
  (`api/instances.py:1001`; `docs/routing/integration-guide.md:162`, `:1048`).
  `SlotExclusive` excepts restarted instances for that reason.
- Calls that fail count as done in `execute_dag_stop`
  (`services/dag_executor.py:582-600`), the end job (`services/scheduler.py:104-123`)
  and a delete: the GPU is then given back while containers are up on it
  (`api/instances.py:987-996`). `ReleasedWhenDown` excepts them through `leftover`.
- A conversation can be cancelled after its order has an instance: the order is
  cancelled, the instance and its slot stay, nothing is released
  (`api/conversations.py:801-810`; `docs/routing/integration-guide.md:1000-1002`,
  `:1048`), and the slot counts as free. `SlotExclusive` excepts it through `dropped`.
- Whether a slot is free is read from the snapshot of the handler's first read
  (`api/routing.py:303`, `api/orders.py:2026-2046`): two results under way at one
  time can take one slot. `SlotExclusive` excepts such pairs through `met`.
- A second `POST /orders/{id}/materialize`, after the first has been answered,
  makes a second instance and the order forgets the first
  (`api/orders.py:1532-1551` refuses only cancelled orders). `OneInstance` and
  `SlotAccounted` except what was `disowned`.
- A network-ready whose start raises is answered, and commits the row STARTING with
  no end job (`api/routing.py:399-403`): such an instance does not end by schedule.
- An end job that meets a start in flight stops an instance that the start then
  commits as running: its order is over and no end job is left
  (`services/scheduler.py:104`).
- The evaluation run's key has the task type or `*` in its place
  (`api/orders.py:2474`, `:3067`), while the watchdog looks for the key with the
  task type (`:2960-3014`): next to a run requested without one it starts a second
  controller, and both claim for one slot. `SlotLimit` excepts that through
  `shared`. Likewise a stop with the task type does not reach a run requested
  without (`:2616`, `:2638`).
- A stop of the run whose phase cannot be stored is answered as if it had been
  (`api/orders.py:3246`, `:2582-2590`); after a restart the run goes on.
  `StopHolds` speaks of stops that were stored.
- A background start that raises is only logged (`services/dag_executor.py:497`,
  `api/orders.py:209-246`): the row stays STARTING until the next round adopts it,
  and without a next round for good.
- When Docker fails, the agent reports no containers
  (`node_agent/docker_handler.py:16-23`, `:200-231`): a preflight lets a start pass
  that it was to refuse, and takes a live row for stale and writes it stopped, which
  the comment where that is done excludes (`api/instances.py:446-449`).
- A port is edited without a look at who else has it (`api/instances.py:836-859`).
- The end job overwrites a cancellation that came while it cleaned up
  (`services/order_sync.py:38`, docstring `:35`).
- Starts by the scheduler and by network-ready skip the preflight
  (`docs/operations/port-allocation-design.md:10`,
  `docs/testing/README.md:395`). `PortsApart` excepts them through `unseen`.
- On the model's path a routing strategy is always set, so that an earlier one is
  lost with each follow-up (`services/llm_intent_parser.py:142`, `:630`); the
  order's own resources are lost too. On the rules' path "valid" looks neither at
  ranges nor at the order of the times.
- A callback URL that was worked out keeps its host when the destination changes
  by name (`api/conversations.py:577-590`;
  `docs/routing/integration-guide.md:826`).
- A matrix product names an object in MinIO whether or not it was uploaded
  (`docs/business/新业务接入参数确认清单.md:63`). `EvidenceThere` leaves it out.
- Endpoints that the user has edited stay in the runtime plan, which a later
  message inherits and a confirmation prefers: "to h2 instead" changes the order's
  destination but not the sink the router is given (`api/conversations.py:235`;
  `docs/routing/integration-guide.md:377`). `ConfirmedSound` speaks of the
  endpoint that is used, plan first.
- An answer of the router without a place for the compute role is not refused: an
  order that was to be deployed is completed with nothing deployed
  (`api/orders.py:2211`; `RouteOnly`).
- `POST /orders/start-all-routed` reads `payload.retry_failed`, which its request
  model does not have (`api/orders.py:3379`, `:2448`), so it raises at the first
  order whose instance is not running or starting, and starts nothing; its
  docstring (`:3332`) says otherwise.
- Two activations of settings, or an activation and an update, that overlap
  discard one another (`services/system_settings.py:222-224`).

## 7. Hazards without a property

`PROJECT.json` gives the reason with each: starts of one instance that overlap
without a claim; the overwritten cancellation; an end job that meets a start in
flight; the cycle of locks between network-ready, end jobs and deletes, which the
database ends; node baselines that are inserted twice; a preflight that takes a
start for a stale row; the clean-up of orphans while instances start. The models
take these steps; no document says which outcome is right, so there is nothing to
state beyond what the other properties except by name.

## 8. Not modelled

- Several instances at a time in `InstanceSchedule` and `DagExecutor`: instances
  share ports (`PortPlan`), GPUs (`OrderRouting`) and the evaluation run's slots
  (`ManagedBenchmark`), each in its module. The transaction that a batch endpoint
  shares among its instances is not modelled.
- Creation of evaluation batches, listings, exports, overviews and statistics of
  the orders, instances and business APIs: they read, or insert rows that the
  models have initially.
- `resource_event` acknowledgement, event texts, log and resource endpoints.
- Intent evaluation batches (scoring of language models), authentication,
  templates, uploads, schema migrations: rows that take no part in the protocols.
- Inference, codecs and arithmetic inside the workers; prompts and the wording of
  regular expressions in the parsers; commands and macros of the runtime
  composition; the frontend, scripts and acceptance tools.

## 9. Plan

1. That `InstanceSchedule`'s start and stop abstract `DagExecutor`, as a
   refinement proved step by step.
2. Abstract specifications of an order's life and of an evaluation run, with
   `OrderRouting` and `ManagedBenchmark` shown to implement them.
3. What holds of two concurrent starts of one instance, of orders whose handlers
   did meet, and of a run with two controllers.
4. Batch endpoints with their shared transaction, on two instances.
