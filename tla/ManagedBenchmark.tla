--------------------------- MODULE ManagedBenchmark ---------------------------
(***************************************************************************)
(* The managed evaluation run of api/orders.py: a controller task per run  *)
(* advances the run round by round, claims instances (STARTING, committed) *)
(* and hands them to background start tasks.  Controllers and tasks live   *)
(* in memory; what survives the process is the phase stored with the       *)
(* orders, from which a watchdog and the next start of the process rebuild *)
(* the controller.  A request names the run with or without its task type, *)
(* and the two names are two keys: each can have a controller of its own.  *)
(* The model is of the orders of one task type.                            *)
(*                                                                         *)
(* An advance works on what its session read first: REPEATABLE READ shows  *)
(* it one snapshot until it commits, and rows it has loaded keep the       *)
(* status they had even then.  Only an advance's own steps and the steps   *)
(* at which it waits for the database are separate.                        *)
(***************************************************************************)
EXTENDS Naturals, FiniteSets

CONSTANTS
  Orders,        \* the benchmark orders of the run
  Slot,          \* order -> compute host and GPU it is placed on
  Limit,         \* per_compute_slot_limit
  MaxParallel,   \* max_parallel: claims per advance
  Patience,      \* errors in a row, and idle rounds, that end a run: 3
  RouteRounds,   \* rounds without a routed order that end a run
  RetryFailed,   \* retry_failed
  Refusals,      \* whether containers can refuse to be removed
  Menus          \* bounds: which kinds of events may occur together (requests to
                 \* run, advance and stop the run, stops and deletions of single
                 \* instances, crashes, errors), how many of them, and max_rounds

ASSUME LimitAssumption == Limit \in Nat \ {0}
ASSUME OrdersAssumption == IsFiniteSet(Orders)
ASSUME SlotAssumption == DOMAIN Slot = Orders
ASSUME BoundsAssumption ==
  /\ {MaxParallel, Patience, RouteRounds} \subseteq Nat \ {0}
  /\ Menus \subseteq [kinds : SUBSET STRING, events : Nat, rounds : Nat \ {0}]
ASSUME FlagAssumption == {RetryFailed, Refusals} \subseteq BOOLEAN

VARIABLES
  ord,      \* TaskOrder.status; pending: waits for the router
  inst,     \* TaskInstance.status of the order's instance; none and gone: no row
  done,     \* orders with an evaluation: their result has been reported
  phase,    \* managed_run.phase, stored with the orders
  flag,     \* stop_requested in _MANAGED_BENCHMARK_STATUS, of each key
  known,    \* _MANAGED_BENCHMARK_STATUS has the key
  alive,    \* the backend process runs
  bg,       \* _BACKGROUND_BENCHMARK_START_TASKS: none, queued, working
  loop,     \* the controllers
  adv,      \* the advances: of the controllers and of a manual request
  watch,    \* the watchdog has read the phases and found the run active
  stopper,  \* the request to stop the run
  events,   \* how many of the bounded events are left
  menu,     \* of which kinds they are, and the rounds a controller may take
  again,    \* history: orders whose start was repeated although it had ended
  cut,      \* history: orders whose instance was stopped while it was started,
            \* or which were cancelled for having none when they had one
  shared,   \* history: who else has advanced the run: a manual request, or two
            \* controllers at one time
  quiet     \* history: a stop has been requested that reaches the run (asked), it
            \* has been stored and answered (yes), and no run requested since

data   == <<ord, inst, done>>
memory == <<flag, known, watch>>
limits == <<events, menu>>
hist   == <<again, cut, shared, quiet>>
vars == <<data, memory, hist, phase, alive, bg, loop, adv, stopper, limits>>

ActivePhases == {"running", "waiting_resource", "cleaning", "recovering"}
Phases == ActivePhases \cup {"none", "stopped", "completed", "failed", "blocked"}
OrderStatus == {"pending", "materialized", "completed", "failed", "cancelled"}
InstanceStatus == {"none", "waiting", "starting", "running", "stopped", "failed", "gone"}
\* The keys of _managed_benchmark_key: task_type::run and *::run.
Keys == {"typed", "any"}
Advancers == Keys \cup {"manual"}

NoLoop == [pc |-> "off", round |-> 0, idle |-> 0, errors |-> 0, waits |-> 0,
           unrouted |-> 0, ending |-> "none"]
NoAdvance == [pc |-> "off", ord |-> [o \in Orders |-> "pending"],
              inst |-> [o \in Orders |-> "none"], done |-> {}, fresh |-> FALSE,
              started |-> 0, lost |-> {}]
NoStop == [pc |-> "off", await |-> {}, ord |-> [o \in Orders |-> "pending"], todo |-> {}]

Init ==
  /\ ord = [o \in Orders |-> "pending"]
  /\ inst = [o \in Orders |-> "none"]
  /\ done = {}
  /\ phase = "none" /\ alive = TRUE /\ watch = FALSE
  /\ flag = [k \in Keys |-> FALSE] /\ known = [k \in Keys |-> FALSE]
  /\ bg = [o \in Orders |-> "none"]
  /\ loop = [k \in Keys |-> NoLoop] /\ stopper = NoStop
  /\ adv = [a \in Advancers |-> NoAdvance]
  /\ menu \in Menus /\ events = menu.events
  /\ again = {} /\ cut = {} /\ shared = {} /\ quiet = "no"

Event(kind) == kind \in menu.kinds /\ events > 0 /\ events' = events - 1 /\ menu' = menu
HasRow(o) == inst[o] \notin {"none", "gone"}

-----------------------------------------------------------------------------
(* What happens around the run.                                            *)

\* The router's result, or automatic routing.
Route(o) ==
  /\ alive /\ ord[o] = "pending"
  /\ \/ ord' = [ord EXCEPT ![o] = "materialized"]
        /\ inst' = [inst EXCEPT ![o] = "waiting"]
     \/ ord' = [ord EXCEPT ![o] = "failed"] /\ UNCHANGED inst
  /\ UNCHANGED <<done, memory, hist, phase, alive, bg, loop, adv, stopper, limits>>

\* report_metric, by the containers of an instance.
Report(o) ==
  /\ alive /\ inst[o] \in {"starting", "running", "stopped"}
  /\ done' = done \cup {o}
  /\ UNCHANGED <<ord, inst, memory, hist, phase, alive, bg, loop, adv, stopper, limits>>

\* stop_instance and delete_instance for an instance of the run.
StopInstance(o) ==
  /\ alive /\ Event("user") /\ HasRow(o)
  /\ inst' = [inst EXCEPT ![o] = "stopped"]
  /\ cut' = IF bg[o] = "none" THEN cut ELSE cut \cup {o}
  /\ UNCHANGED <<ord, done, memory, again, shared, quiet, phase, alive, bg, loop, adv, stopper>>
DeleteInstance(o) ==
  /\ alive /\ Event("user") /\ HasRow(o)
  /\ inst' = [inst EXCEPT ![o] = "gone"]
  /\ ord' = [ord EXCEPT ![o] = "cancelled"]
  /\ UNCHANGED <<done, memory, hist, phase, alive, bg, loop, adv, stopper>>

-----------------------------------------------------------------------------
(* Background starts.                                                      *)

\* _schedule_background_benchmark_start, for each of some orders.
Dispatch(some) ==
  bg' = [o \in Orders |-> IF o \in some /\ bg[o] = "none" THEN "queued" ELSE bg[o]]

\* execute_dag_start(claimed_start=True) looks at the row and asks the agents;
\* its own STARTING is not committed before the end.
BackgroundBegin(o) ==
  /\ bg[o] = "queued"
  /\ bg' = [bg EXCEPT ![o] = IF ~ HasRow(o) \/ inst[o] = "running" THEN "none" ELSE "working"]
  /\ UNCHANGED <<data, memory, hist, phase, alive, loop, adv, stopper, limits>>

\* It ends with all containers running or none, or with an exception: a node's
\* start raised, a query failed or the row has gone in between.  That is logged,
\* and the row stays as it was; lost is the history of the advances under way.
BackgroundEnd(o) ==
  /\ bg[o] = "working"
  /\ bg' = [bg EXCEPT ![o] = "none"]
  /\ \/ /\ HasRow(o) /\ \E st \in {"running", "failed"} : inst' = [inst EXCEPT ![o] = st]
        /\ UNCHANGED <<adv, limits>>
     \/ /\ IF HasRow(o) THEN Event("fault") ELSE UNCHANGED limits
        /\ UNCHANGED inst
        /\ adv' = [a \in Advancers |-> IF adv[a].pc = "off" THEN adv[a]
                                       ELSE [adv[a] EXCEPT !.lost = @ \cup {o}]]
  /\ UNCHANGED <<ord, done, memory, hist, phase, alive, loop, stopper>>

-----------------------------------------------------------------------------
(* _advance_controlled_benchmark_run.                                      *)

\* Orders that count for the run: cancelled ones do not.
Current(v) == {o \in Orders : v.ord[o] = "materialized"}
Occupied(v) == {o \in Current(v) \ v.done : v.inst[o] \in {"starting", "running"}}
Orphans(v) == {o \in Occupied(v) : v.inst[o] = "starting"}
ToClean(v) == {o \in Current(v) \cap v.done : v.inst[o] # "gone"}

\* The next part of an advance that has something to do.
Part(v) == IF Orphans(v) # {} THEN "recover" ELSE IF ToClean(v) # {} THEN "clean" ELSE "claim"

\* _controlled_benchmark_orders and the first reading of instances and
\* evaluations; _reevaluate_orders_from_latest_metrics has evaluated by then what
\* had only been reported, as if it had been evaluated just before.
Read(a) ==
  LET v == [NoAdvance EXCEPT !.ord = ord, !.inst = inst, !.done = done]
  IN  adv' = [adv EXCEPT ![a] = [v EXCEPT !.pc = Part(v)]]

\* A claim without a task is a start the process that claimed it did not live
\* to make.
Recover_bug(a) ==
  /\ adv[a].pc = "recover"
  /\ adv' = [adv EXCEPT ![a].pc = IF ToClean(adv[a]) # {} THEN "clean" ELSE "claim"]
  /\ UNCHANGED <<data, memory, hist, phase, alive, bg, loop, stopper, limits>>
Recover(a) ==
  /\ adv[a].pc = "recover"
  /\ Dispatch(Orphans(adv[a]))
  /\ again' = again \cup {o \in Orphans(adv[a]) : bg[o] = "none" /\ inst[o] # "starting"}
  /\ adv' = [adv EXCEPT ![a].pc = IF ToClean(adv[a]) # {} THEN "clean" ELSE "claim",
                        ![a].lost = @ \ Orphans(adv[a])]
  /\ UNCHANGED <<data, memory, cut, shared, quiet, phase, alive, loop, stopper, limits>>

\* _cleanup_evaluated_benchmark_instance, for all of some orders: those that
\* refuse are stopped only.
CleanUp(some, refused) ==
  /\ refused \subseteq {o \in some : HasRow(o)} /\ (Refusals \/ refused = {})
  /\ inst' = [o \in Orders |-> IF o \in refused THEN "stopped"
                               ELSE IF o \in some /\ HasRow(o) THEN "gone" ELSE inst[o]]
  /\ ord' = [o \in Orders |-> IF o \in some \ refused /\ ord[o] = "materialized"
                              THEN "completed" ELSE ord[o]]

\* Stopping an instance commits, and so does having removed one.
Commits(v, some, refused) ==
  \E o \in some : o \notin refused \/ v.inst[o] \in {"starting", "running", "failed"}
AfterCleaning(v, some, refused) ==
  [v EXCEPT !.ord = [o \in Orders |-> IF o \in some \ refused THEN "completed" ELSE @[o]],
            !.inst = [o \in Orders |-> IF o \in some \ refused THEN "gone" ELSE @[o]],
            !.fresh = @ \/ Commits(v, some, refused)]

CleanFirst(a) ==
  /\ adv[a].pc = "clean"
  /\ LET some == ToClean(adv[a]) IN \E refused \in SUBSET some :
       /\ CleanUp(some, refused)
       /\ adv' = [adv EXCEPT ![a] = [AfterCleaning(@, some, refused) EXCEPT !.pc = "claim"]]
  /\ UNCHANGED <<done, memory, hist, phase, alive, bg, loop, stopper, limits>>

Startable == {"waiting", "stopped"} \cup (IF RetryFailed THEN {"failed"} ELSE {})
Claimable(v) == {o \in Current(v) \ v.done : v.inst[o] \in Startable}

\* Within the limits; an order whose preflight or network refuses is passed
\* over, so that any subset can be what is claimed.
Fits_bug(a, c) ==
  /\ Cardinality(c) <= MaxParallel
  /\ \A o \in c : Cardinality({p \in Occupied(adv[a]) : Slot[p] = Slot[o]}) < Limit
Fits(a, c) ==
  /\ Cardinality(c) <= MaxParallel
  /\ \A o \in c : Cardinality({p \in c \cup Occupied(adv[a]) : Slot[p] = Slot[o]}) <= Limit

AfterClaim(v, c) ==
  [v EXCEPT !.pc = "final", !.started = Cardinality(c), !.fresh = @ \/ c # {},
            !.inst = [o \in Orders |-> IF o \in c THEN "starting" ELSE @[o]]]

\* Claimed, committed, handed over.
Claim(a, c) ==
  /\ adv[a].pc = "claim"
  /\ Fits(a, c) /\ \A o \in c : HasRow(o)
  /\ inst' = [o \in Orders |-> IF o \in c THEN "starting" ELSE inst[o]]
  /\ Dispatch(c)
  /\ adv' = [adv EXCEPT ![a] = AfterClaim(@, c)]
  /\ UNCHANGED <<ord, done, memory, hist, phase, alive, loop, stopper, limits>>

-----------------------------------------------------------------------------
(* The controllers.                                                        *)

Ending(p) == [NoLoop EXCEPT !.pc = "ending", !.ending = p]

Finished_bug(run, evaluated, uncleaned) == run # {} /\ evaluated = run
Finished(run, evaluated, uncleaned) == run # {} /\ evaluated = run /\ uncleaned = {}

\* The decision at the end of a round: v is the advance after its final
\* cleanup, done what it knows to be evaluated.
Decide(k, v) ==
  LET run       == {o \in Orders : v.ord[o] # "cancelled"}
      evaluated == v.done \cap run
      unrouted  == {o \in run : v.ord[o] = "pending"}
      failed    == {o \in run : v.ord[o] = "failed"}
      active    == {o \in run \ evaluated : v.inst[o] \in {"starting", "running"}}
      waiting   == {o \in run \ (evaluated \cup active) : v.ord[o] = "materialized"}
      uncleaned == {o \in evaluated : v.inst[o] # "gone"}
      waits     == IF unrouted = {} THEN 0
                   ELSE IF loop[k].unrouted = 0 \/ Cardinality(unrouted) < loop[k].unrouted
                   THEN 1 ELSE loop[k].waits + 1
      busy      == run # {} /\ (evaluated # run \/ uncleaned = {})
                     /\ (v.started > 0 \/ active # {})
      blocked   == run # {} /\ evaluated # run /\ ~ busy /\ waiting = {} /\ unrouted = {}
      idle      == IF busy THEN 0 ELSE IF loop[k].idle < Patience THEN loop[k].idle + 1
                   ELSE Patience
      next      == [loop[k] EXCEPT !.pc = "top", !.errors = 0, !.idle = idle, !.waits = waits,
                                !.unrouted = Cardinality(unrouted)]
  IN  IF /\ failed # {} /\ run = evaluated \cup failed
         /\ active = {} /\ unrouted = {} /\ waiting = {} /\ uncleaned = {}
      THEN Ending("failed")
      ELSE IF Finished(run, evaluated, uncleaned) THEN Ending("completed")
      ELSE IF unrouted # {} /\ waits >= RouteRounds THEN Ending("blocked")
      ELSE IF (blocked \/ run = {}) /\ idle >= Patience THEN Ending("blocked")
      ELSE next

\* The last reading, the last cleanup, the counts; evaluations reported since
\* the snapshot are seen only after a commit.
Finish(a) ==
  LET seen == IF ~ adv[a].fresh THEN adv[a]
              ELSE [adv[a] EXCEPT !.done = @ \cup done,
                      !.inst = [o \in Orders |-> IF HasRow(o) THEN @[o] ELSE "gone"]]
      some == ToClean(seen)
  IN
  /\ adv[a].pc = "final"
  /\ \E refused \in SUBSET some :
       /\ CleanUp(some, refused)
       /\ loop' = [k \in Keys |-> IF k = a THEN Decide(k, AfterCleaning(seen, some, refused))
                              ELSE loop[k]]
  /\ adv' = [adv EXCEPT ![a] = NoAdvance]
  /\ UNCHANGED <<done, memory, hist, phase, alive, bg, stopper, limits>>

\* The top of a round: the bound, the stop, or another advance.
LoopTop_bug(k) ==
  /\ loop[k].pc = "top"
  /\ loop' = [loop EXCEPT ![k].pc = "advance"]
  /\ Read(k)
  /\ UNCHANGED <<data, memory, hist, phase, alive, bg, stopper, limits>>
LoopTop_unbounded(k) ==
  /\ loop[k].pc = "top"
  /\ \/ flag[k] /\ loop' = [loop EXCEPT ![k] = Ending("stopped")] /\ UNCHANGED adv
     \/ /\ ~ flag[k] /\ loop' = [loop EXCEPT ![k].pc = "advance", ![k].round = @ + 1]
        /\ Read(k)
  /\ UNCHANGED <<data, memory, hist, phase, alive, bg, stopper, limits>>
LoopTop(k) ==
  /\ loop[k].pc = "top"
  /\ \/ /\ loop[k].round = menu.rounds
        /\ loop' = [loop EXCEPT ![k] = Ending("blocked")] /\ UNCHANGED adv
     \/ /\ loop[k].round < menu.rounds /\ flag[k]
        /\ loop' = [loop EXCEPT ![k] = Ending("stopped")] /\ UNCHANGED adv
     \/ /\ loop[k].round < menu.rounds /\ ~ flag[k]
        /\ loop' = [loop EXCEPT ![k].pc = "advance", ![k].round = @ + 1]
        /\ Read(k)
  /\ UNCHANGED <<data, memory, hist, phase, alive, bg, stopper, limits>>

\* An exception ends the advance; what it has committed stays.
AdvanceFails(k) ==
  /\ loop[k].pc = "advance"
  /\ \/ Event("fault")
     \/ adv[k].pc = "claim" /\ (\E o \in Claimable(adv[k]) : ~ HasRow(o)) /\ UNCHANGED limits
  /\ loop' = [loop EXCEPT ![k] = IF @.errors + 1 >= Patience THEN Ending("failed")
                                 ELSE [loop[k] EXCEPT !.pc = "top", !.errors = @ + 1]]
  /\ adv' = [adv EXCEPT ![k] = NoAdvance]
  /\ UNCHANGED <<data, memory, hist, phase, alive, bg, stopper>>

\* _set_managed_benchmark_control_safely; an error is logged and forgotten.
Persist(k) ==
  /\ loop[k].pc = "ending"
  /\ \/ phase' = loop[k].ending /\ UNCHANGED limits
     \/ Event("fault") /\ UNCHANGED phase
  /\ loop' = [loop EXCEPT ![k] = NoLoop]
  /\ stopper' = [stopper EXCEPT !.await = @ \ {k}]
  /\ UNCHANGED <<data, memory, hist, alive, bg, adv>>

-----------------------------------------------------------------------------
(* Requests, watchdog, process.                                            *)

Running(k) == loop[k].pc # "off"
Controller(k) ==
  /\ loop' = [loop EXCEPT ![k] = [NoLoop EXCEPT !.pc = "top"]]
  /\ known' = [known EXCEPT ![k] = TRUE]
  /\ shared' = IF \E q \in Keys \ {k} : Running(q) THEN shared \cup {"controllers"} ELSE shared
Request(k) == IF k = "typed" THEN "run" ELSE "untyped"

\* start_managed_benchmark_run, under _MANAGED_BENCHMARK_LOCK.
RunRequest(k) ==
  /\ alive /\ Event(Request(k)) /\ ~ Running(k)
  /\ phase' = "running" /\ flag' = [flag EXCEPT ![k] = FALSE]
  /\ Controller(k) /\ quiet' = "no"
  /\ UNCHANGED <<data, watch, again, cut, alive, bg, adv, stopper>>

\* The phase cannot be stored: the status is there, the controller is not.
RunRefused(k) ==
  /\ alive /\ Event("fault") /\ ~ Running(k)
  /\ flag' = [flag EXCEPT ![k] = FALSE] /\ known' = [known EXCEPT ![k] = TRUE]
  /\ quiet' = "no"
  /\ UNCHANGED <<data, again, cut, shared, watch, phase, alive, bg, loop, adv, stopper>>

\* restore_managed_benchmark_runs reads the phases without the lock ...
WatchRead ==
  /\ alive /\ ~ watch /\ phase \in ActivePhases
  /\ watch' = TRUE
  /\ UNCHANGED <<data, hist, flag, known, phase, alive, bg, loop, adv, stopper, limits>>

\* ... and rebuilds a controller under it, always under the key with the task
\* type; the status it writes keeps what an earlier one had, stop_requested among
\* it.
Restore_bug ==
  /\ watch /\ watch' = FALSE
  /\ IF Running("typed") THEN UNCHANGED <<loop, known, shared, flag>>
     ELSE Controller("typed") /\ flag' = [flag EXCEPT !["typed"] = FALSE]
  /\ UNCHANGED <<data, again, cut, quiet, phase, alive, bg, adv, stopper, limits>>
Restore ==
  /\ watch /\ watch' = FALSE
  /\ IF Running("typed") THEN UNCHANGED <<loop, known, shared>> ELSE Controller("typed")
  /\ UNCHANGED <<data, again, cut, quiet, flag, phase, alive, bg, adv, stopper, limits>>

\* start-controlled-routed
ManualRequest ==
  /\ alive /\ Event("manual") /\ adv["manual"].pc = "off"
  /\ Read("manual")
  /\ shared' = shared \cup {"manual"}
  /\ UNCHANGED <<data, memory, again, cut, quiet, phase, alive, bg, loop, stopper>>

\* The process goes: at once, or after shutdown_managed_benchmark_tasks has
\* cancelled the controllers, which store what is to become of the run.
Crash ==
  /\ alive /\ Event("crash")
  /\ alive' = FALSE
  /\ phase' \in {phase} \cup
       {IF flag[k] THEN "stopped" ELSE "recovering" : k \in {q \in Keys : Running(q)}}
  /\ flag' = [k \in Keys |-> FALSE] /\ known' = [k \in Keys |-> FALSE] /\ watch' = FALSE
  /\ bg' = [o \in Orders |-> "none"]
  /\ loop' = [k \in Keys |-> NoLoop] /\ stopper' = NoStop
  /\ adv' = [a \in Advancers |-> NoAdvance]
  /\ UNCHANGED <<data, hist>>

\* lifespan restores active runs before it serves requests.
Restart ==
  /\ ~ alive /\ alive' = TRUE
  /\ IF phase \in ActivePhases THEN Controller("typed") ELSE UNCHANGED <<loop, known, shared>>
  /\ UNCHANGED <<data, again, cut, quiet, flag, watch, phase, bg, adv, stopper, limits>>

-----------------------------------------------------------------------------
(* stop_benchmark_run.                                                     *)

\* A request with the task type reaches only the statuses that have it.
Scopes == {{"typed"}, Keys}

\* The stop reaches what there is of the run: the controllers, and the status a
\* watchdog would rebuild one under.
Reaches(scope) ==
  /\ \A k \in Keys : Running(k) => k \in scope
  /\ known["typed"] \/ ~ (watch \/ phase \in ActivePhases)

StopRequest(scope) ==
  /\ alive /\ Event("stop") /\ stopper.pc = "off"
  /\ flag' = [k \in Keys |-> flag[k] \/ (known[k] /\ k \in scope)]
  /\ stopper' = [NoStop EXCEPT !.pc = "wait", !.await = {k \in scope : Running(k)}]
  /\ quiet' = IF Reaches(scope) THEN "asked" ELSE "no"
  /\ UNCHANGED <<data, again, cut, shared, known, watch, phase, alive, bg, loop, adv>>

\* The controllers and the starts found are waited for; after sixty seconds the
\* answer is 409.
StopRead ==
  /\ stopper.pc = "wait" /\ stopper.await = {}
  /\ stopper' = [stopper EXCEPT !.pc = "starts", !.ord = ord,
                   !.todo = {o \in Orders : ord[o] = "materialized" /\ bg[o] # "none"}]
  /\ UNCHANGED <<data, memory, hist, phase, alive, bg, loop, adv, limits>>
StopRefused ==
  /\ \/ stopper.pc = "wait" /\ stopper.await # {}
     \/ stopper.pc = "starts" /\ \E o \in stopper.todo : bg[o] # "none"
  /\ stopper' = NoStop
  /\ UNCHANGED <<data, memory, hist, phase, alive, bg, loop, adv, limits>>

\* Orders the snapshot shows without an instance are cancelled first.
StopCancels ==
  /\ stopper.pc = "starts"
  /\ \A o \in stopper.todo : bg[o] = "none"
  /\ ord' = [o \in Orders |-> IF stopper.ord[o] \in {"pending", "failed", "cancelled"}
                              THEN "cancelled" ELSE ord[o]]
  /\ stopper' = [stopper EXCEPT !.pc = "stop",
                   !.todo = {o \in Orders : stopper.ord[o] = "materialized"}]
  /\ cut' = cut \cup {o \in Orders : stopper.ord[o] = "pending" /\ HasRow(o)}
  /\ UNCHANGED <<inst, done, memory, again, shared, quiet, phase, alive, bg, loop, adv, limits>>

\* One order at a time: stop, remove, purge, complete or cancel.
StopOrder(o) ==
  /\ stopper.pc = "stop" /\ o \in stopper.todo
  /\ \/ /\ inst' = [inst EXCEPT ![o] = "gone"]
        /\ ord' = [ord EXCEPT ![o] = IF o \in done THEN "completed" ELSE "cancelled"]
        /\ stopper' = [stopper EXCEPT !.todo = @ \ {o}]
     \/ /\ Refusals /\ HasRow(o)
        /\ inst' = [inst EXCEPT ![o] = "stopped"] /\ UNCHANGED ord
        /\ stopper' = [stopper EXCEPT !.todo = @ \ {o}]
  /\ cut' = IF bg[o] = "none" THEN cut ELSE cut \cup {o}
  /\ UNCHANGED <<done, memory, again, shared, quiet, phase, alive, bg, loop, adv, limits>>

\* An error of the database is forgotten here too: the stop is answered, the run
\* is still stored as it was.
StopDone ==
  /\ stopper.pc = "stop" /\ stopper.todo = {}
  /\ \/ /\ phase' = "stopped" /\ UNCHANGED limits
        /\ quiet' = IF quiet = "asked" THEN "yes" ELSE quiet
     \/ Event("fault") /\ UNCHANGED phase /\ quiet' = "no"
  /\ stopper' = NoStop
  /\ UNCHANGED <<data, memory, again, cut, shared, alive, bg, loop, adv>>

-----------------------------------------------------------------------------
Advance(a) ==
  \/ Recover(a) \/ CleanFirst(a) \/ Finish(a)
  \/ \E c \in SUBSET Claimable(adv[a]) : Claim(a, c)
Start(o) == BackgroundBegin(o) \/ BackgroundEnd(o)
ControllerStep(k) == LoopTop(k) \/ Persist(k) \/ Advance(k) \/ AdvanceFails(k)
StopStep == StopRead \/ StopRefused \/ StopCancels \/ StopDone \/ \E o \in Orders : StopOrder(o)

Environment ==
  \/ \E o \in Orders : Route(o) \/ Report(o) \/ StopInstance(o) \/ DeleteInstance(o)
  \/ \E k \in Keys : RunRequest(k) \/ RunRefused(k)
  \/ \E scope \in Scopes : StopRequest(scope)
  \/ ManualRequest \/ Crash

Next ==
  \/ Environment \/ Advance("manual") \/ StopStep
  \/ \E k \in Keys : ControllerStep(k)
  \/ \E o \in Orders : Start(o)
  \/ WatchRead \/ Restore \/ Restart

Spec == Init /\ [][Next]_vars

\* The event loop runs every task that can go on, the watchdog's interval job
\* fires, somebody brings a process that died back.  Nothing is
\* assumed of the router, the containers or the users.
FairSpec ==
  /\ Spec
  /\ \A k \in Keys : WF_vars(ControllerStep(k))
  /\ WF_vars(StopStep) /\ WF_vars(Advance("manual"))
  /\ \A o \in Orders : WF_vars(Start(o))
  /\ WF_vars(WatchRead) /\ WF_vars(Restore) /\ WF_vars(Restart)

-----------------------------------------------------------------------------
TypeOK ==
  /\ ord \in [Orders -> OrderStatus] /\ inst \in [Orders -> InstanceStatus]
  /\ done \subseteq Orders
  /\ phase \in Phases /\ {alive, watch} \subseteq BOOLEAN
  /\ {flag, known} \subseteq [Keys -> BOOLEAN]
  /\ shared \subseteq {"manual", "controllers"} /\ quiet \in {"no", "asked", "yes"}
  /\ bg \in [Orders -> {"none", "queued", "working"}]
  /\ loop \in [Keys -> [pc : {"off", "top", "advance", "ending"}, round : 0 .. menu.rounds,
                        idle : 0 .. Patience, errors : 0 .. Patience, waits : 0 .. RouteRounds,
                        unrouted : 0 .. Cardinality(Orders), ending : Phases]]
  /\ adv \in [Advancers -> [pc : {"off", "recover", "clean", "claim", "final"},
                            ord : [Orders -> OrderStatus], inst : [Orders -> InstanceStatus],
                            done : SUBSET Orders, fresh : BOOLEAN,
                            started : 0 .. Cardinality(Orders), lost : SUBSET Orders]]
  /\ stopper \in [pc : {"off", "wait", "starts", "stop"}, await : SUBSET Keys,
                  ord : [Orders -> OrderStatus], todo : SUBSET Orders]
  /\ menu \in Menus /\ events \in 0 .. menu.events /\ again \subseteq Orders /\ cut \subseteq Orders

\* Measured samples do not share a compute slot: a controller never has more
\* unevaluated instances of the run starting or running on a slot than the
\* limit, also after a crash, a restore and a stop.  This is not so once a manual
\* advance or a controller under the run's other key (task_type::run and *::run do
\* not see each other) has been under way beside it, once a start was repeated
\* that had ended, or an instance was stopped under its start.
SlotLimit ==
  again \cup cut = {} /\ shared = {} =>
    \A o \in Orders :
      Cardinality({p \in Orders \ done : /\ Slot[p] = Slot[o]
                                              /\ inst[p] \in {"starting", "running"}}) <= Limit

\* A run that was declared completed has a result for each of its orders, and
\* none of their instances is left.
CompletedIsClean ==
  phase = "completed" =>
    \A o \in Orders : ord[o] # "cancelled" => o \in done /\ ~ HasRow(o)

\* After a stop that reached the run was stored and answered nothing of the run is
\* claimed or started until somebody asks for it, whatever a watchdog still has in
\* hand and whoever crashes.  A stop whose phase could not be stored is answered
\* too, but is no such stop; nor is one with a task type next to a controller
\* without.
StopHolds ==
  [][quiet = "yes" /\ quiet' = "yes" /\ "manual" \notin shared' =>
       \A o \in Orders : inst'[o] = "starting" => inst[o] = "starting"]_vars

\* A round that ends regularly leaves no claim without a task that starts the
\* instance: what a crash, or a start that raised, has left STARTING is adopted by
\* the first round after it, though the process has forgotten who was to start it.
\* Only a start that raises during the round itself is left to the next one.
ClaimsAdopted ==
  [][\A k \in Keys :
       loop[k].pc = "advance" /\ loop'[k].pc # "advance" /\ alive'
         /\ loop'[k].errors = 0 /\ loop'[k].ending # "failed" =>
         \A o \in Orders \ (done \cup adv[k].lost) :
           inst'[o] = "starting" /\ ord'[o] = "materialized" => bg'[o] # "none"]_vars

\* Every run comes to an outcome that is stored.
RunSettles == phase \in ActivePhases ~> phase \notin ActivePhases
=============================================================================
