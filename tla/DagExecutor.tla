----------------------------- MODULE DagExecutor -----------------------------
(***************************************************************************)
(* The executor of backend/services/dag_executor.py at work on ONE task    *)
(* instance: invocations of execute_dag_start and execute_dag_stop, each a *)
(* coroutine with a database session of its own, run concurrently with the *)
(* asyncio tasks they create and with the node agents that hold the        *)
(* containers.                                                             *)
(*                                                                         *)
(* A session's writes reach the rows `instance' and `nodeRow' only when it *)
(* commits; until then they are in wset, and a flush makes the session     *)
(* hold the row locks.  A member of Start or Stop is one invocation.       *)
(***************************************************************************)
EXTENDS Integers, FiniteSets

CONSTANTS
  Node,         \* the nodes of the instance's graph
  Edge,         \* TaskInstanceEdge rows <<from, to>>; nothing checks for cycles
  Start,        \* invocations of execute_dag_start
  Stop,         \* invocations of execute_dag_stop
  NoSession,    \* the row locks are free
  MaxParallel,  \* tasks awaited at a time (10 in the code)
  MaxLaunch,    \* bound: tasks one invocation creates for one node
  Faults        \* which of "timeout", "raise", "crash", "delete" may happen

ASSUME GraphAssumption == Edge \subseteq Node \X Node
ASSUME BoundAssumption == /\ MaxParallel \in Nat \ {0}
                          /\ MaxLaunch \in Nat \ {0}
ASSUME SessionAssumption == /\ Start \cap Stop = {}
                            /\ NoSession \notin Start \cup Stop

VARIABLES
  instance,   \* TaskInstance.status, committed
  nodeRow,    \* TaskInstanceNode.status and "container_id is set", committed
  waiting,    \* an order of the instance still waits for network-ready
  lock,       \* the session that holds the instance's row locks
  wset,       \* session -> node -> what it has assigned and not committed
  container,  \* node -> what the agent's Docker has under the node's name
  late,       \* nodes whose agent still executes a start nobody waits for
  pc,         \* start invocation -> where it is
  background, \* invocations made by _background_benchmark_start
  pending,    \* pending_nodes
  running,    \* running_nodes: node -> number of the task awaited, 0 if none
  launched,   \* node -> tasks created so far
  task,       \* node -> task number -> where start_and_monitor is
  started,    \* started_nodes
  failed,     \* failed_nodes
  todo,       \* what is left of the batch being handled, or of the rollback
  spc,        \* stop invocation -> where it is
  spending,   \* pending_stops
  stask,      \* node -> where _stop_node_async is
  stopped     \* stopped_nodes

rows  == <<instance, nodeRow, waiting>>
agent == <<container, late>>
loopv == <<pending, running, launched, todo>>
taskv == <<task, started, failed>>
startv == <<pc, background, loopv, taskv>>
stopv == <<spc, spending, stask, stopped>>
vars  == <<rows, lock, wset, agent, startv, stopv>>

Session == Start \cup Stop
Launch  == 1 .. MaxLaunch

TaskStatus == {"pending", "scheduled", "starting", "running", "stopping",
               "stopped", "failed", "expired"}
NodeStatus == {"pending", "starting", "running", "ready", "stopping",
               "stopped", "failed"}

Working   == {"top", "fill", "wait", "drain", "rollback"}
StartDone == {"running", "failed", "noop", "refused", "raised", "crashed"}
StopDone  == {"stopped", "noop", "raised", "crashed"}
InFlight  == {"calling", "replied", "health", "stopping"}
TaskDone  == {"ready", "failed", "raised"}

(* Operators named ..._bug are mutated forms of the operator after them: no *)
(* action uses them, they show that the properties notice such a change.   *)

Halt_bug(state) == "stopped"

\* What stopping does to a container.
Halt(state) == IF state = "running" THEN "exited" ELSE state

\* get_upstream_nodes, get_downstream_nodes, get_root_nodes, get_leaf_nodes
Up(n)   == {m \in Node : <<m, n>> \in Edge}
Down(n) == {m \in Node : <<n, m>> \in Edge}

\* The wrong end of the graph.
Leaves_bug == {n \in Node : Up(n) = {}}

Leaves  == {n \in Node : Down(n) = {}}

Roots == {n \in Node : Up(n) = {}}

Clean == [status |-> "clean", cid |-> "clean"]

\* Nothing was started, or an earlier start succeeded.
Init ==
  /\ instance \in {"pending", "scheduled", "running"}
  /\ waiting \in BOOLEAN
  /\ instance = "running" => ~ waiting
  /\ nodeRow = [n \in Node |->
       IF instance = "running" THEN [status |-> "ready", cid |-> TRUE]
                               ELSE [status |-> "pending", cid |-> FALSE]]
  /\ lock = NoSession
  /\ wset = [c \in Session |-> [n \in Node |-> Clean]]
  /\ container = [n \in Node |->
       IF instance = "running" THEN "running" ELSE "absent"]
  /\ late = {}
  /\ pc = [r \in Start |-> "new"]
  /\ background = {}
  /\ pending = [r \in Start |-> {}]
  /\ running = [r \in Start |-> [n \in Node |-> 0]]
  /\ launched = [r \in Start |-> [n \in Node |-> 0]]
  /\ task = [r \in Start |-> [n \in Node |-> [k \in Launch |-> "none"]]]
  /\ started = [r \in Start |-> {}]
  /\ failed = [r \in Start |-> {}]
  /\ todo = [r \in Start |-> {}]
  /\ spc = [s \in Stop |-> "new"]
  /\ spending = [s \in Stop |-> {}]
  /\ stask = [s \in Stop |-> [n \in Node |-> "none"]]
  /\ stopped = [s \in Stop |-> {}]

-----------------------------------------------------------------------------
(* Sessions.                                                               *)

\* An assignment to a node object; once the invocation is over its session is
\* closed, the object is detached and the assignment is lost.
Assign(r, n, st, id) ==
  wset' = IF pc[r] \in Working
          THEN [wset EXCEPT ![r][n] =
                  [status |-> st, cid |-> IF id = "keep" THEN @.cid ELSE id]]
          ELSE wset

\* flush(): the UPDATE waits for the row locks and then holds them.
Flush(r) ==
  IF pc[r] \in Working
  THEN lock \in {NoSession, r} /\ lock' = r
  ELSE UNCHANGED lock

\* The flush of a failure event swallows its errors: it never waits for good.
FlushEvent(c, live) ==
  lock' = IF live /\ lock = NoSession THEN c ELSE lock

\* commit(): everything the session assigned, and the instance status.
Commit(c, st) ==
  /\ lock \in {NoSession, c}
  /\ lock' = NoSession
  /\ instance' = st
  /\ nodeRow' = [n \in Node |->
       [status |-> IF wset[c][n].status = "clean" THEN nodeRow[n].status
                                                 ELSE wset[c][n].status,
        cid |-> IF wset[c][n].cid = "clean" THEN nodeRow[n].cid
                                            ELSE wset[c][n].cid = "set"]]
  /\ wset' = [wset EXCEPT ![c] = [n \in Node |-> Clean]]
  /\ UNCHANGED waiting

\* rollback(): an exception leaves `async with session'.
Rollback(c) ==
  /\ wset' = [wset EXCEPT ![c] = [n \in Node |-> Clean]]
  /\ lock' = IF lock = c THEN NoSession ELSE lock

-----------------------------------------------------------------------------
(* execute_dag_start.                                                      *)

Began(r) == pc[r] \in Working \cup {"claimed"}

\* A background benchmark start is created for an instance whose row is
\* already `starting': claimed and committed first, or left by a lost process;
\* _BACKGROUND_BENCHMARK_START_TASKS admits one of them at a time.
Claim(r) ==
  /\ pc[r] = "new"
  /\ ~ waiting
  /\ \A q \in background : ~ Began(q)
  /\ instance \in {"pending", "scheduled", "stopped", "failed", "starting"}
  /\ lock = NoSession
  /\ instance' = "starting"
  /\ background' = background \cup {r}
  /\ pc' = [pc EXCEPT ![r] = "claimed"]
  /\ UNCHANGED <<nodeRow, waiting, lock, wset, agent, loopv, taskv, stopv>>

BeginRefused(r) ==
  /\ pc[r] \in {"new", "claimed"}
  /\ waiting
  /\ pc' = [pc EXCEPT ![r] = "refused"]
  /\ UNCHANGED <<rows, lock, wset, agent, loopv, taskv, background, stopv>>

\* Running, or starting and not claimed by this invocation's caller.
AlreadyUp(r) ==
  \/ instance = "running"
  \/ instance = "starting" /\ r \notin background

BeginNoop(r) ==
  /\ pc[r] \in {"new", "claimed"}
  /\ ~ waiting
  /\ AlreadyUp(r)
  /\ pc' = [pc EXCEPT ![r] = "noop"]
  /\ UNCHANGED <<rows, lock, wset, agent, loopv, taskv, background, stopv>>

\* A graph without roots is declared running at once: Succeed comes next.
Begin(r) ==
  /\ pc[r] \in {"new", "claimed"}
  /\ ~ waiting
  /\ ~ AlreadyUp(r)
  /\ pending' = [pending EXCEPT ![r] = Roots]
  /\ pc' = [pc EXCEPT ![r] = "top"]
  /\ UNCHANGED <<rows, lock, wset, agent, running, launched, todo, taskv,
                 background, stopv>>

Awaited(r) == {n \in Node : running[r][n] # 0}

\* `if failed_nodes: break' and then the rollback over started and failed.
Break(r) ==
  /\ pc[r] = "top"
  /\ failed[r] # {}
  /\ pc' = [pc EXCEPT ![r] = "rollback"]
  /\ todo' = [todo EXCEPT ![r] = started[r] \cup failed[r]]
  /\ UNCHANGED <<rows, lock, wset, agent, pending, running, launched, taskv,
                 background, stopv>>

Proceed(r) ==
  /\ pc[r] = "top"
  /\ failed[r] = {}
  /\ pending[r] \cup Awaited(r) # {}
  /\ pc' = [pc EXCEPT ![r] = "fill"]
  /\ UNCHANGED <<rows, lock, wset, agent, loopv, taskv, background, stopv>>

\* The failure check after the loop dropped.
Succeed_bug(r) ==
  /\ pc[r] = "top"
  /\ pending[r] \cup Awaited(r) = {}
  /\ Commit(r, "running")
  /\ pc' = [pc EXCEPT ![r] = "running"]
  /\ UNCHANGED <<agent, loopv, taskv, background, stopv>>

\* The loop ends with nothing pending, nothing awaited and no failure.
Succeed(r) ==
  /\ pc[r] = "top"
  /\ failed[r] = {}
  /\ pending[r] \cup Awaited(r) = {}
  /\ Commit(r, "running")
  /\ pc' = [pc EXCEPT ![r] = "running"]
  /\ UNCHANGED <<agent, loopv, taskv, background, stopv>>

CanLaunch(r) == Cardinality(Awaited(r)) < MaxParallel

\* create_task(start_and_monitor(node)): the new task replaces a running one.
LaunchTask(r, n) ==
  /\ pc[r] = "fill"
  /\ n \in pending[r]
  /\ CanLaunch(r)
  /\ launched[r][n] < MaxLaunch
  /\ pending' = [pending EXCEPT ![r] = @ \ {n}]
  /\ launched' = [launched EXCEPT ![r][n] = @ + 1]
  /\ running' = [running EXCEPT ![r][n] = launched[r][n] + 1]
  /\ task' = [task EXCEPT ![r][n][launched[r][n] + 1] = "calling"]
  /\ Assign(r, n, "starting", "keep")
  /\ UNCHANGED <<rows, lock, agent, pc, todo, started, failed, background,
                 stopv>>

EndFill(r) ==
  /\ pc[r] = "fill"
  /\ pending[r] = {} \/ ~ CanLaunch(r)
  /\ pc' = [pc EXCEPT ![r] = "wait"]
  /\ UNCHANGED <<rows, lock, wset, agent, loopv, taskv, background, stopv>>

\* A failed task does not wake the loop.
Finished_bug(r) == {n \in Awaited(r) : task[r][n][running[r][n]] = "ready"}

\* Awaited tasks that are over.
Finished(r) == {n \in Awaited(r) : task[r][n][running[r][n]] \in TaskDone}

\* asyncio.wait(FIRST_COMPLETED) hands over the tasks done at that moment.
Wake(r) ==
  /\ pc[r] = "wait"
  /\ Finished(r) # {}
  /\ todo' = [todo EXCEPT ![r] = Finished(r)]
  /\ pc' = [pc EXCEPT ![r] = "drain"]
  /\ UNCHANGED <<rows, lock, wset, agent, pending, running, launched, taskv,
                 background, stopv>>

\* The upstream check dropped, and the check made before the node counts.
Enabled_bug(r, n) == {d \in Down(n) : d \notin started[r]}
Enabled_early(r, n) ==
  {d \in Down(n) : Up(d) \subseteq started[r] \ {n} /\ d \notin started[r]}

\* Downstream nodes whose upstream nodes are all in started_nodes by now.
Enabled(r, n) ==
  {d \in Down(n) : Up(d) \subseteq started[r] /\ d \notin started[r]}

Drain(r, n) ==
  /\ pc[r] = "drain"
  /\ n \in todo[r]
  /\ task[r][n][running[r][n]] # "raised"
  /\ pending' = [pending EXCEPT ![r] = @ \cup
       IF task[r][n][running[r][n]] = "ready" THEN Enabled(r, n) ELSE {}]
  /\ running' = [running EXCEPT ![r][n] = 0]
  /\ todo' = [todo EXCEPT ![r] = @ \ {n}]
  /\ pc' = [pc EXCEPT ![r] = IF todo[r] = {n} THEN "top" ELSE "drain"]
  /\ UNCHANGED <<rows, lock, wset, agent, launched, taskv,
                 background, stopv>>

\* completed_task.result() raises: no rollback of containers, no status.
DrainRaised(r, n) ==
  /\ pc[r] = "drain"
  /\ n \in todo[r]
  /\ task[r][n][running[r][n]] = "raised"
  /\ Rollback(r)
  /\ pc' = [pc EXCEPT ![r] = "raised"]
  /\ UNCHANGED <<rows, agent, loopv, taskv, background, stopv>>

\* _rollback_started_nodes: remove_node, one node after the other.
Remove(r, n) ==
  /\ pc[r] = "rollback"
  /\ n \in todo[r]
  /\ container' = [container EXCEPT ![n] = "absent"]
  /\ Assign(r, n, "stopped", "null")
  /\ Flush(r)
  /\ todo' = [todo EXCEPT ![r] = @ \ {n}]
  /\ UNCHANGED <<rows, late, pc, pending, running, launched, taskv,
                 background, stopv>>

RemoveFails(r, n) ==
  /\ "delete" \in Faults
  /\ pc[r] = "rollback"
  /\ n \in todo[r]
  /\ FlushEvent(r, TRUE)
  /\ todo' = [todo EXCEPT ![r] = @ \ {n}]
  /\ UNCHANGED <<rows, wset, agent, pc, pending, running, launched, taskv,
                 background, stopv>>

\* Tasks still in flight are neither cancelled nor awaited.
Fail(r) ==
  /\ pc[r] = "rollback"
  /\ todo[r] = {}
  /\ Commit(r, "failed")
  /\ pc' = [pc EXCEPT ![r] = "failed"]
  /\ UNCHANGED <<agent, loopv, taskv, background, stopv>>

-----------------------------------------------------------------------------
(* start_and_monitor: task number k of node n.                             *)

Step(r, n, k, from, to) ==
  /\ task[r][n][k] = from
  /\ task' = [task EXCEPT ![r][n][k] = to]

Quiet == UNCHANGED <<rows, pc, background, loopv, stopv>>

\* The agent runs the container, or finds it running already.
AgentStarts(r, n, k) ==
  /\ Step(r, n, k, "calling", "replied")
  /\ container' = [container EXCEPT ![n] = "running"]
  /\ UNCHANGED <<lock, wset, late, started, failed>> /\ Quiet

\* The container id is not recorded.
Recorded_bug(r, n, k) ==
  /\ Step(r, n, k, "replied", "health")
  /\ Flush(r)
  /\ Assign(r, n, "running", "keep")
  /\ UNCHANGED <<agent, started, failed>> /\ Quiet

\* start_node returns: container_id is flushed, the node is RUNNING.
Recorded(r, n, k) ==
  /\ Step(r, n, k, "replied", "health")
  /\ Flush(r)
  /\ Assign(r, n, "running", "set")
  /\ UNCHANGED <<agent, started, failed>> /\ Quiet

\* The call fails.  A container that is not running is removed first, and one
\* that was created and could not be started stays behind.
AgentRefuses(r, n, k) ==
  /\ Step(r, n, k, "calling", "failed")
  /\ \E left \in {"absent", "exited"} :
       container' = [container EXCEPT ![n] = IF @ = "running" THEN @ ELSE left]
  /\ failed' = [failed EXCEPT ![r] = @ \cup {n}]
  /\ Assign(r, n, "failed", "keep")
  /\ FlushEvent(r, pc[r] \in Working)
  /\ UNCHANGED <<late, started>> /\ Quiet

\* The client gives up after agent_request_timeout, the agent does not.
CallTimesOut(r, n, k) ==
  /\ "timeout" \in Faults
  /\ Step(r, n, k, "calling", "failed")
  /\ late' = late \cup {n}
  /\ failed' = [failed EXCEPT ![r] = @ \cup {n}]
  /\ Assign(r, n, "failed", "keep")
  /\ FlushEvent(r, pc[r] \in Working)
  /\ UNCHANGED <<container, started>> /\ Quiet

Healthy(r, n, k) ==
  /\ container[n] = "running"
  /\ Step(r, n, k, "health", "ready")
  /\ started' = [started EXCEPT ![r] = @ \cup {n}]
  /\ Assign(r, n, "ready", "keep")
  /\ UNCHANGED <<lock, agent, failed>> /\ Quiet

\* The retries are used up: recorded in failed_nodes before the stop call.
Unhealthy(r, n, k) ==
  /\ Step(r, n, k, "health", "stopping")
  /\ failed' = [failed EXCEPT ![r] = @ \cup {n}]
  /\ Assign(r, n, "failed", "keep")
  /\ UNCHANGED <<lock, agent, started>> /\ Quiet

\* stop_node, whatever its outcome.
Halted(r, n, k) ==
  /\ Step(r, n, k, "stopping", "failed")
  /\ \/ /\ container' = [container EXCEPT ![n] = Halt(@)]
        /\ UNCHANGED lock
     \/ /\ UNCHANGED container
        /\ FlushEvent(r, pc[r] \in Working)
  /\ UNCHANGED <<wset, late, started, failed>> /\ Quiet

\* An exception: the command of the container cannot be composed, a query fails
\* or a lock wait times out, an unbound health message.
Raises(r, n, k) ==
  /\ "raise" \in Faults
  /\ task[r][n][k] \in {"calling", "replied", "health"}
  /\ Step(r, n, k, task[r][n][k], "raised")
  /\ UNCHANGED <<lock, wset, agent, started, failed>> /\ Quiet

TaskStep(r, n, k) ==
  \/ AgentStarts(r, n, k)
  \/ Recorded(r, n, k)
  \/ AgentRefuses(r, n, k)
  \/ CallTimesOut(r, n, k)
  \/ Healthy(r, n, k)
  \/ Unhealthy(r, n, k)
  \/ Halted(r, n, k)
  \/ Raises(r, n, k)

-----------------------------------------------------------------------------
(* execute_dag_stop.                                                       *)

StopNoop(s) ==
  /\ spc[s] = "new"
  /\ instance \in {"stopped", "pending"}
  /\ spc' = [spc EXCEPT ![s] = "noop"]
  /\ UNCHANGED <<rows, lock, wset, agent, startv, spending, stask, stopped>>

StopBegin(s) ==
  /\ spc[s] = "new"
  /\ instance \notin {"stopped", "pending"}
  /\ spending' = [spending EXCEPT ![s] = Leaves]
  /\ spc' = [spc EXCEPT ![s] = "loop"]
  /\ UNCHANGED <<rows, lock, wset, agent, startv, stask, stopped>>

StopsAwaited(s) == {n \in Node : stask[s][n] \in {"calling", "done"}}

StopLaunch(s, n) ==
  /\ spc[s] = "loop"
  /\ n \in spending[s]
  /\ Cardinality(StopsAwaited(s)) < MaxParallel
  /\ spending' = [spending EXCEPT ![s] = @ \ {n}]
  /\ stask' = [stask EXCEPT ![s][n] = "calling"]
  /\ UNCHANGED <<rows, lock, wset, agent, startv, spc, stopped>>

StopReply(s, n) ==
  /\ spc[s] = "loop"
  /\ stask[s][n] = "calling"
  /\ stask' = [stask EXCEPT ![s][n] = "done"]
  /\ container' = [container EXCEPT ![n] = Halt(@)]
  /\ wset' = [wset EXCEPT ![s][n].status = "stopped"]
  /\ UNCHANGED <<rows, lock, late, startv, spc, spending, stopped>>

\* A failed stop is recorded as an event and otherwise ignored.
StopReplyFails(s, n) ==
  /\ spc[s] = "loop"
  /\ stask[s][n] = "calling"
  /\ stask' = [stask EXCEPT ![s][n] = "done"]
  /\ FlushEvent(s, TRUE)
  /\ UNCHANGED <<rows, wset, agent, startv, spc, spending, stopped>>

\* The node itself is not counted.
StopEnabled_early(s, n) ==
  {u \in Up(n) : Down(u) \subseteq stopped[s] /\ u \notin stopped[s]}

\* Upstream nodes whose downstream nodes are all in stopped_nodes now.
StopEnabled(s, n) ==
  {u \in Up(n) : /\ Down(u) \subseteq stopped[s] \cup {n}
                 /\ u \notin stopped[s] \cup {n}}

\* The finished stop stays in running_stops.
StopDrain_bug(s, n) ==
  /\ spc[s] = "loop"
  /\ stask[s][n] = "done"
  /\ stopped' = [stopped EXCEPT ![s] = @ \cup {n}]
  /\ spending' = [spending EXCEPT ![s] = @ \cup StopEnabled(s, n)]
  /\ UNCHANGED <<rows, lock, wset, agent, startv, spc, stask>>

StopDrain(s, n) ==
  /\ spc[s] = "loop"
  /\ stask[s][n] = "done"
  /\ stask' = [stask EXCEPT ![s][n] = "drained"]
  /\ stopped' = [stopped EXCEPT ![s] = @ \cup {n}]
  /\ spending' = [spending EXCEPT ![s] = @ \cup StopEnabled(s, n)]
  /\ UNCHANGED <<rows, lock, wset, agent, startv, spc>>

StopEnd(s) ==
  /\ spc[s] = "loop"
  /\ spending[s] \cup StopsAwaited(s) = {}
  /\ Commit(s, "stopped")
  /\ spc' = [spc EXCEPT ![s] = "stopped"]
  /\ UNCHANGED <<agent, startv, spending, stask, stopped>>

\* The commit waits for another session's row locks and gives up.
StopRaises(s) ==
  /\ "raise" \in Faults
  /\ spc[s] = "loop"
  /\ spending[s] \cup StopsAwaited(s) = {}
  /\ lock \notin {NoSession, s}
  /\ Rollback(s)
  /\ spc' = [spc EXCEPT ![s] = "raised"]
  /\ UNCHANGED <<rows, agent, startv, spending, stask, stopped>>

-----------------------------------------------------------------------------
(* The environment.                                                        *)

\* mark_network_ready: the external router has bound the network.
NetworkReady ==
  /\ waiting
  /\ waiting' = FALSE
  /\ UNCHANGED <<instance, nodeRow, lock, wset, agent, startv, stopv>>

\* An abandoned start call completes at the agent.
LateStart(n) ==
  /\ n \in late
  /\ late' = late \ {n}
  /\ container' = [container EXCEPT ![n] = "running"]
  /\ UNCHANGED <<rows, lock, wset, startv, stopv>>

\* The backend process dies: coroutines, tasks and open transactions are gone.
Crash ==
  /\ "crash" \in Faults
  /\ \/ \E r \in Start : Began(r)
     \/ \E s \in Stop : spc[s] = "loop"
  /\ pc' = [r \in Start |-> IF Began(r) THEN "crashed" ELSE pc[r]]
  /\ spc' = [s \in Stop |-> IF spc[s] = "loop" THEN "crashed" ELSE spc[s]]
  /\ late' = late \cup {n \in Node : \E r \in Start, k \in Launch :
                                       task[r][n][k] = "calling"}
  /\ task' = [r \in Start |-> [n \in Node |-> [k \in Launch |->
                IF task[r][n][k] \in InFlight THEN "dead" ELSE task[r][n][k]]]]
  /\ wset' = [c \in Session |-> [n \in Node |-> Clean]]
  /\ lock' = NoSession
  /\ UNCHANGED <<rows, container, background, loopv, started, failed,
                 spending, stask, stopped>>

-----------------------------------------------------------------------------

StartLoop(r) ==
  \/ Begin(r)
  \/ BeginNoop(r)
  \/ BeginRefused(r)
  \/ Break(r)
  \/ Proceed(r)
  \/ Succeed(r)
  \/ \E n \in Node : LaunchTask(r, n)
  \/ EndFill(r)
  \/ Wake(r)
  \/ \E n \in Node : Drain(r, n)
  \/ \E n \in Node : DrainRaised(r, n)
  \/ \E n \in Node : Remove(r, n)
  \/ \E n \in Node : RemoveFails(r, n)
  \/ Fail(r)

StopLoop(s) ==
  \/ StopNoop(s)
  \/ StopBegin(s)
  \/ \E n \in Node : StopLaunch(s, n)
  \/ \E n \in Node : StopReply(s, n)
  \/ \E n \in Node : StopReplyFails(s, n)
  \/ \E n \in Node : StopDrain(s, n)
  \/ StopEnd(s)
  \/ StopRaises(s)

Next ==
  \/ \E r \in Start : Claim(r)
  \/ \E r \in Start : StartLoop(r)
  \/ \E r \in Start, n \in Node, k \in Launch : TaskStep(r, n, k)
  \/ \E s \in Stop : StopLoop(s)
  \/ NetworkReady
  \/ \E n \in Node : LateStart(n)
  \/ Crash

Spec == Init /\ [][Next]_vars

\* A coroutine that has begun, and its tasks, keep running: the event loop is
\* fair, every agent call ends in a reply or in the client's timeout, and the
\* health check has finitely many retries.  Nobody has to call start or stop.
Fairness ==
  /\ \A r \in Start : WF_vars(pc[r] # "new" /\ StartLoop(r))
  /\ \A r \in Start, n \in Node, k \in Launch : WF_vars(TaskStep(r, n, k))
  /\ \A s \in Stop : WF_vars(spc[s] # "new" /\ StopLoop(s))

FairSpec == Spec /\ Fairness

-----------------------------------------------------------------------------
(* Properties.                                                             *)

WriteSet == [status : NodeStatus \cup {"clean"}, cid : {"clean", "set", "null"}]

\* The variables keep their types.
TypeOK ==
  /\ instance \in TaskStatus
  /\ nodeRow \in [Node -> [status : NodeStatus, cid : BOOLEAN]]
  /\ waiting \in BOOLEAN
  /\ lock \in Session \cup {NoSession}
  /\ wset \in [Session -> [Node -> WriteSet]]
  /\ container \in [Node -> {"absent", "running", "exited"}]
  /\ late \subseteq Node
  /\ pc \in [Start -> {"new", "claimed"} \cup Working \cup StartDone]
  /\ background \subseteq Start
  /\ pending \in [Start -> SUBSET Node]
  /\ running \in [Start -> [Node -> 0 .. MaxLaunch]]
  /\ launched \in [Start -> [Node -> 0 .. MaxLaunch]]
  /\ task \in [Start -> [Node -> [Launch ->
                {"none", "dead"} \cup InFlight \cup TaskDone]]]
  /\ started \in [Start -> SUBSET Node]
  /\ failed \in [Start -> SUBSET Node]
  /\ todo \in [Start -> SUBSET Node]
  /\ spc \in [Stop -> {"new", "loop"} \cup StopDone]
  /\ spending \in [Stop -> SUBSET Node]
  /\ stask \in [Stop -> [Node -> {"none", "calling", "done", "drained"}]]
  /\ stopped \in [Stop -> SUBSET Node]

\* A start call goes out only after every upstream node became ready in the
\* same invocation (the topological order of execute_dag_start).
TopologicalStart ==
  \A r \in Start, n \in Node : launched[r][n] > 0 => Up(n) \subseteq started[r]

\* An invocation that declared the instance running left no startable node
\* behind: a node that never became ready waits for another such node.
RunningIsComplete ==
  \A r \in Start : pc[r] = "running" =>
    \A n \in Node \ started[r] : ~ (Up(n) \subseteq started[r])

\* A stop call goes out only after the stop of every downstream node returned.
ReverseTopologicalStop ==
  \A s \in Stop, n \in Node :
    stask[s][n] # "none" => Down(n) \subseteq stopped[s]

\* A stop that declared the instance stopped tried every node it could reach.
StopIsComplete ==
  \A s \in Stop : spc[s] = "stopped" =>
    \A n \in Node \ stopped[s] : ~ (Down(n) \subseteq stopped[s])

\* Why the two properties hold.  While an invocation works and has seen no
\* failure, a node that could be started and is not ready is on the loop's
\* frontier: pending, awaited, or behind a node that got ready and whose task
\* the loop has not handled yet.  A node that was asked for and is no longer
\* awaited is ready, so a task the loop has forgotten (its entry of
\* running_nodes replaced by a second one) cannot make another node startable.
InOrder(r) ==
  /\ \A n \in pending[r] : Up(n) \subseteq started[r]
  /\ \A n \in Node : launched[r][n] > 0 => Up(n) \subseteq started[r]
  /\ \A n \in Awaited(r) : launched[r][n] > 0
  /\ pc[r] \in {"new", "claimed"} =>
       started[r] = {} /\ \A n \in Node : launched[r][n] = 0

TasksKnown(r) ==
  /\ \A n \in Node, k \in Launch :
       /\ task[r][n][k] # "none" => launched[r][n] > 0
       /\ task[r][n][k] = "ready" => n \in started[r]
       /\ task[r][n][k] \in {"stopping", "failed"} => n \in failed[r]
  /\ pc[r] = "drain" => todo[r] \subseteq Finished(r)

Frontier(r) ==
  /\ pc[r] \in Working /\ failed[r] = {} =>
       /\ \A n \in Node \ Awaited(r) : launched[r][n] > 0 => n \in started[r]
       /\ \A n \in Node \ started[r] : Up(n) \subseteq started[r] =>
            \/ n \in pending[r] \cup Awaited(r)
            \/ Up(n) \cap Awaited(r) # {}
  /\ pc[r] = "running" =>
       /\ \A n \in Node : launched[r][n] > 0 => n \in started[r]
       /\ \A n \in Node \ started[r] : ~ (Up(n) \subseteq started[r])

StartInv == \A r \in Start : InOrder(r) /\ TasksKnown(r) /\ Frontier(r)

\* The same for stops: while one works, a node whose downstream nodes are all
\* done and which is not done itself is pending or being stopped.
StopInv ==
  \A s \in Stop :
    /\ \A n \in spending[s] : Down(n) \subseteq stopped[s]
    /\ \A n \in Node : stask[s][n] # "none" => Down(n) \subseteq stopped[s]
    /\ spc[s] = "new" => stopped[s] = {}
    /\ spc[s] = "loop" =>
         \A n \in Node \ stopped[s] : Down(n) \subseteq stopped[s] =>
           n \in spending[s] \cup StopsAwaited(s)
    /\ spc[s] = "stopped" =>
         \A n \in Node \ stopped[s] : ~ (Down(n) \subseteq stopped[s])

\* An instance recorded as running has a recorded container up on every node
\* (one start, no stop: with more, another invocation may take them down).
RunningIsBacked ==
  instance = "running" =>
    \A n \in Node : nodeRow[n].cid /\ container[n] = "running"

\* How an invocation ended.
Outcome(r) == IF pc[r] = "running" THEN "running"
              ELSE IF pc[r] \in StartDone THEN "other" ELSE "busy"

Promise == INSTANCE DagLifecycle WITH
  asked <- [r \in Start |-> {n \in Node : launched[r][n] > 0}],
  ready <- started,
  outcome <- [r \in Start |-> Outcome(r)]

\* The executor implements what DagLifecycle promises.
KeepsPromise == Promise!Spec

\* Every start that has begun ends, whatever the agents answer.
StartTerminates == \A r \in Start : Began(r) ~> pc[r] \in StartDone

\* Every stop that has begun ends.
StopTerminates == \A s \in Stop : spc[s] = "loop" ~> spc[s] \in StopDone

\* A failed start leaves no container of a node whose start it asked for.
FailedStartLeavesNothing ==
  \A r \in Start : pc[r] = "failed" =>
    \A n \in Node : launched[r][n] > 0 => container[n] = "absent"
=============================================================================
