-------------------------- MODULE DagExecutorProofs --------------------------
(* Proofs about DagExecutor, for every graph, every number of invocations   *)
(* and every combination of faults: types; the order and the completeness   *)
(* of starts and stops; the refinement of DagLifecycle; and, for one start  *)
(* on a forest, what backs an instance recorded as running.                 *)
EXTENDS DagExecutor, TLAPS

-----------------------------------------------------------------------------
(* What the session operators do to the types.                              *)

WsetOK == wset \in [Session -> [Node -> WriteSet]]

\* A session that has assigned nothing has a write set.
LEMMA CleanType == Clean \in WriteSet
  BY DEF Clean, WriteSet

\* An assignment to a node object leaves well-typed write sets.
LEMMA AssignType ==
  ASSUME WsetOK, NEW r \in Start, NEW n \in Node, NEW st \in NodeStatus,
         NEW id \in {"keep", "clean", "set", "null"}, Assign(r, n, st, id)
  PROVE  WsetOK'
<1> DEFINE w == [status |-> st, cid |-> IF id = "keep" THEN wset[r][n].cid ELSE id]
<1>1. r \in Session
  BY DEF Session
<1>2. wset[r] \in [Node -> WriteSet] /\ wset[r][n] \in WriteSet
  BY <1>1 DEF WsetOK
<1>3. w \in WriteSet
  BY <1>2 DEF WriteSet
<1>4. wset' = wset \/ wset' = [wset EXCEPT ![r] = [wset[r] EXCEPT ![n] = w]]
  BY DEF Assign
<1>5. [wset[r] EXCEPT ![n] = w] \in [Node -> WriteSet]
  BY <1>2, <1>3
<1> HIDE DEF w
<1> QED
  BY <1>1, <1>4, <1>5 DEF WsetOK

\* commit() leaves well-typed rows, lock and write sets.
LEMMA CommitType ==
  ASSUME TypeOK, NEW c \in Session, NEW st \in TaskStatus, Commit(c, st)
  PROVE  /\ instance' \in TaskStatus
         /\ nodeRow' \in [Node -> [status : NodeStatus, cid : BOOLEAN]]
         /\ waiting' \in BOOLEAN
         /\ lock' \in Session \cup {NoSession}
         /\ WsetOK'
<1>1. ASSUME NEW n \in Node
      PROVE  [status |-> IF wset[c][n].status = "clean" THEN nodeRow[n].status
                                                       ELSE wset[c][n].status,
              cid |-> IF wset[c][n].cid = "clean" THEN nodeRow[n].cid
                                                  ELSE wset[c][n].cid = "set"]
               \in [status : NodeStatus, cid : BOOLEAN]
  <2>1. wset[c][n] \in WriteSet /\ nodeRow[n] \in [status : NodeStatus, cid : BOOLEAN]
    BY DEF TypeOK
  <2> QED
    BY <2>1 DEF WriteSet
<1>2. [n \in Node |-> Clean] \in [Node -> WriteSet]
  BY CleanType
<1> QED
  BY <1>1, <1>2 DEF Commit, TypeOK, WsetOK

-----------------------------------------------------------------------------
(* Types.                                                                   *)

\* The initial states have the types.
LEMMA TypeInit == Init => TypeOK
<1> SUFFICES ASSUME Init PROVE TypeOK
  OBVIOUS
<1>1. wset \in [Session -> [Node -> WriteSet]]
  BY CleanType DEF Init
<1>2. running \in [Start -> [Node -> 0 .. MaxLaunch]]
      /\ launched \in [Start -> [Node -> 0 .. MaxLaunch]]
  BY BoundAssumption DEF Init
<1> QED
  BY <1>1, <1>2 DEF Init, TypeOK, TaskStatus, NodeStatus, Roots

\* The claim and the early returns of execute_dag_start keep the types.
LEMMA BeginTypes ==
  ASSUME TypeOK, NEW r \in Start,
         Claim(r) \/ Begin(r) \/ BeginNoop(r) \/ BeginRefused(r)
  PROVE  TypeOK'
<1> USE DEF rows, agent, loopv, taskv, stopv
<1>1. CASE Claim(r)
  BY <1>1 DEF Claim, TypeOK, TaskStatus
<1>2. CASE Begin(r)
  BY <1>2 DEF Begin, TypeOK, Working, Roots
<1>3. CASE BeginNoop(r)
  BY <1>3 DEF BeginNoop, TypeOK, StartDone
<1>4. CASE BeginRefused(r)
  BY <1>4 DEF BeginRefused, TypeOK, StartDone
<1> QED
  BY <1>1, <1>2, <1>3, <1>4

\* Every step of the start loop and of its rollback keeps the types.
LEMMA LoopTypes ==
  ASSUME TypeOK, NEW r \in Start, StartLoop(r)
  PROVE  TypeOK'
<1> USE DEF rows, agent, loopv, taskv, stopv
<1>1. CASE Begin(r) \/ BeginNoop(r) \/ BeginRefused(r)
  BY <1>1, BeginTypes
<1>2. CASE Break(r)
  BY <1>2 DEF Break, TypeOK, Working
<1>3. CASE Proceed(r)
  BY <1>3 DEF Proceed, TypeOK, Working
<1>4. CASE Succeed(r)
  <2>1. Commit(r, "running") /\ r \in Session /\ "running" \in TaskStatus
    BY <1>4 DEF Succeed, Session, TaskStatus
  <2> QED
    BY <1>4, <2>1, CommitType DEF Succeed, TypeOK, StartDone, WsetOK
<1>5. ASSUME NEW n \in Node, LaunchTask(r, n) PROVE TypeOK'
  <2>1. WsetOK'
    BY <1>5, AssignType DEF LaunchTask, TypeOK, WsetOK, NodeStatus
  <2>2. launched[r][n] + 1 \in Launch
    BY <1>5, BoundAssumption DEF LaunchTask, TypeOK, Launch
  <2>3. launched' \in [Start -> [Node -> 0 .. MaxLaunch]]
        /\ running' \in [Start -> [Node -> 0 .. MaxLaunch]]
    BY <1>5, <2>2 DEF LaunchTask, TypeOK, Launch
  <2>4. task' \in [Start -> [Node -> [Launch ->
                     {"none", "dead"} \cup InFlight \cup TaskDone]]]
    BY <1>5, <2>2 DEF LaunchTask, TypeOK, InFlight
  <2> QED
    BY <1>5, <2>1, <2>3, <2>4 DEF LaunchTask, TypeOK, WsetOK
<1>6. CASE EndFill(r)
  BY <1>6 DEF EndFill, TypeOK, Working
<1>7. CASE Wake(r)
  BY <1>7 DEF Wake, TypeOK, Working, Finished, Awaited
<1>8. ASSUME NEW n \in Node, Drain(r, n) PROVE TypeOK'
  <2>1. pending' \in [Start -> SUBSET Node] /\ todo' \in [Start -> SUBSET Node]
    BY <1>8 DEF Drain, TypeOK, Enabled, Down
  <2>2. running' \in [Start -> [Node -> 0 .. MaxLaunch]]
    BY <1>8, BoundAssumption DEF Drain, TypeOK
  <2>3. pc' \in [Start -> {"new", "claimed"} \cup Working \cup StartDone]
    BY <1>8 DEF Drain, TypeOK, Working
  <2> QED
    BY <1>8, <2>1, <2>2, <2>3 DEF Drain, TypeOK
<1>9. ASSUME NEW n \in Node, DrainRaised(r, n) PROVE TypeOK'
  BY <1>9, CleanType DEF DrainRaised, Rollback, TypeOK, StartDone
<1>10. ASSUME NEW n \in Node, Remove(r, n) PROVE TypeOK'
  <2>1. WsetOK'
    BY <1>10, AssignType DEF Remove, TypeOK, WsetOK, NodeStatus
  <2> QED
    BY <1>10, <2>1 DEF Remove, TypeOK, WsetOK, Flush, Session
<1>11. ASSUME NEW n \in Node, RemoveFails(r, n) PROVE TypeOK'
  BY <1>11 DEF RemoveFails, TypeOK, FlushEvent, Session
<1>12. CASE Fail(r)
  <2>1. Commit(r, "failed") /\ r \in Session /\ "failed" \in TaskStatus
    BY <1>12 DEF Fail, Session, TaskStatus
  <2> QED
    BY <1>12, <2>1, CommitType DEF Fail, TypeOK, StartDone, WsetOK
<1> QED
  BY <1>1, <1>2, <1>3, <1>4, <1>5, <1>6, <1>7, <1>8, <1>9, <1>10, <1>11, <1>12
     DEF StartLoop

\* A task that moves on stays in its range of states.
LEMMA StepType ==
  ASSUME TypeOK, NEW r \in Start, NEW n \in Node, NEW k \in Launch,
         NEW from, NEW to \in {"none", "dead"} \cup InFlight \cup TaskDone,
         Step(r, n, k, from, to)
  PROVE  task' \in [Start -> [Node -> [Launch ->
                      {"none", "dead"} \cup InFlight \cup TaskDone]]]
  BY DEF Step, TypeOK

\* Every step of start_and_monitor keeps the types.
LEMMA TaskTypes ==
  ASSUME TypeOK, NEW r \in Start, NEW n \in Node, NEW k \in Launch,
         TaskStep(r, n, k)
  PROVE  TypeOK'
<1> USE DEF rows, agent, loopv, stopv, Quiet
<1>1. r \in Session /\ WsetOK
  BY DEF Session, TypeOK, WsetOK
<1>2. CASE AgentStarts(r, n, k)
  <2>1. task' \in [Start -> [Node -> [Launch ->
                      {"none", "dead"} \cup InFlight \cup TaskDone]]]
    BY <1>2, StepType DEF AgentStarts, InFlight
  <2> QED
    BY <1>2, <2>1 DEF AgentStarts, TypeOK
<1>3. CASE Recorded(r, n, k)
  <2>1. task' \in [Start -> [Node -> [Launch ->
                      {"none", "dead"} \cup InFlight \cup TaskDone]]]
    BY <1>3, StepType DEF Recorded, InFlight
  <2>2. WsetOK'
    BY <1>1, <1>3, AssignType DEF Recorded, NodeStatus
  <2> QED
    BY <1>1, <1>3, <2>1, <2>2 DEF Recorded, Flush, WsetOK, TypeOK
<1>4. CASE AgentRefuses(r, n, k)
  <2>1. task' \in [Start -> [Node -> [Launch ->
                      {"none", "dead"} \cup InFlight \cup TaskDone]]]
    BY <1>4, StepType DEF AgentRefuses, TaskDone
  <2>2. WsetOK'
    BY <1>1, <1>4, AssignType DEF AgentRefuses, NodeStatus
  <2>3. container' \in [Node -> {"absent", "running", "exited"}]
    BY <1>4 DEF AgentRefuses, TypeOK
  <2>4. failed' \in [Start -> SUBSET Node] /\ lock' \in Session \cup {NoSession}
    BY <1>1, <1>4 DEF AgentRefuses, FlushEvent, TypeOK
  <2>5. UNCHANGED <<instance, nodeRow, waiting, late, started, pc, background,
                    pending, running, launched, todo, spc, spending, stask,
                    stopped>>
    BY <1>4 DEF AgentRefuses
  <2> QED
    BY <2>1, <2>2, <2>3, <2>4, <2>5 DEF WsetOK, TypeOK
<1>5. CASE CallTimesOut(r, n, k)
  <2>1. task' \in [Start -> [Node -> [Launch ->
                      {"none", "dead"} \cup InFlight \cup TaskDone]]]
    BY <1>5, StepType DEF CallTimesOut, TaskDone
  <2>2. WsetOK'
    BY <1>1, <1>5, AssignType DEF CallTimesOut, NodeStatus
  <2> QED
    BY <1>1, <1>5, <2>1, <2>2 DEF CallTimesOut, FlushEvent, WsetOK, TypeOK
<1>6. CASE Healthy(r, n, k)
  <2>1. task' \in [Start -> [Node -> [Launch ->
                      {"none", "dead"} \cup InFlight \cup TaskDone]]]
    BY <1>6, StepType DEF Healthy, TaskDone
  <2>2. WsetOK'
    BY <1>1, <1>6, AssignType DEF Healthy, NodeStatus
  <2> QED
    BY <1>1, <1>6, <2>1, <2>2 DEF Healthy, WsetOK, TypeOK
<1>7. CASE Unhealthy(r, n, k)
  <2>1. task' \in [Start -> [Node -> [Launch ->
                      {"none", "dead"} \cup InFlight \cup TaskDone]]]
    BY <1>7, StepType DEF Unhealthy, InFlight
  <2>2. WsetOK'
    BY <1>1, <1>7, AssignType DEF Unhealthy, NodeStatus
  <2> QED
    BY <1>1, <1>7, <2>1, <2>2 DEF Unhealthy, WsetOK, TypeOK
<1>8. CASE Halted(r, n, k)
  <2>1. task' \in [Start -> [Node -> [Launch ->
                      {"none", "dead"} \cup InFlight \cup TaskDone]]]
    BY <1>8, StepType DEF Halted, TaskDone
  <2>2. container' \in [Node -> {"absent", "running", "exited"}]
    BY <1>8 DEF Halted, TypeOK, Halt
  <2> QED
    BY <1>1, <1>8, <2>1, <2>2 DEF Halted, FlushEvent, TypeOK
<1>9. CASE Raises(r, n, k)
  <2>1. task' \in [Start -> [Node -> [Launch ->
                      {"none", "dead"} \cup InFlight \cup TaskDone]]]
    BY <1>9, StepType DEF Raises, TaskDone
  <2> QED
    BY <1>9, <2>1 DEF Raises, TypeOK
<1> QED
  BY <1>2, <1>3, <1>4, <1>5, <1>6, <1>7, <1>8, <1>9 DEF TaskStep

\* Every step of execute_dag_stop keeps the types.
LEMMA StopTypes ==
  ASSUME TypeOK, NEW s \in Stop, StopLoop(s)
  PROVE  TypeOK'
<1> USE DEF rows, agent, loopv, taskv, startv
<1>1. s \in Session
  BY DEF Session
<1>2. CASE StopNoop(s)
  BY <1>2 DEF StopNoop, TypeOK, StopDone
<1>3. CASE StopBegin(s)
  BY <1>3 DEF StopBegin, TypeOK, Leaves
<1>4. ASSUME NEW n \in Node, StopLaunch(s, n) PROVE TypeOK'
  BY <1>4 DEF StopLaunch, TypeOK
<1>5. ASSUME NEW n \in Node, StopReply(s, n) PROVE TypeOK'
  <2>1. wset' \in [Session -> [Node -> WriteSet]]
    <3>1. wset[s] \in [Node -> WriteSet] /\ wset[s][n] \in WriteSet
      BY <1>1 DEF TypeOK
    <3>2. [wset[s][n] EXCEPT !.status = "stopped"] \in WriteSet
      BY <3>1 DEF WriteSet, NodeStatus
    <3>3. wset' = [wset EXCEPT ![s] = [wset[s] EXCEPT ![n] =
                                [wset[s][n] EXCEPT !.status = "stopped"]]]
      BY <1>5 DEF StopReply
    <3> QED
      BY <1>1, <3>1, <3>2, <3>3 DEF TypeOK
  <2>2. container' \in [Node -> {"absent", "running", "exited"}]
    BY <1>5 DEF StopReply, TypeOK, Halt
  <2> QED
    BY <1>5, <2>1, <2>2 DEF StopReply, TypeOK
<1>6. ASSUME NEW n \in Node, StopReplyFails(s, n) PROVE TypeOK'
  BY <1>1, <1>6 DEF StopReplyFails, FlushEvent, TypeOK
<1>7. ASSUME NEW n \in Node, StopDrain(s, n) PROVE TypeOK'
  BY <1>7 DEF StopDrain, StopEnabled, Up, TypeOK
<1>8. CASE StopEnd(s)
  <2>1. Commit(s, "stopped") /\ "stopped" \in TaskStatus
    BY <1>8 DEF StopEnd, TaskStatus
  <2> QED
    BY <1>1, <1>8, <2>1, CommitType DEF StopEnd, StopDone, TypeOK, WsetOK
<1>9. CASE StopRaises(s)
  BY <1>1, <1>9, CleanType DEF StopRaises, Rollback, StopDone, TypeOK
<1> QED
  BY <1>2, <1>3, <1>4, <1>5, <1>6, <1>7, <1>8, <1>9 DEF StopLoop

\* Every step keeps the types.
LEMMA TypeStep == TypeOK /\ [Next]_vars => TypeOK'
<1> SUFFICES ASSUME TypeOK, [Next]_vars PROVE TypeOK'
  OBVIOUS
<1> USE DEF rows, agent, loopv, taskv, startv, stopv
<1>1. ASSUME NEW r \in Start, Claim(r) PROVE TypeOK'
  BY <1>1, BeginTypes
<1>2. ASSUME NEW r \in Start, StartLoop(r) PROVE TypeOK'
  BY <1>2, LoopTypes
<1>3. ASSUME NEW r \in Start, NEW n \in Node, NEW k \in Launch,
             TaskStep(r, n, k)
      PROVE  TypeOK'
  BY <1>3, TaskTypes
<1>4. ASSUME NEW s \in Stop, StopLoop(s) PROVE TypeOK'
  BY <1>4, StopTypes
<1>5. CASE NetworkReady
  BY <1>5 DEF NetworkReady, TypeOK
<1>6. ASSUME NEW n \in Node, LateStart(n) PROVE TypeOK'
  BY <1>6 DEF LateStart, TypeOK
<1>7. CASE Crash
  <2>1. task' \in [Start -> [Node -> [Launch ->
                      {"none", "dead"} \cup InFlight \cup TaskDone]]]
    BY <1>7 DEF Crash, TypeOK
  <2>2. wset' \in [Session -> [Node -> WriteSet]]
    BY <1>7, CleanType DEF Crash
  <2>3. pc' \in [Start -> {"new", "claimed"} \cup Working \cup StartDone]
        /\ spc' \in [Stop -> {"new", "loop"} \cup StopDone]
    BY <1>7 DEF Crash, TypeOK, StartDone, StopDone
  <2> QED
    BY <1>7, <2>1, <2>2, <2>3 DEF Crash, TypeOK
<1>8. CASE UNCHANGED vars
  BY <1>8 DEF vars, TypeOK
<1> QED
  BY <1>1, <1>2, <1>3, <1>4, <1>5, <1>6, <1>7, <1>8 DEF Next

\* The variables of every execution keep their types.
THEOREM TypeCorrect == Spec => []TypeOK
  BY TypeInit, TypeStep, PTL DEF Spec

-----------------------------------------------------------------------------
(* One invocation of execute_dag_start.                                     *)

\* What an invocation's invariant speaks of.
Local(r) == <<pc[r], pending[r], running[r], launched[r], task[r], started[r],
              failed[r], todo[r]>>

StartOK(r) == InOrder(r) /\ TasksKnown(r) /\ Frontier(r)

\* A step that leaves the invocation's variables alone keeps its invariant.
LEMMA StartFrame ==
  ASSUME NEW r \in Start, StartOK(r), Local(r)' = Local(r)
  PROVE  StartOK(r)'
<1>1. /\ pc'[r] = pc[r] /\ pending'[r] = pending[r]
      /\ running'[r] = running[r] /\ launched'[r] = launched[r]
      /\ task'[r] = task[r] /\ started'[r] = started[r]
      /\ failed'[r] = failed[r] /\ todo'[r] = todo[r]
  BY DEF Local
<1>2. Awaited(r)' = Awaited(r) /\ Finished(r)' = Finished(r)
  BY <1>1 DEF Awaited, Finished
<1> QED
  BY <1>1, <1>2 DEF StartOK, InOrder, TasksKnown, Frontier

\* Before any start the invariant of each invocation holds.
LEMMA StartInit ==
  ASSUME Init, NEW r \in Start
  PROVE  StartOK(r)
<1>1. Awaited(r) = {}
  BY DEF Init, Awaited
<1>2. \A n \in Node, k \in Launch : task[r][n][k] = "none"
  BY DEF Init
<1>3. \A n \in Node : launched[r][n] = 0
  BY DEF Init
<1> QED
  BY <1>1, <1>2, <1>3 DEF Init, StartOK, InOrder, TasksKnown, Frontier, Working

\* The steps before the loop.
LEMMA StartOKBegin ==
  ASSUME TypeOK, NEW r \in Start, StartOK(r),
         Claim(r) \/ Begin(r) \/ BeginNoop(r) \/ BeginRefused(r)
  PROVE  StartOK(r)'
<1> USE DEF rows, agent, loopv, taskv, stopv
<1>1. /\ pc[r] \in {"new", "claimed"}
      /\ UNCHANGED <<running, launched, task, started, failed, todo>>
  BY DEF Claim, Begin, BeginNoop, BeginRefused
<1>2. started[r] = {} /\ \A n \in Node : launched[r][n] = 0
  BY <1>1 DEF StartOK, InOrder
<1>3. \A n \in Node, k \in Launch : task[r][n][k] = "none"
  BY <1>2 DEF StartOK, TasksKnown
<1>4. Awaited(r) = {} /\ Awaited(r)' = {}
  BY <1>1, <1>2 DEF StartOK, InOrder, Awaited
<1>5. CASE Begin(r)
  <2>1. pc'[r] = "top" /\ pending'[r] = Roots
    BY <1>5 DEF Begin, TypeOK
  <2>2. \A n \in Node : Up(n) = {} <=> n \in Roots
    BY DEF Roots
  <2> QED
    BY <1>1, <1>2, <1>3, <1>4, <2>1, <2>2
       DEF StartOK, InOrder, TasksKnown, Frontier, Working, Roots
<1>6. CASE Claim(r) \/ BeginNoop(r) \/ BeginRefused(r)
  <2>1. pc'[r] \in {"claimed", "noop", "refused"} /\ pending' = pending
    BY <1>6 DEF Claim, BeginNoop, BeginRefused, TypeOK
  <2> QED
    BY <1>1, <1>2, <1>3, <1>4, <2>1
       DEF StartOK, InOrder, TasksKnown, Frontier, Working
<1> QED
  BY <1>5, <1>6

\* Steps of the loop that only move the program counter or end the work.
LEMMA StartOKMove ==
  ASSUME TypeOK, NEW r \in Start, StartOK(r),
         Break(r) \/ Proceed(r) \/ EndFill(r) \/ Wake(r) \/ Fail(r)
           \/ Succeed(r)
  PROVE  StartOK(r)'
<1> USE DEF rows, agent, loopv, taskv, stopv
<1>1. UNCHANGED <<pending, running, launched, task, started, failed>>
  BY DEF Break, Proceed, EndFill, Wake, Fail, Succeed
<1>2. Awaited(r)' = Awaited(r) /\ Finished(r)' = Finished(r)
  BY <1>1 DEF Awaited, Finished
<1>3. CASE Break(r) \/ Proceed(r) \/ EndFill(r) \/ Fail(r)
  <2>1. pc[r] \in Working /\ pc'[r] \in {"rollback", "fill", "wait", "failed"}
    BY <1>3 DEF Break, Proceed, EndFill, Fail, TypeOK, Working
  <2> QED
    BY <1>1, <1>2, <2>1 DEF StartOK, InOrder, TasksKnown, Frontier
<1>4. CASE Wake(r)
  <2>1. /\ pc[r] = "wait" /\ pc'[r] = "drain"
        /\ todo'[r] = Finished(r)
    BY <1>4 DEF Wake, TypeOK
  <2> QED
    BY <1>1, <1>2, <2>1 DEF StartOK, InOrder, TasksKnown, Frontier, Working
<1>5. CASE Succeed(r)
  <2>1. /\ pc[r] = "top" /\ pc'[r] = "running" /\ failed[r] = {}
        /\ pending[r] = {} /\ Awaited(r) = {}
    BY <1>5 DEF Succeed, TypeOK
  <2> QED
    BY <1>1, <1>2, <2>1 DEF StartOK, InOrder, TasksKnown, Frontier, Working
<1> QED
  BY <1>3, <1>4, <1>5

\* The rollback's calls, and an exception.
LEMMA StartOKRemove ==
  ASSUME TypeOK, NEW r \in Start, NEW n \in Node, StartOK(r),
         Remove(r, n) \/ RemoveFails(r, n) \/ DrainRaised(r, n)
  PROVE  StartOK(r)'
<1> USE DEF rows, agent, loopv, taskv, stopv
<1>1. UNCHANGED <<pending, running, launched, task, started, failed>>
  BY DEF Remove, RemoveFails, DrainRaised
<1>2. Awaited(r)' = Awaited(r) /\ Finished(r)' = Finished(r)
  BY <1>1 DEF Awaited, Finished
<1>3. \/ pc[r] = "rollback" /\ pc'[r] = "rollback"
      \/ pc[r] = "drain" /\ pc'[r] = "raised"
  BY DEF Remove, RemoveFails, DrainRaised, TypeOK
<1> QED
  BY <1>1, <1>2, <1>3 DEF StartOK, InOrder, TasksKnown, Frontier, Working

\* A node moves from pending_nodes to running_nodes.
LEMMA StartOKLaunch ==
  ASSUME TypeOK, NEW r \in Start, NEW n \in Node, StartOK(r),
         LaunchTask(r, n)
  PROVE  StartOK(r)'
<1> USE DEF rows, agent, loopv, taskv, stopv
<1> DEFINE k == launched[r][n] + 1
<1>1. /\ pc[r] = "fill" /\ n \in pending[r]
      /\ UNCHANGED <<pc, started, failed, todo>>
      /\ pending' = [pending EXCEPT ![r] = @ \ {n}]
      /\ launched' = [launched EXCEPT ![r][n] = k]
      /\ running' = [running EXCEPT ![r][n] = k]
      /\ task' = [task EXCEPT ![r][n][k] = "calling"]
  BY DEF LaunchTask
<1>2. k \in Nat /\ k # 0 /\ k > 0
  <2>1. launched[r][n] \in 0 .. MaxLaunch
    BY DEF TypeOK
  <2> QED
    BY <2>1, BoundAssumption
<1>3. pending'[r] = pending[r] \ {n}
  BY <1>1 DEF TypeOK
<1> HIDE DEF k
<1>4. \A m \in Node : launched'[r][m] = IF m = n THEN k ELSE launched[r][m]
  BY <1>1 DEF TypeOK
<1>5. \A m \in Node, j \in Launch :
        task'[r][m][j] = IF m = n /\ j = k THEN "calling" ELSE task[r][m][j]
  BY <1>1 DEF TypeOK
<1>6. Awaited(r)' = Awaited(r) \cup {n}
  <2>1. \A m \in Node : running'[r][m] = IF m = n THEN k ELSE running[r][m]
    BY <1>1 DEF TypeOK
  <2> QED
    BY <1>2, <2>1 DEF Awaited
<1>7. InOrder(r)'
  <2>1. InOrder(r)
    BY DEF StartOK
  <2> QED
    BY <1>1, <1>2, <1>3, <1>4, <1>6, <2>1 DEF InOrder
<1>8. TasksKnown(r)'
  <2>1. TasksKnown(r)
    BY DEF StartOK
  <2>2. launched'[r][n] > 0
    BY <1>2, <1>4
  <2>3. \A m \in Node : launched[r][m] > 0 => launched'[r][m] > 0
    BY <1>4, <2>2
  <2> QED
    BY <1>1, <1>5, <2>1, <2>2, <2>3 DEF TasksKnown
<1>9. Frontier(r)'
  <2>1. Frontier(r)
    BY DEF StartOK
  <2> QED
    BY <1>1, <1>3, <1>4, <1>6, <2>1 DEF Frontier, Working
<1> QED
  BY <1>7, <1>8, <1>9 DEF StartOK

\* The loop handles a finished task: the frontier moves past the node.
LEMMA StartOKDrain ==
  ASSUME TypeOK, NEW r \in Start, NEW n \in Node, StartOK(r), Drain(r, n)
  PROVE  StartOK(r)'
<1> USE DEF rows, agent, loopv, taskv, stopv
<1>1. /\ pc[r] = "drain" /\ n \in todo[r]
      /\ task[r][n][running[r][n]] # "raised"
      /\ UNCHANGED <<launched, task, started, failed>>
      /\ running' = [running EXCEPT ![r][n] = 0]
      /\ todo'[r] = todo[r] \ {n}
      /\ pc'[r] \in {"top", "drain"}
      /\ pending'[r] = pending[r] \cup
           IF task[r][n][running[r][n]] = "ready" THEN Enabled(r, n) ELSE {}
  BY DEF Drain, TypeOK
<1>2. \A m \in Node : running'[r][m] = IF m = n THEN 0 ELSE running[r][m]
  BY <1>1 DEF TypeOK
<1>3. Awaited(r)' = Awaited(r) \ {n}
  BY <1>2 DEF Awaited
<1>4. /\ n \in Awaited(r)
      /\ task[r][n][running[r][n]] \in {"ready", "failed"}
      /\ running[r][n] \in Launch
  <2>1. n \in Finished(r)
    BY <1>1 DEF StartOK, TasksKnown
  <2> QED
    BY <1>1, <2>1 DEF Finished, Awaited, TaskDone, TypeOK, Launch
<1>5. n \in started[r] \/ n \in failed[r]
  BY <1>4 DEF StartOK, TasksKnown
<1>6. Enabled(r, n) \subseteq Node /\ \A d \in Enabled(r, n) : Up(d) \subseteq started[r]
  BY DEF Enabled, Down
<1>7. InOrder(r)'
  <2>1. InOrder(r)
    BY DEF StartOK
  <2> QED
    BY <1>1, <1>3, <1>6, <2>1 DEF InOrder
<1>8. TasksKnown(r)'
  <2>1. TasksKnown(r)
    BY DEF StartOK
  <2>2. Finished(r)' = Finished(r) \ {n}
    BY <1>1, <1>2, <1>3 DEF Finished, Awaited
  <2> QED
    BY <1>1, <2>1, <2>2 DEF TasksKnown
<1>9. Frontier(r)'
  <2>1. Frontier(r)
    BY DEF StartOK
  <2>2. CASE failed[r] # {}
    BY <1>1, <2>2 DEF Frontier
  <2>3. CASE failed[r] = {}
    <3>1. n \in started[r] /\ task[r][n][running[r][n]] = "ready"
      BY <1>4, <1>5, <2>3 DEF StartOK, TasksKnown
    <3>2. ASSUME NEW m \in Node \ started[r], Up(m) \subseteq started[r]
          PROVE  \/ m \in pending'[r] \cup Awaited(r)'
                 \/ Up(m) \cap Awaited(r)' # {}
      <4>1. CASE n \in Up(m)
        BY <1>1, <3>1, <3>2, <4>1 DEF Enabled, Up, Down
      <4>2. CASE n \notin Up(m)
        BY <1>1, <1>3, <2>1, <2>3, <3>1, <3>2, <4>2 DEF Frontier, Working
      <4> QED
        BY <4>1, <4>2
    <3> QED
      BY <1>1, <1>3, <2>1, <2>3, <3>1, <3>2 DEF Frontier, Working
  <2> QED
    BY <2>2, <2>3
<1> QED
  BY <1>7, <1>8, <1>9 DEF StartOK

\* Every step of the start loop keeps its invariant.
LEMMA StartOKLoop ==
  ASSUME TypeOK, NEW r \in Start, StartOK(r), StartLoop(r)
  PROVE  StartOK(r)'
  BY StartOKBegin, StartOKMove, StartOKRemove, StartOKLaunch, StartOKDrain
     DEF StartLoop

\* A step of one invocation leaves the variables of the others alone.
LEMMA OthersKept ==
  ASSUME TypeOK, NEW q \in Start, NEW r \in Start \ {q},
         \/ Claim(q) \/ StartLoop(q)
         \/ \E n \in Node, k \in Launch : TaskStep(q, n, k)
  PROVE  Local(r)' = Local(r)
<1> USE DEF rows, agent, loopv, taskv, stopv, Quiet, Local, TypeOK
<1>1. CASE Claim(q)
  BY <1>1 DEF Claim
<1>2. CASE StartLoop(q)
  <2>1. CASE Begin(q) \/ BeginNoop(q) \/ BeginRefused(q)
    BY <2>1 DEF Begin, BeginNoop, BeginRefused
  <2>2. CASE Break(q) \/ Proceed(q) \/ Succeed(q) \/ EndFill(q) \/ Wake(q) \/ Fail(q)
    BY <2>2 DEF Break, Proceed, Succeed, EndFill, Wake, Fail
  <2>3. ASSUME NEW n \in Node, LaunchTask(q, n) PROVE Local(r)' = Local(r)
    BY <2>3 DEF LaunchTask
  <2>4. ASSUME NEW n \in Node, Drain(q, n) PROVE Local(r)' = Local(r)
    BY <2>4 DEF Drain
  <2>5. ASSUME NEW n \in Node,
               DrainRaised(q, n) \/ Remove(q, n) \/ RemoveFails(q, n)
        PROVE  Local(r)' = Local(r)
    BY <2>5 DEF DrainRaised, Remove, RemoveFails
  <2> QED
    BY <1>2, <2>1, <2>2, <2>3, <2>4, <2>5 DEF StartLoop
<1>3. ASSUME NEW n \in Node, NEW k \in Launch, TaskStep(q, n, k)
      PROVE  Local(r)' = Local(r)
  BY <1>3 DEF TaskStep, AgentStarts, Recorded, AgentRefuses, CallTimesOut,
     Healthy, Unhealthy, Halted, Raises, Step
<1> QED
  BY <1>1, <1>2, <1>3

\* What one step of a task does to its invocation.
LEMMA TaskEffect ==
  ASSUME TypeOK, NEW r \in Start, NEW n \in Node, NEW k \in Launch,
         TaskStep(r, n, k)
  PROVE  /\ UNCHANGED <<pc, pending, running, launched, todo>>
         /\ task[r][n][k] \in InFlight
         /\ \A m \in Node, j \in Launch :
              ~ (m = n /\ j = k) => task'[r][m][j] = task[r][m][j]
         /\ task'[r][n][k] # "none"
         /\ \/ started' = started
            \/ started'[r] = started[r] \cup {n}
         /\ failed[r] \subseteq failed'[r]
         /\ task'[r][n][k] = "ready" => n \in started'[r]
         /\ task'[r][n][k] \in {"stopping", "failed"} =>
              n \in failed'[r] \/ task[r][n][k] = "stopping"
<1> USE DEF rows, agent, loopv, stopv, Quiet, TypeOK, InFlight, Step
<1>1. CASE AgentStarts(r, n, k)
  BY <1>1 DEF AgentStarts
<1>2. CASE Recorded(r, n, k)
  BY <1>2 DEF Recorded
<1>3. CASE AgentRefuses(r, n, k)
  BY <1>3 DEF AgentRefuses
<1>4. CASE CallTimesOut(r, n, k)
  BY <1>4 DEF CallTimesOut
<1>5. CASE Healthy(r, n, k)
  BY <1>5 DEF Healthy
<1>6. CASE Unhealthy(r, n, k)
  BY <1>6 DEF Unhealthy
<1>7. CASE Halted(r, n, k)
  BY <1>7 DEF Halted
<1>8. CASE Raises(r, n, k)
  BY <1>8 DEF Raises
<1> QED
  BY <1>1, <1>2, <1>3, <1>4, <1>5, <1>6, <1>7, <1>8 DEF TaskStep

\* A task that makes its node ready is awaited, or the node was ready before.
LEMMA StartOKTask ==
  ASSUME TypeOK, NEW r \in Start, NEW n \in Node, NEW k \in Launch, StartOK(r),
         TaskStep(r, n, k)
  PROVE  StartOK(r)'
<1> DEFINE old == task[r][n][k]
<1> DEFINE new == task'[r][n][k]
<1>1. /\ UNCHANGED <<pc, pending, running, launched, todo>>
      /\ old \in InFlight
      /\ \A m \in Node, j \in Launch :
           ~ (m = n /\ j = k) => task'[r][m][j] = task[r][m][j]
      /\ new # "none"
      /\ started'[r] \in {started[r], started[r] \cup {n}}
      /\ failed[r] \subseteq failed'[r]
      /\ new = "ready" => n \in started'[r]
      /\ new \in {"stopping", "failed"} => n \in failed'[r] \/ old = "stopping"
  BY TaskEffect
<1> HIDE DEF new
<1>2. Awaited(r)' = Awaited(r)
  BY <1>1 DEF Awaited
<1>3. launched[r][n] > 0
  BY <1>1 DEF StartOK, TasksKnown, InFlight
<1>4. InOrder(r)'
  BY <1>1, <1>2, <1>3 DEF StartOK, InOrder
<1>5. TasksKnown(r)'
  <2>1. TasksKnown(r)
    BY DEF StartOK
  <2>2. \A m \in Node, j \in Launch :
          /\ task'[r][m][j] # "none" => launched'[r][m] > 0
          /\ task'[r][m][j] = "ready" => m \in started'[r]
          /\ task'[r][m][j] \in {"stopping", "failed"} => m \in failed'[r]
    <3> TAKE m \in Node, j \in Launch
    <3>1. CASE m = n /\ j = k
      BY <1>1, <1>3, <2>1, <3>1 DEF TasksKnown, new
    <3>2. CASE ~ (m = n /\ j = k)
      BY <1>1, <2>1, <3>2 DEF TasksKnown
    <3> QED
      BY <3>1, <3>2
  <2>3. Finished(r) \subseteq Finished(r)'
    <3>1. SUFFICES ASSUME NEW m \in Finished(r) PROVE m \in Finished(r)'
      OBVIOUS
    <3>2. /\ m \in Awaited(r) /\ m \in Node
          /\ running[r][m] \in Launch
          /\ task[r][m][running[r][m]] \in TaskDone
      BY DEF Finished, Awaited, TypeOK, Launch
    <3>3. task'[r][m][running[r][m]] = task[r][m][running[r][m]]
      BY <1>1, <3>2 DEF InFlight, TaskDone
    <3> QED
      BY <1>1, <1>2, <3>2, <3>3 DEF Finished
  <2> QED
    BY <1>1, <2>1, <2>2, <2>3 DEF TasksKnown
<1>6. Frontier(r)'
  <2>1. Frontier(r)
    BY DEF StartOK
  <2>2. CASE pc[r] = "running"
    <3>1. started'[r] = started[r]
      BY <1>1, <1>3, <2>1, <2>2 DEF Frontier
    <3> QED
      BY <1>1, <2>1, <2>2, <3>1 DEF Frontier, Working
  <2>3. CASE pc[r] \in Working /\ failed'[r] = {}
    <3>1. failed[r] = {} /\ (n \in Awaited(r) \/ n \in started[r])
      BY <1>1, <1>3, <2>1, <2>3 DEF Frontier
    <3>2. CASE started'[r] = started[r]
      BY <1>1, <1>2, <2>1, <2>3, <3>1, <3>2 DEF Frontier, Working
    <3>3. CASE started'[r] = started[r] \cup {n} /\ n \in Awaited(r)
      <4>1. ASSUME NEW m \in Node \ started'[r], Up(m) \subseteq started'[r]
            PROVE  \/ m \in pending[r] \cup Awaited(r)
                   \/ Up(m) \cap Awaited(r) # {}
        <5>1. CASE n \in Up(m)
          BY <3>3, <5>1
        <5>2. CASE n \notin Up(m)
          BY <2>1, <2>3, <3>1, <3>3, <4>1, <5>2 DEF Frontier
        <5> QED
          BY <5>1, <5>2
      <4> QED
        BY <1>1, <1>2, <2>1, <2>3, <3>1, <3>3, <4>1 DEF Frontier, Working
    <3> QED
      BY <1>1, <3>1, <3>2, <3>3
  <2> QED
    BY <1>1, <2>2, <2>3 DEF Frontier
<1> QED
  BY <1>4, <1>5, <1>6 DEF StartOK

\* The process dies.
LEMMA StartOKCrash ==
  ASSUME TypeOK, NEW r \in Start, StartOK(r), Crash
  PROVE  StartOK(r)'
<1> USE DEF loopv
<1>1. /\ UNCHANGED <<pending, running, launched, todo, started, failed>>
      /\ pc'[r] = IF Began(r) THEN "crashed" ELSE pc[r]
  BY DEF Crash
<1>2. \A n \in Node, k \in Launch :
        task'[r][n][k] = IF task[r][n][k] \in InFlight THEN "dead"
                         ELSE task[r][n][k]
  BY DEF Crash
<1>3. Awaited(r)' = Awaited(r)
  BY <1>1 DEF Awaited
<1>4. pc'[r] \notin Working /\ (pc'[r] # "crashed" => pc'[r] = pc[r])
  BY <1>1 DEF Began, Working
<1>5. \A n \in Node, k \in Launch :
        /\ task'[r][n][k] # "none" => task[r][n][k] # "none"
        /\ task'[r][n][k] \in {"ready", "stopping", "failed"} =>
             task'[r][n][k] = task[r][n][k]
  BY <1>2 DEF InFlight
<1> QED
  BY <1>1, <1>3, <1>4, <1>5
     DEF StartOK, InOrder, TasksKnown, Frontier, Working

\* Every step of the system keeps the start invariant.
LEMMA StartInvStep ==
  ASSUME TypeOK, StartInv, [Next]_vars
  PROVE  StartInv'
<1>1. SUFFICES ASSUME NEW r \in Start PROVE StartOK(r)'
  BY DEF StartInv, StartOK
<1>2. StartOK(r)
  BY DEF StartInv, StartOK
<1> USE DEF rows, agent, loopv, taskv, startv, stopv
<1>3. ASSUME NEW q \in Start,
             \/ Claim(q) \/ StartLoop(q)
             \/ \E n \in Node, k \in Launch : TaskStep(q, n, k)
      PROVE  StartOK(r)'
  <2>1. CASE q # r
    BY <1>2, <1>3, <2>1, OthersKept, StartFrame
  <2>2. CASE q = r
    BY <1>2, <1>3, <2>2, StartOKBegin, StartOKLoop, StartOKTask
  <2> QED
    BY <2>1, <2>2
<1>4. ASSUME \/ \E s \in Stop : StopLoop(s)
             \/ NetworkReady
             \/ \E n \in Node : LateStart(n)
             \/ UNCHANGED vars
      PROVE  StartOK(r)'
  <2>1. UNCHANGED <<pc, pending, running, launched, task, started, failed, todo>>
    BY <1>4 DEF StopLoop, StopNoop, StopBegin, StopLaunch, StopReply,
       StopReplyFails, StopDrain, StopEnd, StopRaises, NetworkReady, LateStart, vars
  <2> QED
    BY <1>2, <2>1, StartFrame DEF Local
<1>5. CASE Crash
  BY <1>2, <1>5, StartOKCrash
<1> QED
  BY <1>3, <1>4, <1>5 DEF Next

\* The frontier invariant of the start loop.
THEOREM StartInvariant == Spec => []StartInv
<1>1. Init => StartInv
  BY StartInit DEF StartInv, StartOK
<1> QED
  BY <1>1, TypeCorrect, StartInvStep, PTL DEF Spec

\* Start calls go out in topological order, for every graph.
THEOREM StartsInOrder == Spec => []TopologicalStart
<1>1. StartInv => TopologicalStart
  BY DEF StartInv, InOrder, TopologicalStart
<1> QED
  BY <1>1, StartInvariant, PTL

\* `running' is declared only when no startable node is left, for every graph.
THEOREM RunningComplete == Spec => []RunningIsComplete
<1>1. StartInv => RunningIsComplete
  BY DEF StartInv, Frontier, RunningIsComplete
<1> QED
  BY <1>1, StartInvariant, PTL

-----------------------------------------------------------------------------
(* execute_dag_stop.                                                        *)

StopOK(s) ==
  /\ \A n \in spending[s] : Down(n) \subseteq stopped[s]
  /\ \A n \in Node : stask[s][n] # "none" => Down(n) \subseteq stopped[s]
  /\ spc[s] = "new" => stopped[s] = {}
  /\ spc[s] = "loop" =>
       \A n \in Node \ stopped[s] : Down(n) \subseteq stopped[s] =>
         n \in spending[s] \cup StopsAwaited(s)
  /\ spc[s] = "stopped" =>
       \A n \in Node \ stopped[s] : ~ (Down(n) \subseteq stopped[s])

\* A stop that does not move, or that dies, keeps its invariant.
LEMMA StopFrame ==
  ASSUME NEW s \in Stop, StopOK(s),
         spc'[s] = spc[s] \/ spc'[s] \notin {"new", "loop", "stopped"},
         spending'[s] = spending[s], stask'[s] = stask[s],
         stopped'[s] = stopped[s]
  PROVE  StopOK(s)'
<1>1. StopsAwaited(s)' = StopsAwaited(s)
  BY DEF StopsAwaited
<1> QED
  BY <1>1 DEF StopOK

\* Every step of the stop loop keeps its invariant.
LEMMA StopOKLoop ==
  ASSUME TypeOK, NEW s \in Stop, StopOK(s), StopLoop(s)
  PROVE  StopOK(s)'
<1> USE DEF rows, agent, loopv, taskv, startv
<1>1. CASE StopNoop(s) \/ StopRaises(s)
  BY <1>1, StopFrame DEF StopNoop, StopRaises, TypeOK
<1>2. CASE StopBegin(s)
  <2>1. /\ spc[s] = "new" /\ spc'[s] = "loop" /\ spending'[s] = Leaves
        /\ UNCHANGED <<stask, stopped>>
    BY <1>2 DEF StopBegin, TypeOK
  <2>2. \A n \in Node : Down(n) = {} <=> n \in Leaves
    BY DEF Leaves
  <2> QED
    BY <2>1, <2>2 DEF StopOK, Leaves
<1>3. ASSUME NEW n \in Node, StopLaunch(s, n) PROVE StopOK(s)'
  <2>1. /\ spc'[s] = spc[s] /\ n \in spending[s] /\ stopped' = stopped
        /\ spending'[s] = spending[s] \ {n}
        /\ \A m \in Node : stask'[s][m] = IF m = n THEN "calling" ELSE stask[s][m]
    BY <1>3 DEF StopLaunch, TypeOK
  <2>2. StopsAwaited(s)' = StopsAwaited(s) \cup {n}
    BY <2>1 DEF StopsAwaited
  <2> QED
    BY <2>1, <2>2 DEF StopOK
<1>4. ASSUME NEW n \in Node, StopReply(s, n) \/ StopReplyFails(s, n)
      PROVE  StopOK(s)'
  <2>1. /\ UNCHANGED <<spc, spending, stopped>> /\ stask[s][n] = "calling"
        /\ stask' = [stask EXCEPT ![s][n] = "done"]
    BY <1>4 DEF StopReply, StopReplyFails
  <2>2. \A m \in Node : stask'[s][m] = IF m = n THEN "done" ELSE stask[s][m]
    BY <2>1 DEF TypeOK
  <2>3. StopsAwaited(s)' = StopsAwaited(s)
    BY <2>1, <2>2 DEF StopsAwaited
  <2> QED
    BY <2>1, <2>2, <2>3 DEF StopOK
<1>5. ASSUME NEW n \in Node, StopDrain(s, n) PROVE StopOK(s)'
  <2>1. /\ spc[s] = "loop" /\ spc' = spc /\ stask[s][n] = "done"
        /\ stopped'[s] = stopped[s] \cup {n}
        /\ spending'[s] = spending[s] \cup StopEnabled(s, n)
        /\ \A m \in Node : stask'[s][m] = IF m = n THEN "drained" ELSE stask[s][m]
    BY <1>5 DEF StopDrain, TypeOK
  <2>2. StopsAwaited(s)' = StopsAwaited(s) \ {n}
    BY <2>1 DEF StopsAwaited
  <2>3. \A m \in StopEnabled(s, n) : Down(m) \subseteq stopped'[s]
    BY <2>1 DEF StopEnabled
  <2>4. ASSUME NEW m \in Node \ stopped'[s], Down(m) \subseteq stopped'[s]
        PROVE  m \in spending'[s] \cup StopsAwaited(s)'
    <3>1. CASE n \in Down(m)
      BY <2>1, <2>4, <3>1 DEF StopEnabled, Up, Down
    <3>2. CASE n \notin Down(m)
      BY <2>1, <2>2, <2>4, <3>2 DEF StopOK
    <3> QED
      BY <3>1, <3>2
  <2> QED
    BY <2>1, <2>2, <2>3, <2>4 DEF StopOK
<1>6. CASE StopEnd(s)
  <2>1. /\ spc[s] = "loop" /\ spc'[s] = "stopped"
        /\ spending[s] = {} /\ StopsAwaited(s) = {}
        /\ UNCHANGED <<spending, stask, stopped>>
    BY <1>6 DEF StopEnd, TypeOK
  <2> QED
    BY <2>1 DEF StopOK
<1> QED
  BY <1>1, <1>2, <1>3, <1>4, <1>5, <1>6 DEF StopLoop

\* Every step of the system keeps the stop invariant.
LEMMA StopInvStep ==
  ASSUME TypeOK, StopInv, [Next]_vars
  PROVE  StopInv'
<1>1. SUFFICES ASSUME NEW s \in Stop PROVE StopOK(s)'
  BY DEF StopInv, StopOK
<1>2. StopOK(s)
  BY DEF StopInv, StopOK
<1> USE DEF rows, agent, loopv, taskv, startv, stopv
<1>3. ASSUME NEW q \in Stop, StopLoop(q) PROVE StopOK(s)'
  <2>1. CASE q # s
    <3>1. /\ spc'[s] = spc[s] /\ spending'[s] = spending[s]
          /\ stask'[s] = stask[s] /\ stopped'[s] = stopped[s]
      BY <1>3, <2>1 DEF StopLoop, StopNoop, StopBegin, StopLaunch, StopReply,
         StopReplyFails, StopDrain, StopEnd, StopRaises, TypeOK
    <3> QED
      BY <1>2, <3>1, StopFrame
  <2>2. CASE q = s
    BY <1>2, <1>3, <2>2, StopOKLoop
  <2> QED
    BY <2>1, <2>2
<1>4. ASSUME NEW r \in Start,
             \/ Claim(r) \/ StartLoop(r)
             \/ \E n \in Node, k \in Launch : TaskStep(r, n, k)
      PROVE  UNCHANGED stopv
  <2>1. ASSUME Claim(r) \/ StartLoop(r) PROVE UNCHANGED stopv
    BY <2>1 DEF Claim, StartLoop, Begin, BeginNoop, BeginRefused,
       Break, Proceed, Succeed, LaunchTask, EndFill, Wake, Drain, DrainRaised,
       Remove, RemoveFails, Fail
  <2>2. ASSUME NEW n \in Node, NEW k \in Launch, TaskStep(r, n, k)
        PROVE  UNCHANGED stopv
    BY <2>2 DEF TaskStep, AgentStarts, Recorded, AgentRefuses, CallTimesOut,
       Healthy, Unhealthy, Halted, Raises, Quiet
  <2> QED
    BY <1>4, <2>1, <2>2
<1>5. CASE NetworkReady \/ (\E n \in Node : LateStart(n)) \/ UNCHANGED vars
  <2>1. UNCHANGED stopv
    BY <1>5 DEF NetworkReady, LateStart, vars
  <2> QED
    BY <1>2, <2>1, StopFrame
<1>6. CASE Crash
  BY <1>2, <1>6, StopFrame DEF Crash
<1> QED
  BY <1>2, <1>3, <1>4, <1>5, <1>6, StopFrame DEF Next

\* The frontier invariant of the stop loop.
THEOREM StopInvariant == Spec => []StopInv
<1>1. ASSUME Init, NEW s \in Stop PROVE StopOK(s)
  <2>1. StopsAwaited(s) = {} /\ \A n \in Node : stask[s][n] = "none"
    BY <1>1 DEF Init, StopsAwaited
  <2> QED
    BY <1>1, <2>1 DEF Init, StopOK
<1>2. Init => StopInv
  BY <1>1 DEF StopInv, StopOK
<1> QED
  BY <1>2, TypeCorrect, StopInvStep, PTL DEF Spec

\* Stop calls go out in reverse topological order, for every graph.
THEOREM StopsInOrder == Spec => []ReverseTopologicalStop
<1>1. StopInv => ReverseTopologicalStop
  BY DEF StopInv, ReverseTopologicalStop
<1> QED
  BY <1>1, StopInvariant, PTL

\* `stopped' is declared only when every node in reach was tried.
THEOREM StopComplete == Spec => []StopIsComplete
<1>1. StopInv => StopIsComplete
  BY DEF StopInv, StopIsComplete
<1> QED
  BY <1>1, StopInvariant, PTL

-----------------------------------------------------------------------------
(* The executor implements DagLifecycle.                                    *)

Asked == [r \in Start |-> {n \in Node : launched[r][n] > 0}]
Outcomes == [r \in Start |-> Outcome(r)]

\* Initially nothing is asked for, ready or decided.
LEMMA PromiseInit == Init => Promise!Init
<1> SUFFICES ASSUME Init PROVE Promise!Init
  OBVIOUS
<1>1. Asked = [r \in Start |-> {}]
  BY DEF Init, Asked
<1>2. Outcomes = [r \in Start |-> "busy"]
  BY DEF Init, Outcomes, Outcome, StartDone
<1> QED
  BY <1>1, <1>2 DEF Init, Promise!Init, Asked, Outcomes

\* A step that changes nothing the promise speaks of.
LEMMA PromiseStutter ==
  ASSUME UNCHANGED <<launched, started>>,
         \A r \in Start : Outcome(r)' = Outcome(r)
  PROVE  UNCHANGED Promise!vars
<1>1. Asked' = Asked /\ Outcomes' = Outcomes
  BY DEF Asked, Outcomes
<1> QED
  BY <1>1 DEF Promise!vars, Asked, Outcomes

\* Invocations that end without declaring the instance running.
LEMMA PromiseGiveUp ==
  ASSUME UNCHANGED <<launched, started>>, NEW R \in SUBSET Start,
         \A r \in R : Outcome(r) = "busy" /\ Outcome(r)' = "other",
         \A r \in Start \ R : Outcome(r)' = Outcome(r)
  PROVE  Promise!Next
<1>1. Asked' = Asked
  BY DEF Asked
<1>2. Outcomes' = [r \in Start |-> IF r \in R THEN "other" ELSE Outcomes[r]]
  BY DEF Outcomes
<1>3. \A r \in R : Outcomes[r] = "busy"
  BY DEF Outcomes
<1>4. Promise!GiveUp(R)
  BY <1>1, <1>2, <1>3 DEF Promise!GiveUp, Asked, Outcomes
<1> QED
  BY <1>4 DEF Promise!Next

\* An invocation that leaves no startable node behind may declare `running'.
LEMMA PromiseRunning ==
  ASSUME UNCHANGED <<launched, started>>, NEW q \in Start,
         Outcome(q) = "busy", Outcome(q)' = "running",
         \A r \in Start \ {q} : Outcome(r)' = Outcome(r),
         \A n \in Node \ started[q] : ~ (Up(n) \subseteq started[q])
  PROVE  Promise!Next
<1>1. Asked' = Asked
  BY DEF Asked
<1>2. Outcomes' = [Outcomes EXCEPT ![q] = "running"] /\ Outcomes[q] = "busy"
  BY DEF Outcomes
<1>3. Promise!Complete(q)
  BY DEF Promise!Complete, Promise!Up, Up
<1>4. Promise!DeclareRunning(q)
  BY <1>1, <1>2, <1>3 DEF Promise!DeclareRunning, Asked, Outcomes
<1> QED
  BY <1>4 DEF Promise!Next

\* The start loop moves as DagLifecycle allows.
LEMMA PromiseLoop ==
  ASSUME TypeOK, StartInv, StartInv', NEW q \in Start, StartLoop(q)
  PROVE  Promise!Next \/ UNCHANGED Promise!vars
<1> USE DEF rows, agent, loopv, taskv, stopv
<1>1. \A r \in Start \ {q} : pc'[r] = pc[r]
  BY OthersKept DEF Local
<1>2. \A r \in Start \ {q} : Outcome(r)' = Outcome(r)
  BY <1>1 DEF Outcome
<1>3. CASE \/ Begin(q) \/ Break(q) \/ Proceed(q) \/ EndFill(q) \/ Wake(q)
           \/ \E n \in Node : Drain(q, n) \/ Remove(q, n) \/ RemoveFails(q, n)
  <2>1. UNCHANGED <<launched, started>>
    BY <1>3 DEF Begin, Break, Proceed, EndFill, Wake, Drain, Remove, RemoveFails
  <2>2. /\ pc[q] \in {"new", "claimed"} \cup Working
        /\ pc'[q] \in {"new", "claimed"} \cup Working
    BY <1>3 DEF Begin, Break, Proceed, EndFill, Wake, Drain, Remove, RemoveFails,
       TypeOK, Working
  <2>3. Outcome(q)' = Outcome(q)
    BY <2>2 DEF Outcome, StartDone, Working
  <2> QED
    BY <1>2, <2>1, <2>3, PromiseStutter
<1>4. CASE \/ BeginNoop(q) \/ BeginRefused(q) \/ Fail(q)
           \/ \E n \in Node : DrainRaised(q, n)
  <2>1. UNCHANGED <<launched, started>>
    BY <1>4 DEF BeginNoop, BeginRefused, Fail, DrainRaised
  <2>2. /\ pc[q] \in {"new", "claimed"} \cup Working
        /\ pc'[q] \in {"noop", "refused", "failed", "raised"}
    BY <1>4 DEF BeginNoop, BeginRefused, Fail, DrainRaised, TypeOK, Working
  <2>3. Outcome(q) = "busy" /\ Outcome(q)' = "other"
    BY <2>2 DEF Outcome, StartDone, Working
  <2> QED
    BY <1>2, <2>1, <2>3, PromiseGiveUp
<1>5. CASE Succeed(q)
  <2>1. UNCHANGED <<launched, started>>
    BY <1>5 DEF Succeed
  <2>2. pc[q] \in {"new", "claimed", "top"} /\ pc'[q] = "running"
    BY <1>5 DEF Succeed, TypeOK
  <2>3. Outcome(q) = "busy" /\ Outcome(q)' = "running"
    BY <2>2 DEF Outcome, StartDone
  <2>4. \A n \in Node \ started[q] : ~ (Up(n) \subseteq started[q])
    BY <2>1, <2>2 DEF StartInv, Frontier
  <2> QED
    BY <1>2, <2>1, <2>3, <2>4, PromiseRunning
<1>6. ASSUME NEW n \in Node, LaunchTask(q, n) PROVE Promise!Next
  <2>1. /\ pc[q] = "fill" /\ n \in pending[q] /\ pc' = pc /\ started' = started
        /\ launched' = [launched EXCEPT ![q][n] = launched[q][n] + 1]
    BY <1>6 DEF LaunchTask
  <2>2. Outcomes' = Outcomes /\ Outcomes[q] = "busy"
    BY <2>1 DEF Outcomes, Outcome, StartDone
  <2>3. Up(n) \subseteq started[q]
    BY <2>1 DEF StartInv, InOrder
  <2>4. launched[q][n] + 1 > 0
    <3>1. launched[q][n] \in 0 .. MaxLaunch
      BY DEF TypeOK
    <3> QED
      BY <3>1, BoundAssumption
  <2>5. \A r \in Start, m \in Node :
          launched'[r][m] = IF r = q /\ m = n THEN launched[q][n] + 1
                            ELSE launched[r][m]
    BY <2>1 DEF TypeOK
  <2>6. Asked' = [Asked EXCEPT ![q] = Asked[q] \cup {n}]
    <3>1. \A r \in Start \ {q} :
            {m \in Node : launched'[r][m] > 0} = {m \in Node : launched[r][m] > 0}
      BY <2>5
    <3>2. {m \in Node : launched'[q][m] > 0}
            = {m \in Node : launched[q][m] > 0} \cup {n}
      BY <2>4, <2>5
    <3> QED
      BY <3>1, <3>2 DEF Asked
  <2>7. Promise!Ask(q, n)
    BY <2>1, <2>2, <2>3, <2>6 DEF Promise!Ask, Promise!Up, Up, Asked, Outcomes
  <2> QED
    BY <2>7 DEF Promise!Next
<1> QED
  BY <1>3, <1>4, <1>5, <1>6 DEF StartLoop

\* A task makes its node ready only after the node was asked for.
LEMMA PromiseTask ==
  ASSUME TypeOK, StartInv, NEW q \in Start, NEW n \in Node, NEW k \in Launch,
         TaskStep(q, n, k)
  PROVE  Promise!Next \/ UNCHANGED Promise!vars
<1>1. UNCHANGED <<pc, launched>> /\ task[q][n][k] \in InFlight
  BY TaskEffect
<1>2. \A r \in Start : Outcome(r)' = Outcome(r)
  BY <1>1 DEF Outcome
<1>3. CASE started' = started
  BY <1>1, <1>2, <1>3, PromiseStutter
<1>4. CASE started' # started
  <2>1. started' = [started EXCEPT ![q] = started[q] \cup {n}]
    BY <1>4 DEF TaskStep, AgentStarts, Recorded, AgentRefuses, CallTimesOut,
       Healthy, Unhealthy, Halted, Raises
  <2>2. launched[q][n] > 0
    BY <1>1 DEF StartInv, TasksKnown, InFlight
  <2>3. n \in Asked[q] /\ Asked' = Asked /\ Outcomes' = Outcomes
    BY <1>1, <1>2, <2>2 DEF Asked, Outcomes
  <2>4. Promise!BecomeReady(q, n)
    BY <2>1, <2>3 DEF Promise!BecomeReady, Asked, Outcomes
  <2> QED
    BY <2>4 DEF Promise!Next
<1> QED
  BY <1>3, <1>4

\* Every step of the executor is a step of DagLifecycle or changes nothing there.
LEMMA PromiseStep ==
  ASSUME TypeOK, StartInv, StartInv', [Next]_vars
  PROVE  Promise!Next \/ UNCHANGED Promise!vars
<1> USE DEF rows, agent, loopv, taskv, startv, stopv
<1>1. ASSUME NEW q \in Start, Claim(q) PROVE UNCHANGED Promise!vars
  <2>1. UNCHANGED <<launched, started>>
    BY <1>1 DEF Claim
  <2>2. \A r \in Start : Outcome(r)' = Outcome(r)
    BY <1>1 DEF Claim, Outcome, StartDone, TypeOK
  <2> QED
    BY <2>1, <2>2, PromiseStutter
<1>2. ASSUME \/ \E s \in Stop : StopLoop(s)
             \/ NetworkReady
             \/ \E n \in Node : LateStart(n)
             \/ UNCHANGED vars
      PROVE  UNCHANGED Promise!vars
  <2>1. UNCHANGED <<pc, launched, started>>
    BY <1>2 DEF StopLoop, StopNoop, StopBegin, StopLaunch, StopReply,
       StopReplyFails, StopDrain, StopEnd, StopRaises, NetworkReady, LateStart, vars
  <2> QED
    BY <2>1, PromiseStutter DEF Outcome
<1>3. CASE Crash
  <2>1. UNCHANGED <<launched, started>>
    BY <1>3 DEF Crash
  <2>2. DEFINE R == {r \in Start : Began(r)}
  <2>3. \A r \in R : Outcome(r) = "busy" /\ Outcome(r)' = "other"
    BY <1>3 DEF Crash, Began, Working, Outcome, StartDone
  <2>4. \A r \in Start \ R : Outcome(r)' = Outcome(r)
    BY <1>3 DEF Crash, Outcome
  <2> QED
    BY <2>1, <2>3, <2>4, PromiseGiveUp
<1> QED
  BY <1>1, <1>2, <1>3, PromiseLoop, PromiseTask DEF Next

\* The executor implements DagLifecycle, for every graph, any number of
\* invocations and any combination of faults.
THEOREM PromiseKept == Spec => KeepsPromise
<1>1. TypeOK /\ StartInv /\ StartInv' /\ [Next]_vars
        => [Promise!Next]_(Promise!vars)
  BY PromiseStep
<1>2. Spec => Promise!Spec
  BY <1>1, PromiseInit, TypeCorrect, StartInvariant, PTL DEF Spec, Promise!Spec
<1> QED
  BY <1>2 DEF KeepsPromise

-----------------------------------------------------------------------------
(* One start and no stop, on a forest.                                      *)

\* No other invocation takes down what this one brings up.
Alone == Stop = {} /\ \A q, r \in Start : q = r

\* No node waits for two others (no join) ...
Forest == \A n \in Node : \A p, q \in Up(n) : p = q

\* ... and none waits for itself.
Acyclic == \A S \in SUBSET Node : S # {} => \E n \in S : Up(n) \cap S = {}

\* Behind a node that one other leads to, nothing is asked for twice.
Once(r) ==
  /\ \A n \in Node : launched[r][n] \in {0, 1}
  /\ \A n \in pending[r] : launched[r][n] = 0
  /\ \A n \in Node, k \in Launch : task[r][n][k] # "none" => k = 1
  /\ \A n \in Node : n \in pending[r] \/ launched[r][n] = 1 =>
       \A p \in Up(n) : launched[r][p] = 1 /\ running[r][p] = 0
  /\ pc[r] \in {"new", "claimed", "noop", "refused"} =>
       pending[r] = {} /\ \A n \in Node : launched[r][n] = 0

\* As long as nothing is rolled back, what a start call has answered is up, and what
\* was recorded of it is still to be committed.
Backing(r) ==
  /\ \A n \in started[r] : task[r][n][1] = "ready"
  /\ pc[r] \in Working \ {"rollback"} =>
       \A n \in Node :
         /\ task[r][n][1] \in {"replied", "health", "ready"} => container[n] = "running"
         /\ task[r][n][1] \in {"health", "ready"} => wset[r][n].cid = "set"

\* Once the instance is recorded as running, there is nothing left to do.
Settled ==
  instance = "running" =>
    /\ \A n \in Node : nodeRow[n].cid /\ container[n] = "running"
    /\ \A r \in Start : \/ pc[r] \in {"new", "noop"} /\ ~ waiting
                        \/ pc[r] = "running" /\ started[r] = Node

AloneInv == Settled /\ \A r \in Start : Once(r) /\ Backing(r)

\* The start loop asks for each node at most once.
LEMMA OnceLoop ==
  ASSUME TypeOK, StartInv, Forest, NEW r \in Start, Once(r), Claim(r) \/ StartLoop(r)
  PROVE  Once(r)'
<1> USE DEF rows, agent, loopv, taskv, stopv
<1>1. CASE Claim(r) \/ BeginNoop(r) \/ BeginRefused(r)
  BY <1>1 DEF Claim, BeginNoop, BeginRefused, TypeOK, Once
<1>2. CASE Begin(r)
  <2>1. /\ pending'[r] = Roots /\ pc'[r] = "top"
        /\ UNCHANGED <<running, launched, task>>
    BY <1>2 DEF Begin, TypeOK
  <2>2. \A n \in Node : launched[r][n] = 0
    BY <1>2 DEF Begin, Once
  <2>3. \A n \in Roots : n \in Node /\ Up(n) = {}
    BY DEF Roots
  <2> QED
    BY <2>1, <2>2, <2>3 DEF Once
<1>3. CASE \/ Break(r) \/ Proceed(r) \/ Succeed(r) \/ EndFill(r) \/ Wake(r) \/ Fail(r)
           \/ \E n \in Node : DrainRaised(r, n) \/ Remove(r, n) \/ RemoveFails(r, n)
  <2>1. UNCHANGED <<pending, running, launched, task>>
    BY <1>3 DEF Break, Proceed, Succeed, EndFill, Wake, Fail, DrainRaised, Remove, RemoveFails
  <2>2. pc[r] \notin {"new", "claimed", "noop", "refused"}
        /\ pc'[r] \notin {"new", "claimed", "noop", "refused"}
    BY <1>3 DEF Break, Proceed, Succeed, EndFill, Wake, Fail, DrainRaised, Remove, RemoveFails, TypeOK
  <2> QED
    BY <2>1, <2>2 DEF Once
<1>4. ASSUME NEW n \in Node, LaunchTask(r, n) PROVE Once(r)'
  <2>1. n \in pending[r] /\ launched[r][n] = 0 /\ pc'[r] = "fill"
    BY <1>4 DEF LaunchTask, Once
  <2>2. /\ pending'[r] = pending[r] \ {n}
        /\ \A m \in Node : /\ launched'[r][m] = IF m = n THEN 1 ELSE launched[r][m]
                           /\ running'[r][m] = IF m = n THEN 1 ELSE running[r][m]
        /\ \A m \in Node, k \in Launch : ~ (m = n /\ k = 1) => task'[r][m][k] = task[r][m][k]
    BY <1>4, <2>1 DEF LaunchTask, TypeOK
  <2>3. \A m \in Node : m \in pending'[r] \/ launched'[r][m] = 1 =>
          \A p \in Up(m) : launched'[r][p] = 1 /\ running'[r][p] = 0
    <3> SUFFICES ASSUME NEW m \in Node, m \in pending'[r] \/ launched'[r][m] = 1, NEW p \in Up(m)
                 PROVE  launched'[r][p] = 1 /\ running'[r][p] = 0
      OBVIOUS
    <3>1. m \in pending[r] \/ launched[r][m] = 1
      BY <2>1, <2>2
    <3>2. p \in Node /\ launched[r][p] = 1 /\ running[r][p] = 0
      BY <3>1 DEF Once, Up
    <3> QED
      BY <2>1, <2>2, <3>2
  <2>4. \A m \in Node : launched'[r][m] \in {0, 1}
    BY <2>2 DEF Once
  <2>5. \A m \in pending'[r] : launched'[r][m] = 0
    BY <2>2 DEF Once, TypeOK
  <2>6. \A m \in Node, k \in Launch : task'[r][m][k] # "none" => k = 1
    BY <2>2 DEF Once
  <2> QED
    BY <2>1, <2>3, <2>4, <2>5, <2>6 DEF Once
<1>5. ASSUME NEW n \in Node, Drain(r, n) PROVE Once(r)'
  <2>1. n \in todo[r] /\ pc[r] = "drain" /\ TasksKnown(r) /\ InOrder(r)
    BY <1>5 DEF Drain, StartInv
  <2>2. n \in Awaited(r) /\ running[r][n] # 0 /\ launched[r][n] = 1
    <3>1. n \in Awaited(r)
      BY <2>1 DEF TasksKnown, Finished
    <3> QED
      BY <2>1, <3>1 DEF InOrder, Awaited, Once
  <2>3. /\ pending'[r] \subseteq pending[r] \cup Enabled(r, n)
        /\ \A m \in Node : running'[r][m] = IF m = n THEN 0 ELSE running[r][m]
        /\ UNCHANGED <<launched, task>>
        /\ pc'[r] \notin {"new", "claimed", "noop", "refused"}
    BY <1>5 DEF Drain, TypeOK
  <2>4. ASSUME NEW d \in Enabled(r, n)
        PROVE  d \in Node /\ launched[r][d] = 0 /\ \A p \in Up(d) : p = n
    <3>1. d \in Node /\ n \in Up(d)
      BY DEF Enabled, Down, Up
    <3>2. launched[r][d] = 0
      BY <2>2, <3>1 DEF Once
    <3> QED
      BY <3>1, <3>2 DEF Forest
  <2>5. \A m \in Node : m \in pending'[r] \/ launched'[r][m] = 1 =>
          \A p \in Up(m) : launched'[r][p] = 1 /\ running'[r][p] = 0
    <3> SUFFICES ASSUME NEW m \in Node, m \in pending'[r] \/ launched'[r][m] = 1, NEW p \in Up(m)
                 PROVE  launched'[r][p] = 1 /\ running'[r][p] = 0
      OBVIOUS
    <3>1. CASE m \in pending[r] \/ launched[r][m] = 1
      <4>1. p \in Node /\ launched[r][p] = 1 /\ running[r][p] = 0
        BY <3>1 DEF Once, Up
      <4> QED
        BY <2>3, <4>1
    <3>2. CASE m \in Enabled(r, n)
      BY <2>2, <2>3, <2>4, <3>2
    <3> QED
      BY <2>3, <3>1, <3>2
  <2>6. \A m \in pending'[r] : launched'[r][m] = 0
    BY <2>3, <2>4 DEF Once
  <2> QED
    BY <2>3, <2>5, <2>6 DEF Once
<1> QED
  BY <1>1, <1>2, <1>3, <1>4, <1>5 DEF StartLoop

\* Its tasks, a crash and the others do not ask for anything.
LEMMA OnceOthers ==
  ASSUME TypeOK, StartInv, NEW r \in Start, Once(r),
         \/ \E n \in Node, k \in Launch : TaskStep(r, n, k)
         \/ Crash \/ NetworkReady \/ UNCHANGED vars
         \/ \E n \in Node : LateStart(n)
  PROVE  Once(r)'
<1> USE DEF rows, agent, loopv, taskv, startv, stopv
<1>1. ASSUME NEW n \in Node, NEW k \in Launch, TaskStep(r, n, k) PROVE Once(r)'
  <2>1. /\ UNCHANGED <<pc, pending, running, launched>>
        /\ \A m \in Node, j \in Launch : task'[r][m][j] # "none" => task[r][m][j] # "none"
    BY <1>1, TaskEffect DEF InFlight
  <2> QED
    BY <2>1 DEF Once
<1>2. CASE Crash
  <2>1. UNCHANGED <<pending, running, launched>> /\ pc'[r] \in {pc[r], "crashed"}
    BY <1>2 DEF Crash
  <2>2. \A m \in Node, j \in Launch : task'[r][m][j] # "none" => task[r][m][j] # "none"
    BY <1>2 DEF Crash, InFlight
  <2> QED
    BY <2>1, <2>2 DEF Once
<1>3. CASE NetworkReady \/ UNCHANGED vars \/ \E n \in Node : LateStart(n)
  BY <1>3 DEF NetworkReady, LateStart, vars, Once
<1> QED
  BY <1>1, <1>2, <1>3

\* There is a first launch.
LEMMA OneIsLaunch == 1 \in Launch
  BY BoundAssumption DEF Launch

\* The start loop takes nothing down before it rolls back.
LEMMA BackingLoop ==
  ASSUME TypeOK, StartInv, NEW r \in Start, Once(r), Backing(r), Claim(r) \/ StartLoop(r)
  PROVE  Backing(r)'
<1> USE OneIsLaunch DEF rows, agent, loopv, taskv, stopv
<1>1. CASE Claim(r) \/ BeginNoop(r) \/ BeginRefused(r)
  BY <1>1 DEF Claim, BeginNoop, BeginRefused, TypeOK, Backing, Working
<1>2. CASE Begin(r)
  <2>1. UNCHANGED <<task, started>> /\ \A n \in Node : task[r][n][1] = "none"
    <3>1. \A n \in Node : launched[r][n] = 0
      BY <1>2 DEF Begin, Once
    <3> QED
      BY <1>2, <3>1 DEF Begin, StartInv, TasksKnown
  <2> QED
    BY <2>1 DEF Backing
<1>3. CASE Break(r) \/ Fail(r) \/ \E n \in Node : DrainRaised(r, n) \/ Remove(r, n) \/ RemoveFails(r, n)
  <2>1. UNCHANGED <<task, started>> /\ pc'[r] \notin Working \ {"rollback"}
    BY <1>3 DEF Break, Fail, DrainRaised, Remove, RemoveFails, TypeOK, Working
  <2> QED
    BY <2>1 DEF Backing
<1>4. CASE Proceed(r) \/ EndFill(r) \/ Wake(r)
  <2>1. UNCHANGED <<task, started, container, wset>> /\ pc[r] \in Working \ {"rollback"}
    BY <1>4 DEF Proceed, EndFill, Wake, Working
  <2> QED
    BY <2>1 DEF Backing
<1>5. CASE Succeed(r)
  <2>1. UNCHANGED <<task, started>> /\ pc'[r] \notin Working
    BY <1>5 DEF Succeed, TypeOK, Working
  <2> QED
    BY <2>1 DEF Backing
<1>6. ASSUME NEW n \in Node, LaunchTask(r, n) PROVE Backing(r)'
  <2>1. launched[r][n] = 0 /\ pc[r] = "fill"
    BY <1>6 DEF LaunchTask, Once
  <2>2. /\ UNCHANGED <<container, started, pc>>
        /\ \A m \in Node : task'[r][m][1] = IF m = n THEN "calling" ELSE task[r][m][1]
    BY <1>6, <2>1 DEF LaunchTask, TypeOK
  <2>3. n \notin started[r]
    <3>1. task[r][n][1] = "none"
      BY <2>1 DEF StartInv, TasksKnown
    <3> QED
      BY <3>1 DEF Backing
  <2>4. \A m \in Node \ {n} : wset'[r][m] = wset[r][m]
    BY <1>6, <2>1 DEF LaunchTask, Assign, TypeOK, Session, Working
  <2>5. \A m \in started[r] : m \in Node
    BY DEF TypeOK
  <2> QED
    BY <2>1, <2>2, <2>3, <2>4, <2>5 DEF Backing, Working
<1>7. ASSUME NEW n \in Node, Drain(r, n) PROVE Backing(r)'
  <2>1. UNCHANGED <<task, started, container, wset>> /\ pc[r] \in Working \ {"rollback"}
    BY <1>7 DEF Drain, Working
  <2> QED
    BY <2>1 DEF Backing
<1> QED
  BY <1>1, <1>2, <1>3, <1>4, <1>5, <1>6, <1>7 DEF StartLoop

\* What a task does to its container and to what is recorded of it.
LEMMA TaskBacking ==
  ASSUME TypeOK, NEW r \in Start, NEW n \in Node, Backing(r), TaskStep(r, n, 1)
  PROVE  /\ \A m \in Node \ {n} : container'[m] = container[m]
         /\ pc[r] \in Working \ {"rollback"} =>
              /\ \A m \in Node \ {n} : wset'[r][m] = wset[r][m]
              /\ task'[r][n][1] \in {"replied", "health", "ready"} => container'[n] = "running"
              /\ task'[r][n][1] \in {"health", "ready"} => wset'[r][n].cid = "set"
         /\ started'[r] # started[r] => task'[r][n][1] = "ready"
<1> USE OneIsLaunch DEF rows, agent, loopv, stopv, Quiet, Step, Session
<1>1. r \in Session /\ wset[r] \in [Node -> WriteSet]
  BY DEF TypeOK
<1>2. CASE AgentStarts(r, n, 1)
  BY <1>2 DEF AgentStarts, TypeOK
<1>3. CASE Recorded(r, n, 1)
  <2>1. UNCHANGED <<container, started>> /\ task[r][n][1] = "replied" /\ task'[r][n][1] = "health"
    BY <1>3 DEF Recorded, TypeOK
  <2>2. pc[r] \in Working => /\ \A m \in Node \ {n} : wset'[r][m] = wset[r][m]
                             /\ wset'[r][n].cid = "set"
    BY <1>3, <1>1 DEF Recorded, Assign, TypeOK
  <2> QED
    BY <2>1, <2>2 DEF Backing
<1>4. CASE AgentRefuses(r, n, 1) \/ CallTimesOut(r, n, 1)
  <2>1. UNCHANGED started /\ task'[r][n][1] = "failed"
        /\ \A m \in Node \ {n} : container'[m] = container[m]
    BY <1>4 DEF AgentRefuses, CallTimesOut, TypeOK
  <2>2. \A m \in Node \ {n} : wset'[r][m] = wset[r][m]
    BY <1>4, <1>1 DEF AgentRefuses, CallTimesOut, Assign, TypeOK
  <2> QED
    BY <2>1, <2>2
<1>5. CASE Healthy(r, n, 1)
  <2>1. UNCHANGED container /\ task[r][n][1] = "health" /\ task'[r][n][1] = "ready"
        /\ container[n] = "running"
    BY <1>5 DEF Healthy, TypeOK
  <2>2. pc[r] \in Working => /\ \A m \in Node \ {n} : wset'[r][m] = wset[r][m]
                             /\ wset'[r][n].cid = wset[r][n].cid
    BY <1>5, <1>1 DEF Healthy, Assign, TypeOK
  <2> QED
    BY <2>1, <2>2 DEF Backing
<1>6. CASE Unhealthy(r, n, 1)
  <2>1. UNCHANGED <<container, started>> /\ task'[r][n][1] = "stopping"
    BY <1>6 DEF Unhealthy, TypeOK
  <2>2. \A m \in Node \ {n} : wset'[r][m] = wset[r][m]
    BY <1>6, <1>1 DEF Unhealthy, Assign, TypeOK
  <2> QED
    BY <2>1, <2>2
<1>7. CASE Halted(r, n, 1)
  BY <1>7 DEF Halted, TypeOK
<1>8. CASE Raises(r, n, 1)
  BY <1>8 DEF Raises, TypeOK
<1> QED
  BY <1>2, <1>3, <1>4, <1>5, <1>6, <1>7, <1>8 DEF TaskStep

\* Neither do its tasks, a crash or an agent that is late.
LEMMA BackingOthers ==
  ASSUME TypeOK, StartInv, NEW r \in Start, Once(r), Backing(r),
         \/ \E n \in Node, k \in Launch : TaskStep(r, n, k)
         \/ Crash \/ NetworkReady \/ UNCHANGED vars
         \/ \E n \in Node : LateStart(n)
  PROVE  Backing(r)'
<1> USE OneIsLaunch DEF rows, agent, loopv, taskv, startv, stopv
<1>1. ASSUME NEW n \in Node, NEW k \in Launch, TaskStep(r, n, k) PROVE Backing(r)'
  <2>1. /\ UNCHANGED <<pc, pending, running, launched>>
        /\ task[r][n][k] \in InFlight
        /\ \A m \in Node, j \in Launch : ~ (m = n /\ j = k) => task'[r][m][j] = task[r][m][j]
        /\ started'[r] \in {started[r], started[r] \cup {n}}
    BY <1>1, TaskEffect
  <2>2. k = 1
    BY <2>1 DEF Once, InFlight
  <2>3. /\ \A m \in Node \ {n} : container'[m] = container[m]
        /\ pc[r] \in Working \ {"rollback"} =>
             /\ \A m \in Node \ {n} : wset'[r][m] = wset[r][m]
             /\ task'[r][n][1] \in {"replied", "health", "ready"} => container'[n] = "running"
             /\ task'[r][n][1] \in {"health", "ready"} => wset'[r][n].cid = "set"
        /\ started'[r] # started[r] => task'[r][n][1] = "ready"
    BY <1>1, <2>2, TaskBacking
  <2>4. n \notin started[r]
    BY <2>1, <2>2 DEF Backing, InFlight
  <2>5. \A m \in started'[r] : task'[r][m][1] = "ready"
    <3> SUFFICES ASSUME NEW m \in started'[r] PROVE task'[r][m][1] = "ready"
      OBVIOUS
    <3>1. CASE m = n
      BY <2>3, <2>4, <3>1
    <3>2. CASE m # n
      <4>1. m \in started[r] /\ m \in Node
        BY <2>1, <3>2 DEF TypeOK
      <4> QED
        BY <2>1, <3>2, <4>1 DEF Backing
    <3> QED
      BY <3>1, <3>2
  <2>6. \A m \in Node \ {n} : task'[r][m][1] = task[r][m][1]
    BY <2>1
  <2> QED
    BY <2>1, <2>3, <2>5, <2>6 DEF Backing
<1>2. CASE Crash
  <2>1. UNCHANGED started /\ pc'[r] \notin Working
    BY <1>2 DEF Crash, Began, Working
  <2>2. \A m \in Node : task[r][m][1] = "ready" => task'[r][m][1] = "ready"
    BY <1>2 DEF Crash, InFlight
  <2> QED
    BY <2>1, <2>2 DEF Backing, TypeOK
<1>3. CASE NetworkReady \/ UNCHANGED vars
  BY <1>3 DEF NetworkReady, vars, Backing
<1>4. ASSUME NEW n \in Node, LateStart(n) PROVE Backing(r)'
  <2>1. UNCHANGED <<pc, task, started, wset>>
        /\ \A m \in Node : container'[m] \in {container[m], "running"}
    BY <1>4 DEF LateStart, TypeOK
  <2> QED
    BY <2>1 DEF Backing
<1> QED
  BY <1>1, <1>2, <1>3, <1>4

\* With nothing started there is nothing to do.
LEMMA NothingInFlight ==
  ASSUME TypeOK, StartInv, NEW r \in Start, Once(r), Backing(r),
         \/ pc[r] \in {"new", "claimed", "noop", "refused"}
         \/ pc[r] = "running" /\ started[r] = Node
  PROVE  \A n \in Node, k \in Launch : task[r][n][k] \notin InFlight
<1> SUFFICES ASSUME NEW n \in Node, NEW k \in Launch PROVE task[r][n][k] \notin InFlight
  OBVIOUS
<1>1. CASE pc[r] \in {"new", "claimed", "noop", "refused"}
  <2>1. launched[r][n] = 0
    BY <1>1 DEF Once
  <2>2. task[r][n][k] = "none"
    BY <2>1 DEF StartInv, TasksKnown
  <2> QED
    BY <2>2 DEF InFlight
<1>2. CASE pc[r] = "running" /\ started[r] = Node
  <2>1. task[r][n][1] = "ready"
    BY <1>2 DEF Backing
  <2>2. CASE k = 1
    BY <2>1, <2>2 DEF InFlight
  <2>3. CASE k # 1
    BY <2>3 DEF Once, InFlight
  <2> QED
    BY <2>2, <2>3
<1> QED
  BY <1>1, <1>2

\* The start that succeeds commits what backs the instance.
LEMMA SettledBySuccess ==
  ASSUME TypeOK, StartInv, StartInv', TypeOK', Alone, Acyclic, NEW r \in Start, Backing(r), Succeed(r)
  PROVE  Settled'
<1> USE DEF rows, agent
<1>1. pc'[r] = "running" /\ pc[r] = "top" /\ UNCHANGED <<started, container>>
  BY DEF Succeed, taskv, TypeOK
<1>2. started'[r] = Node
  <2>1. Frontier(r)'
    BY DEF StartInv
  <2>2. \A n \in Node \ started'[r] : ~ (Up(n) \subseteq started'[r])
    BY <1>1, <2>1 DEF Frontier
  <2> SUFFICES ASSUME Node \ started'[r] # {} PROVE FALSE
    BY DEF TypeOK
  <2>3. PICK n \in Node \ started'[r] : Up(n) \cap (Node \ started'[r]) = {}
    BY DEF Acyclic
  <2>4. Up(n) \subseteq started'[r]
    BY <2>3 DEF Up
  <2> QED
    BY <2>2, <2>3, <2>4
<1>3. \A n \in Node : task[r][n][1] = "ready"
  BY <1>1, <1>2 DEF Backing
<1>4. \A n \in Node : container[n] = "running" /\ wset[r][n].cid = "set"
  BY <1>1, <1>3 DEF Backing, Working
<1>5. \A n \in Node : nodeRow'[n].cid
  BY <1>4 DEF Succeed, Commit
<1>6. \A q \in Start : q = r
  BY DEF Alone
<1> QED
  BY <1>1, <1>2, <1>4, <1>5, <1>6 DEF Settled

\* Nothing undoes it.
LEMMA SettledStep ==
  ASSUME TypeOK, TypeOK', StartInv, StartInv', Alone, Acyclic, AloneInv, [Next]_vars
  PROVE  Settled'
<1> USE DEF rows, agent, loopv, taskv, startv, stopv
<1>1. CASE instance # "running" \/ instance' # "running"
  <2> SUFFICES ASSUME instance' = "running" PROVE Settled'
    BY DEF Settled
  <2>1. instance # "running"
    BY <1>1
  <2>2. ASSUME NEW r \in Start, StartLoop(r) PROVE Succeed(r)
    <3>1. \/ Succeed(r) \/ Fail(r) \/ UNCHANGED instance
      BY <2>2 DEF StartLoop, Begin, BeginNoop, BeginRefused, Break, Proceed, LaunchTask,
         EndFill, Wake, Drain, DrainRaised, Remove, RemoveFails
    <3> QED
      BY <2>1, <3>1 DEF Fail, Commit
  <2>3. ASSUME NEW r \in Start, NEW n \in Node, NEW k \in Launch, TaskStep(r, n, k)
        PROVE  UNCHANGED instance
    BY <2>3 DEF TaskStep, AgentStarts, Recorded, AgentRefuses, CallTimesOut,
       Healthy, Unhealthy, Halted, Raises, Quiet
  <2>4. \A r \in Start : ~ Claim(r)
    BY DEF Claim
  <2>5. (NetworkReady \/ Crash \/ UNCHANGED vars \/ \E n \in Node : LateStart(n))
          => UNCHANGED instance
    BY DEF NetworkReady, Crash, LateStart, vars
  <2>6. PICK r \in Start : StartLoop(r)
    BY <2>1, <2>3, <2>4, <2>5 DEF Next, Alone
  <2> QED
    BY <2>2, <2>6, SettledBySuccess DEF AloneInv
<1>2. CASE instance = "running" /\ instance' = "running"
  <2>1. /\ \A n \in Node : nodeRow[n].cid /\ container[n] = "running"
        /\ \A r \in Start : \/ pc[r] \in {"new", "noop"} /\ ~ waiting
                            \/ pc[r] = "running" /\ started[r] = Node
    BY <1>2 DEF AloneInv, Settled
  <2>2. ASSUME NEW r \in Start, Claim(r) \/ StartLoop(r) PROVE BeginNoop(r)
    <3>1. ~ Claim(r) /\ ~ Begin(r) /\ pc[r] \notin Working
      BY <1>2, <2>1 DEF Claim, Begin, AlreadyUp, Working
    <3>2. ~ BeginRefused(r)
      BY <2>1 DEF BeginRefused
    <3>3. BeginNoop(r) \/ pc[r] \in Working
      BY <2>2, <3>1, <3>2 DEF StartLoop, Break, Proceed, Succeed, LaunchTask, EndFill, Wake, Drain,
         DrainRaised, Remove, RemoveFails, Fail, Working
    <3> QED
      BY <3>1, <3>3
  <2>3. ASSUME NEW r \in Start, BeginNoop(r) PROVE Settled'
    <3>1. UNCHANGED <<rows, container, started>> /\ pc' = [pc EXCEPT ![r] = "noop"] /\ ~ waiting
      BY <2>3 DEF BeginNoop
    <3> QED
      BY <2>1, <3>1 DEF Settled, TypeOK
  <2>4. ASSUME NEW r \in Start, NEW n \in Node, NEW k \in Launch, TaskStep(r, n, k)
        PROVE  FALSE
    <3>1. task[r][n][k] \in InFlight
      BY <2>4, TaskEffect
    <3>2. task[r][n][k] \notin InFlight
      BY <2>1, NothingInFlight DEF AloneInv
    <3> QED
      BY <3>1, <3>2
  <2>5. ASSUME NEW n \in Node, LateStart(n) PROVE Settled'
    BY <2>1, <2>5 DEF LateStart, Settled, TypeOK
  <2>6. ~ Crash
    BY <2>1 DEF Crash, Began, Working, Alone
  <2>7. CASE NetworkReady \/ UNCHANGED vars
    BY <2>1, <2>7 DEF NetworkReady, vars, Settled
  <2> QED
    BY <2>2, <2>3, <2>4, <2>5, <2>6, <2>7 DEF Next, Alone
<1> QED
  BY <1>1, <1>2

\* What is kept by every step of a single start.
LEMMA AloneStep ==
  ASSUME TypeOK, TypeOK', StartInv, StartInv', Alone, Forest, Acyclic, AloneInv, [Next]_vars
  PROVE  AloneInv'
<1>1. Settled'
  BY SettledStep
<1>2. ASSUME NEW r \in Start PROVE Once(r)' /\ Backing(r)'
  <2>1. Once(r) /\ Backing(r)
    BY DEF AloneInv
  <2>2. \/ Claim(r) \/ StartLoop(r)
        \/ \E n \in Node, k \in Launch : TaskStep(r, n, k)
        \/ Crash \/ NetworkReady \/ UNCHANGED vars
        \/ \E n \in Node : LateStart(n)
    BY DEF Next, Alone
  <2> QED
    BY <2>1, <2>2, OnceLoop, OnceOthers, BackingLoop, BackingOthers
<1> QED
  BY <1>1, <1>2 DEF AloneInv

\* It holds before the start.
LEMMA AloneInit == Init => AloneInv
<1> SUFFICES ASSUME Init PROVE AloneInv
  OBVIOUS
<1>1. Settled
  BY DEF Init, Settled
<1>2. ASSUME NEW r \in Start PROVE Once(r) /\ Backing(r)
  BY OneIsLaunch DEF Init, Once, Backing, Working
<1> QED
  BY <1>1, <1>2 DEF AloneInv

\* An instance recorded as running has a recorded container up on every node: for one
\* start on any forest, whatever times out, is raised or crashes meanwhile.
THEOREM RunningBacked ==
  ASSUME Alone, Forest, Acyclic
  PROVE  Spec => []RunningIsBacked
<1>1. AloneInv => RunningIsBacked
  BY DEF AloneInv, Settled, RunningIsBacked
<1>2. TypeOK /\ TypeOK' /\ StartInv /\ StartInv' /\ AloneInv /\ [Next]_vars => AloneInv'
  BY AloneStep
<1> QED
  BY <1>1, <1>2, AloneInit, TypeCorrect, StartInvariant, PTL DEF Spec
=============================================================================
