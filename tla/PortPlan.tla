-------------------------------- MODULE PortPlan --------------------------------
(***************************************************************************)
(* The host ports of one worker machine: who gets which when an instance   *)
(* is created (api/instances.py, services/auto_port_allocator.py), and     *)
(* whether it is still free when the instance is started (the preflight of *)
(* api/instances.py, services/port_plan.py, node_agent/docker_handler.py). *)
(*                                                                         *)
(* There is no table of reservations.  A port counts as taken because of a *)
(* row, because of the label of a container that exists, or because        *)
(* somebody listens on it; each is looked at in a step of its own, and the *)
(* rows as the request's transaction first saw them.  Containers that no   *)
(* row names are removed, by a preflight if they have stopped and by the   *)
(* administrator in any case.                                              *)
(*                                                                         *)
(* An instance has one node and needs one port of the machine.  How a      *)
(* start goes on between the agent's answer and the commit is              *)
(* DagExecutor's.                                                          *)
(***************************************************************************)
EXTENDS Naturals

CONSTANTS
  Instances,
  Callers,       \* requests and jobs in flight: a bound
  Pool,          \* the range of ports that are allocated automatically
  Default,       \* the default of the template's port
  Foreign,       \* ports some other process listens on
  MaxStarts,     \* starts: a bound
  Faults         \* "agent": calls that fail; "crash": of the backend; "rm": by hand

ASSUME PoolAssumption == Pool \subseteq Nat /\ Default \in Nat /\ Foreign \subseteq Nat
ASSUME StartsAssumption == MaxStarts \in Nat

VARIABLES
  row,           \* instance -> status, and whether its node names a container
  port,          \* instance -> its port, for as long as a container may have it
  container,     \* instance -> its container on the machine
  call,          \* caller -> what it is doing
  starts,        \* starts so far
  unseen,        \* instance -> those its container's start knew nothing of
  avoided        \* instance -> those whose ports its allocation had to avoid

history == <<unseen, avoided>>
vars == <<row, port, container, call, starts, history>>

Fresh == [status |-> "none", named |-> FALSE]
Nobody == "none"
Idle == [op |-> "idle", inst |-> Nobody]

Init ==
  /\ row = [i \in Instances |-> Fresh]
  /\ port = [i \in Instances |-> Default]
  /\ container = [i \in Instances |-> "absent"]
  /\ call = [h \in Callers |-> Idle]
  /\ starts = 0
  /\ unseen = [i \in Instances |-> Instances]
  /\ avoided = [i \in Instances |-> {}]

Startable == {"pending", "stopped", "failed"}
Unfinished == {i \in Instances : row[i].status \in {"pending", "starting", "running"}}
Exists(i) == row[i].status \notin {"none", "gone"}

\* Between the flush of the container's name and the commit the row is locked.
Held(i) == \E h \in Callers : call[h].op = "flushed" /\ call[h].inst = i

Becomes(h, next) == call' = [call EXCEPT ![h] = next]
Fails == "agent" \in Faults

(***************************************************************************)
(* The agent's view.  It answers with what Docker shows it: a container    *)
(* that cannot be read is passed over in a list, is not there for a status *)
(* and is gone for a removal.  What listens is looked at for itself.       *)
(***************************************************************************)
Present == {i \in Instances : container[i] # "absent"}
Up == {i \in Instances : container[i] = "running"}
Shown == IF Fails THEN SUBSET Present ELSE {Present}

\* Ports by the labels of containers, stopped ones included.
Declared(shown, p, own) == {i \in shown \ own : port[i] = p}

Listening == Foreign \cup {port[i] : i \in Up}

Occupied(shown) == {port[i] : i \in shown} \cup Listening

(***************************************************************************)
(* Creation: from a request, with or without a start of its own, or from a *)
(* routing result.                                                         *)
(***************************************************************************)
Excluded_bug == {port[i] : i \in {j \in Instances : row[j].status \in {"starting", "running"}}}

\* _allocated_ports_for_node: also of instances that have not been started.
Excluded == {port[i] : i \in Unfinished}

Lowest(ports) == CHOOSE p \in ports : \A q \in ports : p <= q

\* auto_allocate_ports: the agent's lowest free port, or without the agent the lowest
\* of the range; the default when the range is used up.
Allocated(free) == IF free = {} THEN Default ELSE Lowest(free)

CreateReads(h, i) ==
  /\ call[h] = Idle
  /\ row[i] = Fresh
  /\ \A g \in Callers : call[g].inst # i
  /\ \E taken \in {Occupied(shown) : shown \in Shown} \cup (IF Fails THEN {{}} ELSE {}) :
       LET free == Pool \ (Excluded \cup taken)
       IN  Becomes(h, [op |-> "create", inst |-> i, port |-> Allocated(free),
                       avoids |-> IF free = {} THEN {} ELSE Unfinished])
  /\ UNCHANGED <<row, port, container, starts, history>>

\* A preflight begins: what it asks for, whether its own container's name is known,
\* and the rows its transaction sees from here on.
Checking(i, target, rows) ==
  [op |-> "ask", inst |-> i, target |-> target, own |-> rows[i].named, seen |-> rows,
   doomed |-> {}, removed |-> FALSE]

\* The port is in the table; a preflight that follows asks for the template's default
\* and not for it.
CreateCommits(h) ==
  /\ call[h].op = "create"
  /\ LET i == call[h].inst
         rows == [row EXCEPT ![i].status = "pending"]
     IN  /\ row' = rows
         /\ port' = [port EXCEPT ![i] = call[h].port]
         /\ avoided' = [avoided EXCEPT ![i] = call[h].avoids]
         /\ \/ Becomes(h, Idle) /\ UNCHANGED starts
            \/ /\ starts < MaxStarts
               /\ starts' = starts + 1
               /\ Becomes(h, Checking(i, Default, rows))
  /\ UNCHANGED <<container, unseen>>

(***************************************************************************)
(* _preflight_instance_plan.                                               *)
(***************************************************************************)
\* start_instance, the batches and the benchmark.
StartReads(h, i) ==
  /\ call[h] = Idle
  /\ row[i].status \in Startable
  /\ starts < MaxStarts
  /\ starts' = starts + 1
  /\ Becomes(h, Checking(i, port[i], row))
  /\ UNCHANGED <<row, port, container, history>>

Conflicting_bug(c) ==
  {j \in Instances \ {c.inst} : c.seen[j].status = "running" /\ port[j] = c.target}

\* find_running_port_conflict_records
Conflicting(c) ==
  {j \in Instances \ {c.inst} : c.seen[j].status \in {"running", "starting"} /\ port[j] = c.target}

\* What a check takes notice of, if it is about the right port: the containers that
\* are shown or up, and claims of instances that have none.
Noticed(c, shown) ==
  IF c.target # port[c.inst] THEN {}
  ELSE shown \cup Up
         \cup {j \in Instances : c.seen[j].status = "starting" /\ ~ c.seen[j].named}

ToRecords(h, shown, ok) ==
  LET c == call[h]
  IN  Becomes(h, [op |-> "records", inst |-> c.inst, ok |-> ok, seen |-> c.seen,
                  left |-> Conflicting(c), stale |-> c.inst,
                  unseen |-> Instances \ Noticed(c, shown)])

\* The agent's preflight_ports; the names in its answer that no row has are looked at.
Ask(h) ==
  /\ call[h].op = "ask"
  /\ \E shown \in Shown :
       LET c == call[h]
           owners == Declared(shown, c.target, IF c.own THEN {c.inst} ELSE {})
           orphans == {j \in owners : ~ c.seen[j].named}
       IN  \/ /\ owners = {} /\ c.target \notin Listening
              /\ ToRecords(h, shown, TRUE)
           \/ /\ owners # {} \/ c.target \in Listening
              /\ c.removed \/ orphans = {}
              /\ ToRecords(h, shown, FALSE)
           \/ /\ ~ c.removed /\ orphans # {}
              /\ Becomes(h, [c EXCEPT !.op = "inspect", !.doomed = orphans])
  /\ UNCHANGED <<row, port, container, starts, history>>

\* _cleanup_stopped_orphan_port_conflicts: of these, the stopped ones.
Inspect(h) ==
  /\ call[h].op = "inspect"
  /\ LET stopped == {j \in call[h].doomed : container[j] = "exited"}
     IN  IF stopped = {} THEN ToRecords(h, Present, FALSE)
         ELSE Becomes(h, [call[h] EXCEPT !.op = "remove", !.doomed = stopped])
  /\ UNCHANGED <<row, port, container, starts, history>>

AskFails(h) ==
  /\ Fails
  /\ call[h].op \in {"ask", "inspect"}
  /\ ToRecords(h, Present, FALSE)
  /\ UNCHANGED <<row, port, container, starts, history>>

\* A container is removed, or stays although the agent may say that it is gone.
Removed(i) == container' = [container EXCEPT ![i] = "absent"]
Stays == Fails /\ UNCHANGED container
Stopped(i) == container' = [container EXCEPT ![i] = IF @ = "running" THEN "exited" ELSE @]

\* By name, whatever has become of the container; then the agent is asked again.
RemoveOrphan(h) ==
  /\ call[h].op = "remove"
  /\ \E j \in call[h].doomed, ok \in BOOLEAN :
       LET c == [call[h] EXCEPT !.doomed = @ \ {j}, !.removed = @ \/ ok]
       IN  /\ (ok /\ Removed(j)) \/ Stays
           /\ IF c.doomed # {} THEN Becomes(h, c)
              ELSE IF c.removed THEN Becomes(h, [c EXCEPT !.op = "ask"])
              ELSE ToRecords(h, Present, FALSE)
  /\ UNCHANGED <<row, port, starts, history>>

\* The instances recorded as running or starting on the port, one after the other.
\* If the agent does not find the container that a row names, the row is stale.
Record(h) ==
  /\ call[h].op = "records"
  /\ \E j \in call[h].left :
       LET c == [call[h] EXCEPT !.left = @ \ {j}]
           named == c.seen[j].named
       IN  \/ /\ ~ named \/ container[j] # "absent" \/ Fails
              /\ Becomes(h, [c EXCEPT !.ok = FALSE])
           \/ /\ named /\ (container[j] = "absent" \/ Fails)
              /\ Becomes(h, [c EXCEPT !.op = "stale", !.stale = j])
  /\ UNCHANGED <<row, port, container, starts, history>>

\* reconcile_stale_running_node_independent: a session of its own, which looks whether
\* the rows exist and not what they say by now.
Reconcile(h) ==
  /\ call[h].op = "stale"
  /\ LET j == call[h].stale
     IN  /\ ~ Held(j)
         /\ row' = [row EXCEPT ![j] =
              IF Exists(j) THEN [status |-> "stopped", named |-> FALSE] ELSE @]
         /\ Becomes(h, [call[h] EXCEPT !.op = "records", !.ok = @ /\ Exists(j)])
  /\ UNCHANGED <<port, container, starts, history>>

Calling(i, unknown) == [op |-> "calling", inst |-> i, unseen |-> unknown]

\* 400: nothing of the request is kept but what Reconcile has written.
Refused(h) ==
  /\ call[h].op = "records"
  /\ call[h].left = {} /\ ~ call[h].ok
  /\ Becomes(h, Idle)
  /\ UNCHANGED <<row, port, container, starts, history>>

\* execute_dag_start, on the status the request has read.
Granted(h) ==
  /\ call[h].op = "records"
  /\ call[h].left = {} /\ call[h].ok
  /\ Becomes(h, Calling(call[h].inst, call[h].unseen))
  /\ UNCHANGED <<row, port, container, starts, history>>

\* The benchmark writes STARTING over whatever the row says, and commits.
Claimed(h) ==
  /\ call[h].op = "records"
  /\ call[h].left = {} /\ call[h].ok
  /\ LET i == call[h].inst
     IN  /\ Exists(i) /\ ~ Held(i)
         /\ Becomes(h, Calling(i, call[h].unseen))
         /\ row' = [row EXCEPT ![i].status = "starting"]
  /\ UNCHANGED <<port, container, starts, history>>

\* A scheduled start, or network-ready: no preflight.
StartUnchecked(h, i) ==
  /\ call[h] = Idle
  /\ row[i].status \in Startable
  /\ starts < MaxStarts
  /\ starts' = starts + 1
  /\ Becomes(h, Calling(i, Instances))
  /\ UNCHANGED <<row, port, container, history>>

(***************************************************************************)
(* The start, the stop and the deletion, as far as ports are concerned.    *)
(***************************************************************************)
\* start_container looks at no port; a running container is left as it is.
AgentStarts(h) ==
  /\ call[h].op = "calling"
  /\ LET i == call[h].inst
     IN  /\ ~ Held(i)
         /\ container' = [container EXCEPT ![i] = "running"]
         /\ unseen' = [unseen EXCEPT ![i] = IF container[i] = "running" THEN @ ELSE call[h].unseen]
         /\ Becomes(h, [op |-> "flushed", inst |-> i])
  /\ UNCHANGED <<row, port, starts, avoided>>

Recorded(i, status, named) ==
  row' = [row EXCEPT ![i] = IF Exists(i) THEN [status |-> status, named |-> named] ELSE @]

Commits(h) ==
  /\ call[h].op = "flushed"
  /\ Recorded(call[h].inst, "running", TRUE)
  /\ Becomes(h, Idle)
  /\ UNCHANGED <<port, container, starts, history>>

\* Not healthy: the rollback removes the container, or does not get that far.
RollsBack(h) ==
  /\ call[h].op = "flushed"
  /\ LET i == call[h].inst
     IN  \/ Removed(i) /\ Recorded(i, "failed", FALSE)
         \/ /\ Stays \/ (Fails /\ Stopped(i))
            /\ \E named \in BOOLEAN : Recorded(i, "failed", named)
  /\ Becomes(h, Idle)
  /\ UNCHANGED <<port, starts, history>>

\* The agent refuses, and a container may have been created and not started; or the
\* call is given up and the agent goes on.  The rollback removes what it finds.
StartFails(h) ==
  /\ call[h].op = "calling"
  /\ LET i == call[h].inst
     IN  /\ ~ Held(i)
         /\ \/ /\ Removed(i)
               /\ Recorded(i, "failed", FALSE)
               /\ UNCHANGED unseen
            \/ /\ Fails
               /\ \E left \in {"exited", "running"} : container' = [container EXCEPT ![i] = left]
               /\ unseen' = [unseen EXCEPT ![i] = call[h].unseen]
               /\ \E named \in {row[i].named, FALSE} : Recorded(i, "failed", named)
  /\ Becomes(h, Idle)
  /\ UNCHANGED <<port, starts, avoided>>

\* PUT /instances/{id} gives another port to an instance that is not up, and looks at
\* no other: what was known of it is void.  Here: between requests, and without a
\* container, which would keep the old port.
EditPort(i, p) ==
  /\ row[i].status \in Startable
  /\ container[i] = "absent"
  /\ \A h \in Callers : call[h] = Idle
  /\ port' = [port EXCEPT ![i] = p]
  /\ unseen' = [k \in Instances |-> IF k = i THEN Instances ELSE unseen[k] \cup {i}]
  /\ avoided' = [k \in Instances |-> IF k = i THEN {} ELSE avoided[k] \ {i}]
  /\ UNCHANGED <<row, container, call, starts>>

\* A failed call to the agent does not keep the row from being stopped.
Stop(i) ==
  /\ row[i].status \in {"starting", "running", "failed"}
  /\ ~ Held(i)
  /\ Stopped(i) \/ Stays
  /\ row' = [row EXCEPT ![i].status = "stopped"]
  /\ UNCHANGED <<port, call, starts, history>>

\* Nor from being deleted.
Delete(i) ==
  /\ Exists(i)
  /\ ~ Held(i)
  /\ Removed(i) \/ Stays
  /\ row' = [row EXCEPT ![i] = [status |-> "gone", named |-> FALSE]]
  /\ UNCHANGED <<port, call, starts, history>>

(***************************************************************************)
(* The machine and the administrator.                                      *)
(***************************************************************************)
Exits(i) ==
  /\ container[i] = "running"
  /\ Stopped(i)
  /\ UNCHANGED <<row, port, call, starts, history>>

RemovedByHand(i) ==
  /\ "rm" \in Faults
  /\ container[i] # "absent"
  /\ Removed(i)
  /\ UNCHANGED <<row, port, call, starts, history>>

\* cleanup_node_orphans: a start that is not committed has no name either.
OrphansListed(h) ==
  /\ call[h] = Idle
  /\ LET orphans == {i \in Instances : container[i] # "absent" /\ ~ row[i].named}
     IN  orphans # {} /\ Becomes(h, [op |-> "sweep", inst |-> Nobody, doomed |-> orphans])
  /\ UNCHANGED <<row, port, container, starts, history>>

OrphanRemoved(h) ==
  /\ call[h].op = "sweep"
  /\ \E i \in call[h].doomed :
       LET left == call[h].doomed \ {i}
       IN  /\ Removed(i) \/ Stays
           /\ Becomes(h, IF left = {} THEN Idle ELSE [call[h] EXCEPT !.doomed = left])
  /\ UNCHANGED <<row, port, starts, history>>

\* The backend stops; the agent may still carry out the calls it has got.
Crash ==
  /\ "crash" \in Faults
  /\ \E h \in Callers : call[h] # Idle
  /\ \E sent \in SUBSET {h \in Callers : call[h].op = "calling"} :
       LET up == {i \in Instances : \E h \in sent : call[h].inst = i}
       IN  /\ container' = [i \in Instances |-> IF i \in up THEN "running" ELSE container[i]]
           /\ unseen' = [i \in Instances |->
                IF i \in up /\ container[i] # "running"
                THEN UNION {call[h].unseen : h \in {g \in sent : call[g].inst = i}}
                ELSE unseen[i]]
  /\ call' = [h \in Callers |-> Idle]
  /\ UNCHANGED <<row, port, starts, avoided>>

Step(h) ==
  \/ \E i \in Instances : CreateReads(h, i)
  \/ CreateCommits(h)
  \/ \E i \in Instances : StartReads(h, i)
  \/ Ask(h)
  \/ Inspect(h)
  \/ AskFails(h)
  \/ RemoveOrphan(h)
  \/ Record(h)
  \/ Reconcile(h)
  \/ Refused(h)
  \/ Granted(h)
  \/ Claimed(h)
  \/ \E i \in Instances : StartUnchecked(h, i)
  \/ AgentStarts(h)
  \/ Commits(h)
  \/ RollsBack(h)
  \/ StartFails(h)
  \/ OrphansListed(h)
  \/ OrphanRemoved(h)

Next ==
  \/ \E h \in Callers : Step(h)
  \/ \E i \in Instances : Stop(i) \/ Delete(i) \/ Exits(i) \/ RemovedByHand(i)
  \/ \E i \in Instances, p \in Pool : EditPort(i, p)
  \/ Crash

Spec == Init /\ [][Next]_vars

(***************************************************************************)
(* Properties.                                                             *)
(***************************************************************************)
\* Two containers are up with one port only if neither was started after a preflight
\* that knew of the other: what neither check can see is a start that overlaps, one
\* without a check of its port, a stopped container that Docker did not show, or a
\* port that is edited afterwards.  Both layers count: the containers the agent finds,
\* running or not, and the claims of instances whose containers are to come.
PortsApart ==
  \A i, j \in Instances :
    i # j /\ container[i] = "running" /\ container[j] = "running" /\ port[i] = port[j] =>
      j \in unseen[i] /\ i \in unseen[j]

\* The port of an instance that waits or runs is allocated to no other one, started or
\* not, as long as the range has a free port: whoever was there when the allocation
\* looked keeps its port for itself, whatever the agent does, until one is edited.
AllocatedApart ==
  \A i \in Instances : \A j \in avoided[i] : port[j] # port[i]
=============================================================================
