--------------------------- MODULE InstanceSchedule ---------------------------
(***************************************************************************)
(* The schedule of ONE task instance: the jobs APScheduler keeps for it in *)
(* the memory of the backend (services/scheduler.py), the row they were    *)
(* made from, the API requests that start, stop, edit and delete the       *)
(* instance, the work order it belongs to and the release event that gives *)
(* the order's GPU back to the router.                                     *)
(*                                                                         *)
(* A job that fires and a request that is served are coroutines with a     *)
(* database session of their own.  A session takes what it needs from the  *)
(* row when it begins and writes when it commits.  Starting and stopping   *)
(* is the work of module DagExecutor; here it is one step that touches the *)
(* containers between the reading and the writing.                         *)
(***************************************************************************)
EXTENDS Integers

CONSTANTS
  Session,     \* the sessions there are at a time
  NoSession,   \* the row lock is free
  NoTime,      \* a column that is NULL, a job that does not exist
  Horizon,     \* bound: the last instant of the model
  Grace,       \* misfire_grace_time, in instants
  MaxRequest,  \* bound: API requests served
  MaxCrash,    \* bound: times the backend process dies
  Requests,    \* which API requests are made
  Faults       \* which of "misfire", "lockwait", "raise" happen

Time   == 0 .. Horizon
Moment == Time \cup {NoTime}

ASSUME TimeAssumption == /\ Horizon \in Nat
                         /\ Grace \in Nat
                         /\ NoTime \notin Time
ASSUME BoundAssumption == /\ MaxRequest \in Nat
                          /\ MaxCrash \in Nat
ASSUME SessionAssumption == NoSession \notin Session

VARIABLES
  now,         \* business_now()
  up,          \* the backend process runs
  row,         \* the TaskInstance row; status "gone" once it is deleted
  runtime,     \* its node rows name a container
  containers,  \* the agents run containers of the instance
  job,         \* APScheduler's jobs start_<id> and end_<id>: when they run
  order,       \* the TaskOrder the instance was made for
  released,    \* the release event of the order's GPU is in its table
  lock,        \* the session that holds the lock of the row
  at,          \* session -> where its coroutine is
  ctx,         \* session -> what it has read or been asked for
  requests,    \* API requests served so far
  crashes,     \* times the process has died
  lost         \* a job or a coroutine has been dropped: by a crash, a
               \* misfire or a lock wait that timed out

db    == <<row, runtime, order, released>>
coro  == <<lock, at, ctx>>
count == <<requests, crashes, lost>>
vars  == <<now, up, db, containers, job, coro, count>>

Jobs == {"start", "end"}
RowStatus == {"pending", "scheduled", "starting", "running", "stopped",
              "failed", "expired", "gone"}
Active == {"starting", "running"}
OrderStatus == {"materialized", "completed", "cancelled", "failed"}
Phases == {"idle", "starting", "launched", "halting", "halted", "release",
           "finish", "finishing", "cleaned", "deleting", "deleted", "saving"}

NoJobs == [k \in Jobs |-> NoTime]

Blank == [kind |-> "none", runtime |-> FALSE, keep |-> FALSE,
          complete |-> FALSE, linked |-> FALSE,
          startAt |-> NoTime, endAt |-> NoTime, mark |-> FALSE]

(* Operators named ..._bug are mutated forms of the operator after them: no *)
(* action uses them, they show that the properties notice such a change.   *)

NextTime_bug(t) == IF t <= now THEN now + 1 ELSE t

\* next_business_time: a time that has passed becomes "in a second", which is
\* below the resolution of the model.
NextTime(t) == IF t < now THEN now ELSE t

\* The instance was made in SCHEDULED mode and its jobs were registered, or it
\* was made from a routing result whose network is still to be set up.
Init ==
  /\ now = 0
  /\ up = TRUE
  /\ \E s \in Time, e \in Time, k \in BOOLEAN, planned \in BOOLEAN :
       /\ s < e
       /\ row = [status |-> IF planned THEN "scheduled" ELSE "pending",
                 startAt |-> s, endAt |-> e, keep |-> k]
       /\ job = [NoJobs EXCEPT !["start"] = IF planned THEN s ELSE NoTime,
                               !["end"] = IF planned THEN e ELSE NoTime]
       /\ order = [status |-> "materialized", linked |-> TRUE,
                   waiting |-> ~ planned, startAt |-> s, endAt |-> e]
  /\ runtime = FALSE
  /\ containers = FALSE
  /\ released = FALSE
  /\ lock = NoSession
  /\ at = [w \in Session |-> "idle"]
  /\ ctx = [w \in Session |-> Blank]
  /\ requests = 0
  /\ crashes = 0
  /\ lost = FALSE

-----------------------------------------------------------------------------
(* Sessions.                                                               *)

Free(w) == lock \in {NoSession, w}

OrderFree_bug == TRUE

\* network-ready keeps the order's row locked until the start has committed.
OrderFree == \A w \in Session :
  ctx[w].kind = "ready" => at[w] \notin {"starting", "launched"}

\* The transaction is left open.
Return_bug(w) ==
  /\ at' = [at EXCEPT ![w] = "idle"]
  /\ ctx' = [ctx EXCEPT ![w] = Blank]
  /\ UNCHANGED lock

\* The coroutine returns, or ends with the rollback of its session.
Return(w) ==
  /\ at' = [at EXCEPT ![w] = "idle"]
  /\ ctx' = [ctx EXCEPT ![w] = Blank]
  /\ lock' = IF lock = w THEN NoSession ELSE lock

Goto(w, phase) ==
  /\ at' = [at EXCEPT ![w] = phase]
  /\ UNCHANGED <<lock, ctx>>

\* An idle session takes up a request or a job.
Enter(w, phase, c) ==
  /\ at' = [at EXCEPT ![w] = phase]
  /\ ctx' = [ctx EXCEPT ![w] = c]
  /\ UNCHANGED lock

Serve(w, request) ==
  /\ up
  /\ at[w] = "idle"
  /\ request \in Requests
  /\ requests < MaxRequest
  /\ requests' = requests + 1
  /\ UNCHANGED <<now, up, crashes, lost>>

Work(w, phase) ==
  /\ at[w] = phase
  /\ UNCHANGED <<now, up, requests, crashes>>

-----------------------------------------------------------------------------
(* Starting: _run_start, POST start, and network-ready.                    *)

Startable_bug == row.status \notin Active \cup {"gone"}

\* execute_dag_start goes on: the instance exists, is neither running nor said
\* to be starting and does not wait for the network.
Startable == row.status \notin Active \cup {"gone"} /\ ~ order.waiting

\* The job runs: APScheduler forgets it and the coroutine begins.
FireStart(w) ==
  /\ up
  /\ at[w] = "idle"
  /\ job["start"] \in Time
  /\ job["start"] <= now
  /\ job' = [job EXCEPT !["start"] = NoTime]
  /\ IF Startable
     THEN Enter(w, "starting", [Blank EXCEPT !.kind = "job"])
     ELSE UNCHANGED coro
  /\ UNCHANGED <<now, up, db, containers, count>>

\* POST start is refused in the states a start does not expect.
RequestStart(w) ==
  /\ Serve(w, "start")
  /\ Startable
  /\ row.status # "expired"
  /\ Enter(w, "starting", [Blank EXCEPT !.kind = "api"])
  /\ UNCHANGED <<db, containers, job>>

\* start_node: the agent runs the container, then a flush locks the row.
Launch(w) ==
  /\ Work(w, "starting")
  /\ containers' = TRUE
  /\ lock' = IF lock = NoSession THEN w ELSE lock
  /\ at' = [at EXCEPT ![w] = "launched"]
  /\ UNCHANGED <<db, job, ctx, lost>>

\* What network-ready commits with the start, and then: it registers the end.
AfterStart(w) ==
  IF ctx[w].kind = "ready"
  THEN /\ order' = [order EXCEPT !.waiting = FALSE]
       /\ job' = [job EXCEPT !["end"] = NextTime(order.endAt)]
  ELSE UNCHANGED <<order, job>>

\* The row is gone: the UPDATE matches nothing and the commit raises.
Raise(w) ==
  /\ row.status = "gone"
  /\ Return(w)
  /\ UNCHANGED <<db, containers, job, lost>>

StartSucceeds(w) ==
  /\ Work(w, "launched")
  /\ Free(w)
  /\ \/ Raise(w)
     \/ /\ row.status # "gone"
        /\ row' = [row EXCEPT !.status = "running"]
        /\ runtime' = TRUE
        /\ AfterStart(w)
        /\ Return(w)
        /\ UNCHANGED <<released, containers, lost>>

\* A node fails: the containers are deleted before the row says so.
StartFails(w) ==
  /\ Work(w, "launched")
  /\ Free(w)
  /\ containers' = FALSE
  /\ IF row.status = "gone"
     THEN UNCHANGED <<db, job>>
     ELSE /\ row' = [row EXCEPT !.status = "failed"]
          /\ runtime' = FALSE
          /\ AfterStart(w)
          /\ UNCHANGED released
  /\ Return(w)
  /\ UNCHANGED lost

\* A start raises: a query fails, or the task of a node.  Job and request roll
\* back; network-ready commits what its session holds all the same: the instance
\* is said to be starting, the network is there, no end is registered.
StartRaises(w) ==
  /\ "raise" \in Faults
  /\ at[w] \in {"starting", "launched"}
  /\ IF ctx[w].kind = "ready"
     THEN /\ Free(w)
          /\ row' = [row EXCEPT !.status = "starting"]
          /\ runtime' \in {runtime, runtime \/ at[w] = "launched"}
          /\ order' = [order EXCEPT !.waiting = FALSE]
     ELSE UNCHANGED <<row, runtime, order>>
  /\ Return(w)
  /\ UNCHANGED <<now, up, released, containers, job, count>>

\* POST network-ready: the flow rules of the order are installed.
Confirm(w) ==
  /\ Serve(w, "ready")
  /\ OrderFree
  /\ UNCHANGED <<runtime, released, containers>>

\* The router does not ask for a start, or there is nothing to start.
ConfirmOnly(w) ==
  /\ Confirm(w)
  /\ row.status = "gone" \/ order.endAt > now
  /\ order' = [order EXCEPT !.waiting = FALSE]
  /\ UNCHANGED <<row, job, coro>>

\* Too late: the instance is declared expired, whatever its status.
ConfirmLate(w) ==
  /\ Confirm(w)
  /\ row.status # "gone" /\ order.endAt <= now
  /\ lock = NoSession
  /\ row' = [row EXCEPT !.status = "expired"]
  /\ order' = [order EXCEPT !.waiting = FALSE, !.status = "failed"]
  /\ UNCHANGED <<job, coro>>

\* The order's time has come: the start is part of the request.
ConfirmStart(w) ==
  /\ Confirm(w)
  /\ row.status \notin Active \cup {"gone"}
  /\ order.startAt <= now /\ order.endAt > now
  /\ Enter(w, "starting", [Blank EXCEPT !.kind = "ready"])
  /\ UNCHANGED <<row, order, job>>

\* The instance runs already, or is said to be starting, or starts later: its
\* jobs are registered.
ConfirmPlan(w) ==
  /\ Confirm(w)
  /\ row.status # "gone" /\ order.endAt > now
  /\ order.startAt > now \/ row.status \in Active
  /\ order' = [order EXCEPT !.waiting = FALSE]
  /\ job' = [job EXCEPT !["end"] = order.endAt,
                        !["start"] = IF order.startAt > now
                                     THEN order.startAt ELSE @]
  /\ UNCHANGED <<row, coro>>

NetworkReady(w) ==
  ConfirmOnly(w) \/ ConfirmLate(w) \/ ConfirmStart(w) \/ ConfirmPlan(w)

-----------------------------------------------------------------------------
(* Stopping: _run_stop and POST stop.                                      *)

\* execute_dag_stop, from the reading of the row.
BeginStop(w, c) ==
  IF row.status \in {"stopped", "pending"}
  THEN Enter(w, IF c.kind = "job" THEN "finish" ELSE "release", c)
  ELSE Enter(w, "halting", c)

\* What a session sees of the instance when it reads it.
Seen(c) == [c EXCEPT !.runtime = runtime, !.keep = row.keep]

FireEnd(w) ==
  /\ up
  /\ at[w] = "idle"
  /\ job["end"] \in Time
  /\ job["end"] <= now
  /\ job' = [job EXCEPT !["end"] = NoTime]
  /\ IF row.status = "gone"
     THEN UNCHANGED coro
     ELSE BeginStop(w, Seen([Blank EXCEPT !.kind = "job"]))
  /\ UNCHANGED <<now, up, db, containers, count>>

RequestStop(w) ==
  /\ Serve(w, "stop")
  /\ row.status # "gone"
  /\ BeginStop(w, [Blank EXCEPT !.kind = "api"])
  /\ UNCHANGED <<db, containers, job>>

\* The agents stop the containers, or fail to: the stop goes on either way.
Halt(w) ==
  /\ Work(w, "halting")
  /\ containers' \in {containers, FALSE}
  /\ Goto(w, "halted")
  /\ UNCHANGED <<db, job, lost>>

\* The job ends like POST stop, without completing the order.
CommitStop_bug(w) ==
  /\ Work(w, "halted")
  /\ Free(w)
  /\ \/ Raise(w)
     \/ /\ row.status # "gone"
        /\ row' = [row EXCEPT !.status = "stopped"]
        /\ Goto(w, "release")
        /\ UNCHANGED <<runtime, order, released, containers, job, lost>>

CommitStop(w) ==
  /\ Work(w, "halted")
  /\ Free(w)
  /\ \/ Raise(w)
     \/ /\ row.status # "gone"
        /\ row' = [row EXCEPT !.status = "stopped"]
        /\ Goto(w, IF ctx[w].kind = "job" THEN "finish" ELSE "release")
        /\ UNCHANGED <<runtime, order, released, containers, job, lost>>

\* POST stop ends with the release event, committed by get_db.
ReleaseAfterStop(w) ==
  /\ Work(w, "release")
  /\ released' = (released \/ order.linked)
  /\ Return(w)
  /\ UNCHANGED <<row, runtime, order, containers, job, lost>>

\* The job reads the instance, which its session may still hold as it was when
\* the stop began, and the orders that are to be completed.
FinishRead(w) ==
  /\ Work(w, "finish")
  /\ IF row.status = "gone"
     THEN Return(w)
     ELSE /\ \E seen \in {ctx[w], Seen(ctx[w])} :
               ctx' = [ctx EXCEPT ![w] = [seen EXCEPT
                 !.complete = order.linked /\ order.status = "materialized",
                 !.linked = order.linked]]
          /\ at' = [at EXCEPT ![w] = IF ctx'[w].keep THEN "cleaned"
                                                     ELSE "finishing"]
          /\ UNCHANGED lock
  /\ UNCHANGED <<db, containers, job, lost>>

\* The purge is committed before the order is completed.
CleanUp_bug(w) ==
  /\ Work(w, "finishing")
  /\ containers' \in IF ctx[w].runtime THEN {containers, FALSE}
                                        ELSE {containers}
  /\ row' = [row EXCEPT !.status = "gone"]
  /\ Goto(w, "cleaned")
  /\ UNCHANGED <<runtime, order, released, job, lost>>

\* auto_cleanup_instance: nodes without a container are skipped; an agent that
\* fails leaves its container behind and only a warning in the log.
CleanUp(w) ==
  /\ Work(w, "finishing")
  /\ containers' \in IF ctx[w].runtime THEN {containers, FALSE}
                                        ELSE {containers}
  /\ Goto(w, "cleaned")
  /\ UNCHANGED <<db, job, lost>>

\* The release event is left to auto_cleanup_instance.
FinishCommit_bug(w) ==
  /\ Work(w, "cleaned")
  /\ Free(w)
  /\ OrderFree
  /\ IF row.status = "gone" /\ ctx[w].runtime /\ ~ ctx[w].keep
     THEN UNCHANGED db
     ELSE /\ order' = [order EXCEPT
               !.status = IF ctx[w].complete THEN "completed" ELSE @]
          /\ released' = (released \/ (ctx[w].linked /\ ~ ctx[w].keep))
          /\ row' = [row EXCEPT !.status = IF ctx[w].keep THEN @ ELSE "gone"]
          /\ runtime' = (runtime /\ ctx[w].keep)
  /\ Return(w)
  /\ UNCHANGED <<containers, job, lost>>

\* The status read earlier decides: an order cancelled since is overwritten.
\* Updates of node rows that are gone by now end in a rollback instead.
FinishCommit(w) ==
  /\ Work(w, "cleaned")
  /\ Free(w)
  /\ OrderFree
  /\ IF row.status = "gone" /\ ctx[w].runtime /\ ~ ctx[w].keep
     THEN UNCHANGED db
     ELSE /\ order' = [order EXCEPT
               !.status = IF ctx[w].complete THEN "completed" ELSE @]
          /\ released' = (released \/ ctx[w].linked)
          /\ row' = [row EXCEPT !.status = IF ctx[w].keep THEN @ ELSE "gone"]
          /\ runtime' = (runtime /\ ctx[w].keep)
  /\ Return(w)
  /\ UNCHANGED <<containers, job, lost>>

-----------------------------------------------------------------------------
(* Deleting and editing.                                                   *)

\* DELETE cancels the jobs at once; the release event waits for its commit.
RequestDelete(w) ==
  /\ Serve(w, "delete")
  /\ row.status # "gone"
  /\ job' = NoJobs
  /\ Enter(w, "deleting", [Blank EXCEPT !.kind = "api",
                                        !.linked = order.linked])
  /\ UNCHANGED <<db, containers>>

\* The containers of every node are deleted, those that cannot be are left.
DeleteCleanup(w) ==
  /\ Work(w, "deleting")
  /\ containers' \in {containers, FALSE}
  /\ Goto(w, "deleted")
  /\ UNCHANGED <<db, job, lost>>

CommitDelete(w) ==
  /\ Work(w, "deleted")
  /\ Free(w)
  /\ OrderFree
  /\ \/ Raise(w)
     \/ /\ row.status # "gone"
        /\ row' = [row EXCEPT !.status = "gone"]
        /\ runtime' = FALSE
        /\ order' = IF order.linked
                    THEN [order EXCEPT !.status = "cancelled", !.linked = FALSE]
                    ELSE order
        /\ released' = (released \/ ctx[w].linked)
        /\ Return(w)
        /\ UNCHANGED <<containers, job, lost>>

\* The jobs of the times that are given; a job without a time is left alone.
Registered(s, e) ==
  [job EXCEPT !["start"] = IF s = NoTime THEN @ ELSE NextTime(s),
              !["end"]   = IF e = NoTime THEN @ ELSE NextTime(e)]

\* PUT schedule, whatever the status; the jobs are there before the commit. A
\* status that is `scheduled' already is not written again.
RequestSchedule(w) ==
  /\ Serve(w, "schedule")
  /\ row.status # "gone"
  /\ \E s, e \in Moment, k \in BOOLEAN :
       /\ job' = Registered(s, e)
       /\ Enter(w, "saving", [Blank EXCEPT !.kind = "api", !.startAt = s,
                     !.endAt = e, !.keep = k,
                     !.mark = s # NoTime /\ row.status # "scheduled"])
  /\ UNCHANGED <<db, containers>>

\* PUT on the instance: the times are taken as they come, NULL included, but
\* only a pending row becomes scheduled and gets jobs.
UpdateTimes(w) ==
  /\ row.status \notin Active \cup {"gone"}
  /\ \E s, e \in Moment, k \in BOOLEAN :
       LET mark == s # NoTime /\ row.status = "pending"
       IN  /\ job' = IF mark THEN Registered(s, e) ELSE job
           /\ Enter(w, "saving", [Blank EXCEPT !.kind = "api", !.startAt = s,
                         !.endAt = e, !.keep = k, !.mark = mark])

\* Of a running or starting instance only what becomes of it after its stop.
UpdateKeep(w) ==
  /\ row.status \in Active
  /\ \E k \in BOOLEAN :
       Enter(w, "saving", [Blank EXCEPT !.kind = "keep", !.keep = k])
  /\ UNCHANGED job

RequestUpdate(w) ==
  /\ Serve(w, "update")
  /\ UpdateTimes(w) \/ UpdateKeep(w)
  /\ UNCHANGED <<db, containers>>

CommitSave(w) ==
  /\ Work(w, "saving")
  /\ Free(w)
  /\ \/ Raise(w)
     \/ /\ row.status # "gone"
        /\ row' = IF ctx[w].kind = "keep"
                  THEN [row EXCEPT !.keep = ctx[w].keep]
                  ELSE [status |-> IF ctx[w].mark THEN "scheduled" ELSE row.status,
                        startAt |-> ctx[w].startAt, endAt |-> ctx[w].endAt,
                        keep |-> ctx[w].keep]
        /\ Return(w)
        /\ UNCHANGED <<runtime, order, released, containers, job, lost>>

-----------------------------------------------------------------------------
(* The clock, the database and the process.                                *)

Tick ==
  /\ now < Horizon
  /\ now' = now + 1
  /\ UNCHANGED <<up, db, containers, job, coro, count>>

\* The event loop comes to a job more than misfire_grace_time late.
Misfire(k) ==
  /\ "misfire" \in Faults
  /\ up
  /\ job[k] \in Time
  /\ now > job[k] + Grace
  /\ job' = [job EXCEPT ![k] = NoTime]
  /\ lost' = TRUE
  /\ UNCHANGED <<now, up, db, containers, coro, requests, crashes>>

\* A delete and an end job have each flushed what the other one needs, the
\* release event and the row of the order: InnoDB rolls one of them back.
Clash(w) == \E v \in Session : {at[v], at[w]} = {"deleted", "cleaned"}

\* A commit waits longer for a row than innodb_lock_wait_timeout, or loses.
LockWait(w) ==
  /\ "lockwait" \in Faults
  /\ at[w] \in {"launched", "halted", "cleaned", "deleted", "saving"}
  /\ \/ ~ Free(w) \/ Clash(w)
     \/ at[w] \in {"cleaned", "deleted"} /\ ~ OrderFree
  /\ Return(w)
  /\ lost' = TRUE
  /\ UNCHANGED <<now, up, db, containers, job, requests, crashes>>

\* The process dies: jobs and coroutines are gone, open transactions roll back.
Crash ==
  /\ up
  /\ crashes < MaxCrash
  /\ up' = FALSE
  /\ crashes' = crashes + 1
  /\ lost' = TRUE
  /\ job' = NoJobs
  /\ at' = [w \in Session |-> "idle"]
  /\ ctx' = [w \in Session |-> Blank]
  /\ lock' = NoSession
  /\ UNCHANGED <<now, db, containers, requests>>

\* restore_pending_jobs, for this row: the time its job k is registered for.
Restored(k) ==
  IF \/ row.status \notin {"pending", "scheduled"} \cup Active
     \/ row.endAt = NoTime
  THEN NoTime
  ELSE IF k = "start"
  THEN IF /\ row.startAt # NoTime
          /\ row.startAt > now
          /\ row.status \notin Active
       THEN row.startAt ELSE NoTime
  ELSE IF row.endAt > now \/ row.status \in Active
       THEN NextTime(row.endAt) ELSE NoTime

Restart ==
  /\ ~ up
  /\ up' = TRUE
  /\ job' = [k \in Jobs |-> Restored(k)]
  /\ UNCHANGED <<now, db, containers, coro, count>>

\* What a session does by itself once it has begun.
Advance(w) ==
  \/ Launch(w) \/ StartSucceeds(w) \/ StartFails(w)
  \/ Halt(w) \/ CommitStop(w) \/ ReleaseAfterStop(w)
  \/ FinishRead(w) \/ CleanUp(w) \/ FinishCommit(w)
  \/ DeleteCleanup(w) \/ CommitDelete(w) \/ CommitSave(w)

Request(w) ==
  \/ RequestStart(w) \/ RequestStop(w) \/ RequestDelete(w)
  \/ RequestSchedule(w) \/ RequestUpdate(w) \/ NetworkReady(w)

Next ==
  \/ \E w \in Session :
       FireStart(w) \/ FireEnd(w) \/ Advance(w) \/ Request(w) \/ LockWait(w)
         \/ StartRaises(w)
  \/ \E k \in Jobs : Misfire(k)
  \/ Tick \/ Crash \/ Restart

Spec == Init /\ [][Next]_vars

\* Coroutines go on and jobs fire as long as the event loop runs, time passes,
\* and a backend that has died is brought back.
FairSpec ==
  /\ Spec
  /\ WF_vars(Tick)
  /\ WF_vars(Restart)
  /\ \A w \in Session : WF_vars(Advance(w))
  /\ WF_vars(\E w \in Session : FireStart(w))
  /\ WF_vars(\E w \in Session : FireEnd(w))

-----------------------------------------------------------------------------
(* Properties.                                                             *)

Record == [kind : {"none", "job", "api", "ready", "keep"}, runtime : BOOLEAN,
           keep : BOOLEAN, complete : BOOLEAN, linked : BOOLEAN,
           startAt : Moment, endAt : Moment, mark : BOOLEAN]

\* The variables have the shape of the row, the jobs and the coroutines they
\* stand for, and only a session at work holds a lock.
TypeOK ==
  /\ now \in Time
  /\ up \in BOOLEAN
  /\ row \in [status : RowStatus, startAt : Moment, endAt : Moment,
              keep : BOOLEAN]
  /\ runtime \in BOOLEAN
  /\ containers \in BOOLEAN
  /\ job \in [Jobs -> Moment]
  /\ order \in [status : OrderStatus, linked : BOOLEAN, waiting : BOOLEAN,
                startAt : Time, endAt : Time]
  /\ released \in BOOLEAN
  /\ lock \in Session \cup {NoSession}
  /\ at \in [Session -> Phases]
  /\ ctx \in [Session -> Record]
  /\ requests \in 0 .. MaxRequest
  /\ crashes \in 0 .. MaxCrash
  /\ lost \in BOOLEAN

\* An order that is over, completed by the end job or cancelled by a delete, has
\* its release event in the table, however the two interleave or are cut short:
\* without it the router never gives the GPU to anyone again.
LetGoMeansReleased ==
  order.status \in {"completed", "cancelled"} => released

\* No order is left `materialized' for an instance that does not exist, the
\* state reconcile_orphan_orders repairs: every path that deletes the row lets
\* go of the order in the same transaction.
GoneMeansLetGo == row.status = "gone" => order.status # "materialized"

Confirming(w) == ctx[w].kind = "ready" /\ at[w] \in {"starting", "launched"}

\* As long as the router has not confirmed the network no job and no request
\* but network-ready itself runs a container of the instance (the double check
\* in _run_start and execute_dag_start), unless a confirmation was cut short.
NotBeforeNetwork ==
  order.waiting /\ containers => lost \/ \E w \in Session : Confirming(w)

SessionAgrees(w) ==
  /\ ctx[w].complete => ctx[w].linked
  /\ at[w] \in {"deleting", "deleted"} /\ order.linked => ctx[w].linked
  /\ at[w] \in {"finishing", "cleaned"} /\ order.status = "materialized"
       => ctx[w].complete
  /\ at[w] \in {"starting", "launched"} /\ order.waiting
       => ctx[w].kind = "ready"
  /\ Confirming(w) => row.status # "gone"

\* What the sessions have read agrees with what the rows have become: an order
\* without a link is let go of, a delete knows the order it will cancel, an end
\* job the order it will complete, only network-ready starts an instance that
\* waits, and no row disappears under a network-ready at work.
Agreement ==
  /\ ~ order.linked => order.status # "materialized"
  /\ \A w \in Session : SessionAgrees(w)

\* An end that is scheduled is served: the order does not stay `materialized'
\* for ever, whatever is started, stopped, rescheduled or deleted meanwhile,
\* unless a crash, a misfire or a lock wait has lost the job or its coroutine.
EndServed ==
  (job["end"] # NoTime) ~> (order.status # "materialized" \/ lost)

\* No coroutine waits for ever for the locks of the others: start, stop, end,
\* delete, edit and network-ready all come to their return.
SessionsReturn == \A w \in Session : (at[w] # "idle") ~> (at[w] = "idle")

\* What restore_pending_jobs promises (scheduler.py:165): the end of an
\* instance that is scheduled is served even if the backend restarts.
EndSurvivesRestart ==
  (job["end"] # NoTime) ~> (order.status # "materialized")
=============================================================================
