----------------------- MODULE InstanceScheduleProofs -----------------------
(* Proofs about InstanceSchedule, for every horizon, every number of        *)
(* sessions, requests and crashes, and every choice of requests and faults. *)
EXTENDS InstanceSchedule, TLAPS

-----------------------------------------------------------------------------
(* Types.                                                                   *)

CoroOK == /\ lock \in Session \cup {NoSession}
          /\ at \in [Session -> Phases]
          /\ ctx \in [Session -> Record]

\* A session with nothing to do has a record.
LEMMA BlankType == Blank \in Record
  BY DEF Blank, Record, Moment

\* A row, a job or an order keeps its time when it is put off to now.
LEMMA NextTimeType ==
  ASSUME now \in Time, NEW t \in Time
  PROVE  NextTime(t) \in Time
  BY DEF NextTime

\* A request is served within the bound.
LEMMA ServeType ==
  ASSUME TypeOK, NEW w \in Session, NEW r, Serve(w, r)
  PROVE  requests' \in 0 .. MaxRequest
  BY BoundAssumption DEF TypeOK, Serve

\* Coming to an end, going on and taking up work keep the sessions typed.
LEMMA SessionType ==
  ASSUME CoroOK, NEW w \in Session, NEW phase \in Phases, NEW c \in Record,
         Return(w) \/ Goto(w, phase) \/ Enter(w, phase, c)
  PROVE  CoroOK'
  BY BlankType DEF CoroOK, Return, Goto, Enter, Phases

\* The initial states have the types.
LEMMA TypeInit == Init => TypeOK
<1> SUFFICES ASSUME Init PROVE TypeOK
  OBVIOUS
<1>1. PICK s \in Time, e \in Time, k \in BOOLEAN, planned \in BOOLEAN :
        /\ row = [status |-> IF planned THEN "scheduled" ELSE "pending",
                  startAt |-> s, endAt |-> e, keep |-> k]
        /\ job = [NoJobs EXCEPT !["start"] = IF planned THEN s ELSE NoTime,
                                !["end"] = IF planned THEN e ELSE NoTime]
        /\ order = [status |-> "materialized", linked |-> TRUE,
                    waiting |-> ~ planned, startAt |-> s, endAt |-> e]
  BY DEF Init
<1>2. job \in [Jobs -> Moment]
  BY <1>1 DEF NoJobs, Jobs, Moment
<1>3. row \in [status : RowStatus, startAt : Moment, endAt : Moment,
               keep : BOOLEAN]
  BY <1>1 DEF RowStatus, Moment
<1>4. order \in [status : OrderStatus, linked : BOOLEAN, waiting : BOOLEAN,
                 startAt : Time, endAt : Time]
  BY <1>1 DEF OrderStatus
<1>5. ctx \in [Session -> Record]
  BY BlankType DEF Init
<1>6. now \in Time
  BY TimeAssumption DEF Init, Time
<1>7. requests \in 0 .. MaxRequest /\ crashes \in 0 .. MaxCrash
  BY BoundAssumption DEF Init
<1> QED
  BY <1>2, <1>3, <1>4, <1>5, <1>6, <1>7 DEF Init, TypeOK, Phases

RowType == [status : RowStatus, startAt : Moment, endAt : Moment, keep : BOOLEAN]
OrderType == [status : OrderStatus, linked : BOOLEAN, waiting : BOOLEAN,
              startAt : Time, endAt : Time]

\* What network-ready does after a start keeps order and jobs typed.
LEMMA AfterStartType ==
  ASSUME TypeOK, NEW w \in Session, AfterStart(w)
  PROVE  order' \in OrderType /\ job' \in [Jobs -> Moment]
<1>1. order.endAt \in Time /\ order \in OrderType
  BY DEF TypeOK, OrderType
<1>2. NextTime(order.endAt) \in Moment
  BY <1>1, NextTimeType DEF TypeOK, Moment
<1>3. [order EXCEPT !.waiting = FALSE] \in OrderType
  BY <1>1 DEF OrderType
<1>4. [job EXCEPT !["end"] = NextTime(order.endAt)] \in [Jobs -> Moment]
  BY <1>2 DEF TypeOK
<1> QED
  BY <1>1, <1>3, <1>4 DEF AfterStart, TypeOK

\* Starting keeps the types.
LEMMA StartTypes ==
  ASSUME TypeOK, NEW w \in Session,
         FireStart(w) \/ RequestStart(w) \/ Launch(w) \/ StartSucceeds(w)
                      \/ StartFails(w)
  PROVE  TypeOK'
<1> USE DEF db, coro, count
<1>0. CoroOK /\ \A k \in {"job", "api"} : [Blank EXCEPT !.kind = k] \in Record
  BY BlankType DEF TypeOK, CoroOK, Record
<1>1. CASE FireStart(w)
  <2>1. job' \in [Jobs -> Moment]
    BY <1>1 DEF FireStart, TypeOK, Moment
  <2>2. CoroOK'
    <3>1. CASE Startable
      BY <1>0, <1>1, <3>1, SessionType DEF FireStart, Phases
    <3>2. CASE ~ Startable
      BY <1>0, <1>1, <3>2 DEF FireStart, CoroOK
    <3> QED
      BY <3>1, <3>2
  <2> QED
    BY <1>1, <2>1, <2>2 DEF FireStart, TypeOK, CoroOK
<1>2. CASE RequestStart(w)
  <2>1. CoroOK'
    BY <1>0, <1>2, SessionType DEF RequestStart, Phases
  <2>2. requests' \in 0 .. MaxRequest
    BY <1>2, BoundAssumption DEF RequestStart, Serve, TypeOK
  <2> QED
    BY <1>2, <2>1, <2>2 DEF RequestStart, Serve, TypeOK, CoroOK
<1>3. CASE Launch(w)
  BY <1>3 DEF Launch, Work, TypeOK, Phases
<1>4. CASE StartSucceeds(w)
  <2>1. CoroOK'
    BY <1>0, <1>4, SessionType, BlankType DEF StartSucceeds, Raise, Phases
  <2>2. CASE row.status = "gone"
    BY <1>4, <2>1, <2>2 DEF StartSucceeds, Raise, Work, TypeOK, CoroOK
  <2>3. CASE row.status # "gone"
    <3>1. order' \in OrderType /\ job' \in [Jobs -> Moment]
      BY <1>4, <2>3, AfterStartType DEF StartSucceeds, Raise
    <3>2. row' \in RowType
      BY <1>4, <2>3 DEF StartSucceeds, Raise, TypeOK, RowType, RowStatus
    <3> QED
      BY <1>4, <2>1, <2>3, <3>1, <3>2
         DEF StartSucceeds, Raise, Work, TypeOK, CoroOK, RowType, OrderType
  <2> QED
    BY <2>2, <2>3
<1>5. CASE StartFails(w)
  <2>1. CoroOK'
    BY <1>0, <1>5, SessionType, BlankType DEF StartFails, Phases
  <2>2. CASE row.status = "gone"
    BY <1>5, <2>1, <2>2 DEF StartFails, Work, TypeOK, CoroOK
  <2>3. CASE row.status # "gone"
    <3>1. order' \in OrderType /\ job' \in [Jobs -> Moment]
      BY <1>5, <2>3, AfterStartType DEF StartFails
    <3>2. row' \in RowType
      BY <1>5, <2>3 DEF StartFails, TypeOK, RowType, RowStatus
    <3> QED
      BY <1>5, <2>1, <2>3, <3>1, <3>2
         DEF StartFails, Work, TypeOK, CoroOK, RowType, OrderType
  <2> QED
    BY <2>2, <2>3
<1> QED
  BY <1>1, <1>2, <1>3, <1>4, <1>5

\* So does a confirmation of the network.
LEMMA ReadyTypes ==
  ASSUME TypeOK, NEW w \in Session, NetworkReady(w)
  PROVE  TypeOK'
<1> USE DEF db, coro, count
<1>1. CoroOK /\ [Blank EXCEPT !.kind = "ready"] \in Record
  BY BlankType DEF Record, CoroOK, TypeOK
<1>2. requests' \in 0 .. MaxRequest
  BY BoundAssumption
     DEF NetworkReady, ConfirmOnly, ConfirmLate, ConfirmStart, ConfirmPlan,
         Confirm, Serve, TypeOK
<1>3. row' \in RowType
  BY DEF NetworkReady, ConfirmOnly, ConfirmLate, ConfirmStart, ConfirmPlan,
         TypeOK, RowType, RowStatus
<1>4. order' \in OrderType
  BY DEF NetworkReady, ConfirmOnly, ConfirmLate, ConfirmStart, ConfirmPlan,
         TypeOK, OrderType, OrderStatus
<1>5. order.endAt \in Moment /\ order.startAt \in Moment
  BY DEF TypeOK, Moment
<1>6. job' \in [Jobs -> Moment]
  BY <1>5 DEF NetworkReady, ConfirmOnly, ConfirmLate, ConfirmStart,
              ConfirmPlan, TypeOK, Jobs
<1>7. CoroOK'
  <2>1. UNCHANGED coro \/ Enter(w, "starting", [Blank EXCEPT !.kind = "ready"])
    BY DEF NetworkReady, ConfirmOnly, ConfirmLate, ConfirmStart, ConfirmPlan
  <2> QED
    BY <2>1, <1>1, SessionType DEF CoroOK, Phases
<1> QED
  BY <1>2, <1>3, <1>4, <1>6, <1>7
     DEF NetworkReady, ConfirmOnly, ConfirmLate, ConfirmStart, ConfirmPlan,
         Confirm, Serve, TypeOK, CoroOK, RowType, OrderType

\* What a session sees of a row is typed.
LEMMA SeenType ==
  ASSUME TypeOK, NEW c \in Record
  PROVE  Seen(c) \in Record
  BY DEF TypeOK, Seen, Record

\* Stopping, and what the end job does after it, keep the types.
LEMMA StopTypes ==
  ASSUME TypeOK, NEW w \in Session,
         FireEnd(w) \/ RequestStop(w) \/ Halt(w) \/ CommitStop(w)
                    \/ ReleaseAfterStop(w)
  PROVE  TypeOK'
<1> USE DEF db, coro, count
<1>0. CoroOK /\ \A k \in {"job", "api"} : [Blank EXCEPT !.kind = k] \in Record
  BY BlankType DEF TypeOK, CoroOK, Record
<1>1. CASE FireEnd(w)
  <2>1. job' \in [Jobs -> Moment]
    BY <1>1 DEF FireEnd, TypeOK, Moment
  <2>2. Seen([Blank EXCEPT !.kind = "job"]) \in Record
    BY <1>0, SeenType
  <2>3. CoroOK'
    BY <1>0, <1>1, <2>2, SessionType DEF FireEnd, BeginStop, CoroOK, Phases
  <2> QED
    BY <1>1, <2>1, <2>3 DEF FireEnd, TypeOK, CoroOK
<1>2. CASE RequestStop(w)
  <2>1. CoroOK'
    BY <1>0, <1>2, SessionType DEF RequestStop, BeginStop, Phases
  <2>2. requests' \in 0 .. MaxRequest
    BY <1>2, BoundAssumption DEF RequestStop, Serve, TypeOK
  <2> QED
    BY <1>2, <2>1, <2>2 DEF RequestStop, Serve, TypeOK, CoroOK
<1>3. CASE Halt(w)
  <2>1. CoroOK'
    BY <1>0, <1>3, SessionType, BlankType DEF Halt, Phases
  <2> QED
    BY <1>3, <2>1 DEF Halt, Work, TypeOK, CoroOK
<1>4. CASE CommitStop(w)
  <2>1. CoroOK'
    BY <1>0, <1>4, SessionType, BlankType DEF CommitStop, Raise, Phases
  <2>2. row' \in RowType
    BY <1>4 DEF CommitStop, Raise, TypeOK, RowType, RowStatus
  <2> QED
    BY <1>4, <2>1, <2>2 DEF CommitStop, Raise, Work, TypeOK, CoroOK, RowType
<1>5. CASE ReleaseAfterStop(w)
  <2>1. CoroOK'
    BY <1>0, <1>5, SessionType, BlankType DEF ReleaseAfterStop, Phases
  <2> QED
    BY <1>5, <2>1 DEF ReleaseAfterStop, Work, TypeOK, CoroOK
<1> QED
  BY <1>1, <1>2, <1>3, <1>4, <1>5

\* What the end job does after the stop keeps the types.
LEMMA FinishTypes ==
  ASSUME TypeOK, NEW w \in Session,
         FinishRead(w) \/ CleanUp(w) \/ FinishCommit(w)
  PROVE  TypeOK'
<1> USE DEF db, coro, count
<1>0. CoroOK /\ ctx[w] \in Record /\ Seen(ctx[w]) \in Record
  BY SeenType DEF TypeOK, CoroOK
<1>1. CASE FinishRead(w)
  <2>1. CASE row.status = "gone"
    BY <1>0, <1>1, <2>1, SessionType, BlankType
       DEF FinishRead, Work, TypeOK, CoroOK, Phases
  <2>2. CASE row.status # "gone"
    <3>1. PICK seen \in {ctx[w], Seen(ctx[w])} :
            ctx' = [ctx EXCEPT ![w] = [seen EXCEPT
              !.complete = order.linked /\ order.status = "materialized",
              !.linked = order.linked]]
      BY <1>1, <2>2 DEF FinishRead
    <3>2. seen \in Record
      BY <1>0, <3>1
    <3>3. [seen EXCEPT
             !.complete = order.linked /\ order.status = "materialized",
             !.linked = order.linked] \in Record
      BY <3>2 DEF Record, TypeOK
    <3>4. ctx' \in [Session -> Record]
      BY <3>1, <3>3 DEF TypeOK
    <3> QED
      BY <1>1, <2>2, <3>4 DEF FinishRead, Work, TypeOK, Phases
  <2> QED
    BY <2>1, <2>2
<1>2. CASE CleanUp(w)
  <2>1. CoroOK'
    BY <1>0, <1>2, SessionType DEF CleanUp, Phases
  <2>2. containers' \in BOOLEAN
    BY <1>2 DEF CleanUp, TypeOK
  <2> QED
    BY <1>2, <2>1, <2>2 DEF CleanUp, Work, TypeOK, CoroOK
<1>3. CASE FinishCommit(w)
  <2>1. CoroOK'
    BY <1>0, <1>3, SessionType, BlankType DEF FinishCommit, Phases
  <2>2. ctx[w].keep \in BOOLEAN /\ ctx[w].linked \in BOOLEAN
    BY <1>0 DEF Record
  <2>3. row' \in RowType
    BY <1>3, <2>2 DEF FinishCommit, TypeOK, RowType, RowStatus
  <2>4. order' \in OrderType
    BY <1>3 DEF FinishCommit, TypeOK, OrderType, OrderStatus
  <2>5. runtime' \in BOOLEAN /\ released' \in BOOLEAN
    BY <1>3, <2>2 DEF FinishCommit, TypeOK
  <2> QED
    BY <1>3, <2>1, <2>3, <2>4, <2>5
       DEF FinishCommit, Work, TypeOK, CoroOK, RowType, OrderType
<1> QED
  BY <1>1, <1>2, <1>3

\* The jobs of times that are given are typed.
LEMMA RegisteredType ==
  ASSUME TypeOK, NEW s \in Moment, NEW e \in Moment
  PROVE  Registered(s, e) \in [Jobs -> Moment]
<1>1. /\ s # NoTime => NextTime(s) \in Moment
      /\ e # NoTime => NextTime(e) \in Moment
  BY NextTimeType DEF TypeOK, Moment
<1> QED
  BY <1>1 DEF Registered, TypeOK, Jobs

\* Deleting and editing keep the types.
LEMMA EditTypes ==
  ASSUME TypeOK, NEW w \in Session,
         RequestDelete(w) \/ DeleteCleanup(w) \/ CommitDelete(w)
                          \/ RequestSchedule(w) \/ RequestUpdate(w)
                          \/ CommitSave(w)
  PROVE  TypeOK'
<1> USE DEF db, coro, count
<1>0. CoroOK /\ ctx[w] \in Record
  BY DEF TypeOK, CoroOK
<1>1. CASE RequestDelete(w)
  <2>1. job' \in [Jobs -> Moment]
    BY <1>1 DEF RequestDelete, NoJobs, Moment
  <2>2. [Blank EXCEPT !.kind = "api", !.linked = order.linked] \in Record
    BY BlankType DEF Record, TypeOK
  <2>3. CoroOK'
    BY <1>0, <1>1, <2>2, SessionType DEF RequestDelete, Phases
  <2>4. requests' \in 0 .. MaxRequest
    BY <1>1, ServeType DEF RequestDelete
  <2> QED
    BY <1>1, <2>1, <2>3, <2>4 DEF RequestDelete, Serve, TypeOK, CoroOK
<1>2. CASE DeleteCleanup(w)
  <2>1. CoroOK'
    BY <1>0, <1>2, SessionType, BlankType DEF DeleteCleanup, Phases
  <2> QED
    BY <1>2, <2>1 DEF DeleteCleanup, Work, TypeOK, CoroOK
<1>3. CASE CommitDelete(w)
  <2>1. CoroOK'
    BY <1>0, <1>3, SessionType, BlankType DEF CommitDelete, Raise, Phases
  <2>2. row' \in RowType
    BY <1>3 DEF CommitDelete, Raise, TypeOK, RowType, RowStatus
  <2>3. order' \in OrderType
    BY <1>3 DEF CommitDelete, Raise, TypeOK, OrderType, OrderStatus
  <2>4. runtime' \in BOOLEAN /\ released' \in BOOLEAN
    BY <1>0, <1>3 DEF CommitDelete, Raise, TypeOK, Record
  <2> QED
    BY <1>3, <2>1, <2>2, <2>3, <2>4
       DEF CommitDelete, Raise, Work, TypeOK, CoroOK, RowType, OrderType
<1>4. CASE RequestSchedule(w)
  <2>1. PICK s \in Moment, e \in Moment, k \in BOOLEAN :
          /\ job' = Registered(s, e)
          /\ Enter(w, "saving", [Blank EXCEPT !.kind = "api", !.startAt = s,
                        !.endAt = e, !.keep = k,
                        !.mark = s # NoTime /\ row.status # "scheduled"])
    BY <1>4 DEF RequestSchedule
  <2>2. [Blank EXCEPT !.kind = "api", !.startAt = s, !.endAt = e, !.keep = k,
           !.mark = s # NoTime /\ row.status # "scheduled"] \in Record
    BY BlankType DEF Record
  <2>3. CoroOK'
    BY <1>0, <2>1, <2>2, SessionType DEF Phases
  <2>4. job' \in [Jobs -> Moment]
    BY <2>1, RegisteredType
  <2>5. requests' \in 0 .. MaxRequest
    BY <1>4, ServeType DEF RequestSchedule
  <2> QED
    BY <1>4, <2>3, <2>4, <2>5 DEF RequestSchedule, Serve, TypeOK, CoroOK
<1>5. CASE RequestUpdate(w)
  <2>1. requests' \in 0 .. MaxRequest
    BY <1>5, ServeType DEF RequestUpdate
  <2>2. CoroOK' /\ job' \in [Jobs -> Moment]
    <3>1. CASE UpdateTimes(w)
      <4> DEFINE mark(s) == s # NoTime /\ row.status = "pending"
      <4>1. PICK s \in Moment, e \in Moment, k \in BOOLEAN :
              /\ job' = IF mark(s) THEN Registered(s, e) ELSE job
              /\ Enter(w, "saving", [Blank EXCEPT !.kind = "api",
                            !.startAt = s, !.endAt = e, !.keep = k,
                            !.mark = mark(s)])
        BY <3>1 DEF UpdateTimes
      <4>2. [Blank EXCEPT !.kind = "api", !.startAt = s, !.endAt = e,
                          !.keep = k, !.mark = mark(s)] \in Record
        BY BlankType DEF Record
      <4>3. CoroOK'
        BY <1>0, <4>1, <4>2, SessionType DEF Phases
      <4>4. job' \in [Jobs -> Moment]
        BY <4>1, RegisteredType DEF TypeOK
      <4> QED
        BY <4>3, <4>4
    <3>2. CASE UpdateKeep(w)
      <4>1. PICK k \in BOOLEAN :
              Enter(w, "saving", [Blank EXCEPT !.kind = "keep", !.keep = k])
        BY <3>2 DEF UpdateKeep
      <4>2. [Blank EXCEPT !.kind = "keep", !.keep = k] \in Record
        BY BlankType DEF Record
      <4>3. CoroOK'
        BY <1>0, <4>1, <4>2, SessionType DEF Phases
      <4> QED
        BY <3>2, <4>3 DEF UpdateKeep, TypeOK
    <3> QED
      BY <1>5, <3>1, <3>2 DEF RequestUpdate
  <2> QED
    BY <1>5, <2>1, <2>2 DEF RequestUpdate, Serve, TypeOK, CoroOK
<1>6. CASE CommitSave(w)
  <2>1. CoroOK'
    BY <1>0, <1>6, SessionType, BlankType DEF CommitSave, Raise, Phases
  <2>2. row' \in RowType
    BY <1>0, <1>6
       DEF CommitSave, Raise, TypeOK, RowType, RowStatus, Record
  <2> QED
    BY <1>6, <2>1, <2>2 DEF CommitSave, Raise, Work, TypeOK, CoroOK, RowType
<1> QED
  BY <1>1, <1>2, <1>3, <1>4, <1>5, <1>6

\* The clock, the faults and the process keep the types.
LEMMA WorldTypes ==
  ASSUME TypeOK,
         \/ \E w \in Session : LockWait(w) \/ StartRaises(w)
         \/ \E k \in Jobs : Misfire(k)
         \/ Tick \/ Crash \/ Restart
  PROVE  TypeOK'
<1> USE DEF db, coro, count
<1>1. ASSUME NEW w \in Session, LockWait(w) PROVE TypeOK'
  <2>1. CoroOK'
    BY <1>1, SessionType, BlankType DEF LockWait, TypeOK, CoroOK, Phases
  <2> QED
    BY <1>1, <2>1 DEF LockWait, TypeOK, CoroOK
<1>2. ASSUME NEW k \in Jobs, Misfire(k) PROVE TypeOK'
  BY <1>2 DEF Misfire, TypeOK, Moment
<1>3. CASE Tick
  <2>1. now' \in Time
    BY <1>3, TimeAssumption DEF Tick, TypeOK, Time
  <2> QED
    BY <1>3, <2>1 DEF Tick, TypeOK
<1>4. CASE Crash
  <2>1. crashes' \in 0 .. MaxCrash
    BY <1>4, BoundAssumption DEF Crash, TypeOK
  <2>2. ctx' \in [Session -> Record] /\ at' \in [Session -> Phases]
    BY <1>4, BlankType DEF Crash, Phases
  <2>3. job' \in [Jobs -> Moment]
    BY <1>4 DEF Crash, NoJobs, Moment
  <2> QED
    BY <1>4, <2>1, <2>2, <2>3 DEF Crash, TypeOK
<1>5. CASE Restart
  <2>1. row.startAt \in Moment /\ row.endAt \in Moment
    BY DEF TypeOK
  <2>2. row.endAt # NoTime => NextTime(row.endAt) \in Moment
    BY <2>1, NextTimeType DEF TypeOK, Moment
  <2>3. \A k \in Jobs : Restored(k) \in Moment
    BY <2>1, <2>2 DEF Restored, Moment
  <2> QED
    BY <1>5, <2>3 DEF Restart, TypeOK
<1>6. ASSUME NEW w \in Session, StartRaises(w) PROVE TypeOK'
  <2>1. CoroOK'
    BY <1>6, SessionType, BlankType DEF StartRaises, TypeOK, CoroOK, Phases
  <2>2. row' \in RowType
    BY <1>6 DEF StartRaises, TypeOK, RowType, RowStatus
  <2>3. order' \in OrderType
    BY <1>6 DEF StartRaises, TypeOK, OrderType
  <2>4. runtime' \in BOOLEAN
    BY <1>6 DEF StartRaises, TypeOK
  <2> QED
    BY <1>6, <2>1, <2>2, <2>3, <2>4 DEF StartRaises, TypeOK, CoroOK, RowType, OrderType
<1> QED
  BY <1>1, <1>2, <1>3, <1>4, <1>5, <1>6

\* Every step keeps the types.
LEMMA TypeStep == TypeOK /\ [Next]_vars => TypeOK'
<1> SUFFICES ASSUME TypeOK, [Next]_vars PROVE TypeOK'
  OBVIOUS
<1>1. CASE UNCHANGED vars
  BY <1>1 DEF vars, db, coro, count, TypeOK
<1>2. ASSUME NEW w \in Session,
             FireStart(w) \/ FireEnd(w) \/ Advance(w) \/ Request(w)
      PROVE  TypeOK'
  BY <1>2, StartTypes, ReadyTypes, StopTypes, FinishTypes, EditTypes
     DEF Advance, Request
<1> QED
  BY <1>1, <1>2, WorldTypes DEF Next

\* The rows, the jobs and the coroutines always have their shape, and only a
\* session at work holds a lock.
THEOREM ScheduleTypes == Spec => []TypeOK
<1> QED
  BY TypeInit, TypeStep, PTL DEF Spec

-----------------------------------------------------------------------------
(* The invariant.                                                           *)

IInv == TypeOK /\ Agreement /\ LetGoMeansReleased /\ GoneMeansLetGo
               /\ NotBeforeNetwork

\* The steps of one session.
Acts(w) == FireStart(w) \/ FireEnd(w) \/ Advance(w) \/ Request(w)
                        \/ LockWait(w) \/ StartRaises(w)

\* A session's step leaves the others where they are.
LEMMA OthersKeep ==
  ASSUME TypeOK, NEW w \in Session, Acts(w),
         NEW v \in Session, v # w
  PROVE  at'[v] = at[v] /\ ctx'[v] = ctx[v]
<1> USE DEF TypeOK, coro
<1>1. CASE FireStart(w)
  BY <1>1 DEF FireStart, Enter
<1>2. CASE FireEnd(w)
  BY <1>2 DEF FireEnd, BeginStop, Enter
<1>3. CASE Launch(w) \/ StartSucceeds(w) \/ StartFails(w)
  BY <1>3 DEF Launch, StartSucceeds, StartFails, Raise, Return
<1>4. CASE Halt(w) \/ CommitStop(w) \/ ReleaseAfterStop(w)
  BY <1>4 DEF Halt, CommitStop, ReleaseAfterStop, Raise, Return, Goto
<1>5. CASE FinishRead(w) \/ CleanUp(w) \/ FinishCommit(w)
  BY <1>5 DEF FinishRead, CleanUp, FinishCommit, Return, Goto
<1>6. CASE DeleteCleanup(w) \/ CommitDelete(w) \/ CommitSave(w)
  BY <1>6 DEF DeleteCleanup, CommitDelete, CommitSave, Raise, Return, Goto
<1>7. CASE RequestStart(w) \/ RequestStop(w) \/ RequestDelete(w)
  BY <1>7 DEF RequestStart, RequestStop, RequestDelete, BeginStop, Enter
<1>8. CASE RequestSchedule(w) \/ RequestUpdate(w)
  BY <1>8 DEF RequestSchedule, RequestUpdate, UpdateTimes, UpdateKeep, Enter
<1>9. CASE NetworkReady(w)
  BY <1>9 DEF NetworkReady, ConfirmOnly, ConfirmLate, ConfirmStart,
              ConfirmPlan, Enter
<1>10. CASE LockWait(w) \/ StartRaises(w)
  BY <1>10 DEF LockWait, StartRaises, Return
<1> QED
  BY <1>1, <1>2, <1>3, <1>4, <1>5, <1>6, <1>7, <1>8, <1>9, <1>10
     DEF Acts, Advance, Request

\* No step gives an order its link, its wait for the network or its first status
\* back, takes a release event out of its table or forgets a loss; and only a
\* delete and an end job let go of an order, a delete whenever it takes the link.
LEMMA OneWay ==
  ASSUME TypeOK, [Next]_vars
  PROVE  /\ order'.linked => order.linked
         /\ order'.waiting => order.waiting
         /\ order'.status = "materialized" => order.status = "materialized"
         /\ released => released'
         /\ lost => lost'
         /\ order.linked /\ ~ order'.linked => order'.status = "cancelled"
         /\ \/ order'.status \notin {"completed", "cancelled"}
            \/ order'.status = order.status
            \/ \E w \in Session : FinishCommit(w) \/ CommitDelete(w)
<1> USE DEF TypeOK, db, count
<1>1. CASE UNCHANGED vars
  BY <1>1 DEF vars
<1>2. ASSUME NEW w \in Session, FireStart(w) \/ FireEnd(w)
      PROVE  UNCHANGED <<order, released, lost>>
  BY <1>2 DEF FireStart, FireEnd
<1>3. ASSUME NEW w \in Session,
             RequestStart(w) \/ RequestStop(w) \/ RequestDelete(w)
             \/ RequestSchedule(w) \/ RequestUpdate(w)
      PROVE  UNCHANGED <<order, released, lost>>
  BY <1>3 DEF RequestStart, RequestStop, RequestDelete, RequestSchedule,
              RequestUpdate, Serve
<1>4. ASSUME NEW w \in Session, Launch(w) \/ Halt(w) \/ CommitStop(w)
             \/ FinishRead(w) \/ CleanUp(w) \/ DeleteCleanup(w)
             \/ CommitSave(w)
      PROVE  UNCHANGED <<order, released, lost>>
  BY <1>4 DEF Launch, Halt, CommitStop, FinishRead, CleanUp, DeleteCleanup,
              CommitSave, Raise
<1>5. ASSUME NEW w \in Session, StartSucceeds(w) \/ StartFails(w) \/ StartRaises(w)
      PROVE  /\ order' \in {order, [order EXCEPT !.waiting = FALSE]}
             /\ UNCHANGED <<released, lost>>
  BY <1>5 DEF StartSucceeds, StartFails, StartRaises, AfterStart, Raise
<1>6. ASSUME NEW w \in Session, ReleaseAfterStop(w)
      PROVE  UNCHANGED <<order, lost>> /\ (released => released')
  BY <1>6 DEF ReleaseAfterStop
<1>7. ASSUME NEW w \in Session, FinishCommit(w)
      PROVE  /\ order' \in {order, [order EXCEPT !.status = "completed"]}
             /\ UNCHANGED lost /\ (released => released')
  BY <1>7 DEF FinishCommit
<1>8. ASSUME NEW w \in Session, CommitDelete(w)
      PROVE  /\ order' \in {order,
                  [order EXCEPT !.status = "cancelled", !.linked = FALSE]}
             /\ UNCHANGED lost /\ (released => released')
  BY <1>8 DEF CommitDelete, Raise
<1>9. ASSUME NEW w \in Session, NetworkReady(w)
      PROVE  /\ order' \in {order, [order EXCEPT !.waiting = FALSE],
                  [order EXCEPT !.waiting = FALSE, !.status = "failed"]}
             /\ UNCHANGED <<released, lost>>
  BY <1>9 DEF NetworkReady, ConfirmOnly, ConfirmLate, ConfirmStart,
              ConfirmPlan, Confirm, Serve
<1>10. ASSUME NEW w \in Session, LockWait(w)
       PROVE  UNCHANGED <<order, released>> /\ lost'
  BY <1>10 DEF LockWait
<1>11. CASE Tick \/ Crash \/ Restart \/ \E k \in Jobs : Misfire(k)
  BY <1>11 DEF Tick, Crash, Restart, Misfire
<1>12. ASSUME NEW w \in Session, Acts(w)
       PROVE  /\ order' \in {order, [order EXCEPT !.waiting = FALSE],
                   [order EXCEPT !.status = "completed"],
                   [order EXCEPT !.status = "cancelled", !.linked = FALSE],
                   [order EXCEPT !.waiting = FALSE, !.status = "failed"]}
              /\ released => released'
              /\ lost => lost'
              /\ \/ order'.status \notin {"completed", "cancelled"}
                 \/ order'.status = order.status
                 \/ FinishCommit(w) \/ CommitDelete(w)
  BY <1>2, <1>3, <1>4, <1>5, <1>6, <1>7, <1>8, <1>9, <1>10, <1>12
     DEF Acts, Advance, Request
<1>13. \/ UNCHANGED vars
       \/ \E w \in Session : Acts(w)
       \/ Tick \/ Crash \/ Restart \/ \E k \in Jobs : Misfire(k)
  BY DEF Next, Acts
<1> QED
  BY <1>1, <1>11, <1>12, <1>13

\* A row is deleted by a delete or by an end job, and by no one while a
\* network-ready is at work on it.
LEMMA WhoDeletes ==
  ASSUME TypeOK, [Next]_vars, row'.status = "gone", row.status # "gone"
  PROVE  \E w \in Session : /\ CommitDelete(w) \/ FinishCommit(w)
                           /\ OrderFree
<1> USE DEF TypeOK, db, RowStatus
<1>1. CASE UNCHANGED vars
  BY <1>1 DEF vars
<1>2. ASSUME NEW w \in Session, FireStart(w) \/ FireEnd(w) \/ RequestStart(w)
             \/ RequestStop(w) \/ RequestDelete(w) \/ RequestSchedule(w)
             \/ RequestUpdate(w)
      PROVE  UNCHANGED row
  BY <1>2 DEF FireStart, FireEnd, RequestStart, RequestStop, RequestDelete,
              RequestSchedule, RequestUpdate
<1>3. ASSUME NEW w \in Session, Launch(w) \/ Halt(w) \/ FinishRead(w)
             \/ ReleaseAfterStop(w) \/ CleanUp(w) \/ DeleteCleanup(w)
             \/ LockWait(w)
      PROVE  UNCHANGED row
  BY <1>3 DEF Launch, Halt, FinishRead, ReleaseAfterStop, CleanUp,
              DeleteCleanup, LockWait
<1>4. ASSUME NEW w \in Session, StartSucceeds(w) \/ StartFails(w) \/ StartRaises(w)
      PROVE  row' \in {row, [row EXCEPT !.status = "running"],
                       [row EXCEPT !.status = "failed"],
                       [row EXCEPT !.status = "starting"]}
  BY <1>4 DEF StartSucceeds, StartFails, StartRaises, Raise
<1>5. ASSUME NEW w \in Session, CommitStop(w)
      PROVE  row' \in {row, [row EXCEPT !.status = "stopped"]}
  BY <1>5 DEF CommitStop, Raise
<1>6. ASSUME NEW w \in Session, CommitSave(w)
      PROVE  row'.status \in {row.status, "scheduled"}
  BY <1>6 DEF CommitSave, Raise
<1>7. ASSUME NEW w \in Session, NetworkReady(w)
      PROVE  row' \in {row, [row EXCEPT !.status = "expired"]}
  BY <1>7 DEF NetworkReady, ConfirmOnly, ConfirmLate, ConfirmStart, ConfirmPlan
<1>8. CASE Tick \/ Crash \/ Restart \/ \E k \in Jobs : Misfire(k)
  BY <1>8 DEF Tick, Crash, Restart, Misfire
<1>9. \E w \in Session : CommitDelete(w) \/ FinishCommit(w)
  BY <1>1, <1>2, <1>3, <1>4, <1>5, <1>6, <1>7, <1>8
     DEF Next, Advance, Request
<1> QED
  BY <1>9 DEF CommitDelete, FinishCommit

\* A session that has returned agrees with anything.
LEMMA ReturnAgrees ==
  ASSUME TypeOK, NEW w \in Session, Return(w)
  PROVE  SessionAgrees(w)' /\ ~ Confirming(w)'
<1>1. at'[w] = "idle" /\ ctx'[w] = Blank
  BY DEF TypeOK, Return
<1> QED
  BY <1>1 DEF SessionAgrees, Confirming, Blank

\* A session that stays where it is agrees as before: no row disappears under a
\* network-ready at work.
LEMMA StayAgrees ==
  ASSUME TypeOK, [Next]_vars, NEW v \in Session, SessionAgrees(v),
         at'[v] = at[v], ctx'[v] = ctx[v]
  PROVE  SessionAgrees(v)'
<1>1. Confirming(v) => row'.status # "gone"
  <2> SUFFICES ASSUME Confirming(v), row'.status = "gone" PROVE FALSE
    OBVIOUS
  <2>1. row.status # "gone"
    BY DEF SessionAgrees
  <2>2. OrderFree
    BY <2>1, WhoDeletes
  <2> QED
    BY <2>2 DEF OrderFree, Confirming
<1> QED
  BY <1>1, OneWay DEF SessionAgrees, Confirming

\* Starting keeps the session in agreement: only a confirmation starts an
\* instance that waits for its network.
LEMMA StartAgrees ==
  ASSUME TypeOK, [Next]_vars, NEW w \in Session, SessionAgrees(w),
         FireStart(w) \/ RequestStart(w) \/ Launch(w) \/ StartSucceeds(w)
                      \/ StartFails(w) \/ StartRaises(w)
  PROVE  SessionAgrees(w)'
<1> USE DEF TypeOK, db
<1>1. CASE FireStart(w)
  <2>1. CASE Startable
    <3>1. /\ at'[w] = "starting" /\ ctx'[w] = [Blank EXCEPT !.kind = "job"]
          /\ UNCHANGED <<row, order>>
      BY <1>1, <2>1 DEF FireStart, Enter
    <3> QED
      BY <2>1, <3>1 DEF SessionAgrees, Confirming, Startable, Blank
  <2>2. CASE ~ Startable
    BY <1>1, <2>2, StayAgrees DEF FireStart, coro
  <2> QED
    BY <2>1, <2>2
<1>2. CASE RequestStart(w)
  <2>1. /\ at'[w] = "starting" /\ ctx'[w] = [Blank EXCEPT !.kind = "api"]
        /\ UNCHANGED <<row, order>>
    BY <1>2 DEF RequestStart, Enter
  <2> QED
    BY <1>2, <2>1 DEF RequestStart, SessionAgrees, Confirming, Startable, Blank
<1>3. CASE Launch(w)
  <2>1. /\ at[w] = "starting" /\ at'[w] = "launched"
        /\ UNCHANGED <<row, order, ctx>>
    BY <1>3 DEF Launch, Work
  <2> QED
    BY <2>1 DEF SessionAgrees, Confirming
<1>4. CASE StartSucceeds(w) \/ StartFails(w) \/ StartRaises(w)
  <2>1. Return(w)
    BY <1>4 DEF StartSucceeds, StartFails, StartRaises, Raise
  <2> QED
    BY <2>1, ReturnAgrees
<1> QED
  BY <1>1, <1>2, <1>3, <1>4

\* Stopping, deleting, editing and confirming, too: who deletes knows the order
\* it will cancel.
LEMMA StopAgrees ==
  ASSUME TypeOK, [Next]_vars, NEW w \in Session, SessionAgrees(w),
         FireEnd(w) \/ RequestStop(w) \/ Halt(w) \/ CommitStop(w)
         \/ ReleaseAfterStop(w) \/ RequestDelete(w) \/ DeleteCleanup(w)
         \/ CommitDelete(w) \/ RequestSchedule(w) \/ RequestUpdate(w)
         \/ CommitSave(w) \/ NetworkReady(w) \/ LockWait(w)
  PROVE  SessionAgrees(w)'
<1> USE DEF TypeOK, db
<1>1. CASE FireEnd(w)
  <2>1. CASE row.status = "gone"
    BY <1>1, <2>1, StayAgrees DEF FireEnd, coro
  <2>2. CASE row.status # "gone"
    <3>1. /\ at'[w] \in {"finish", "release", "halting"}
          /\ ctx'[w] = Seen([Blank EXCEPT !.kind = "job"])
      BY <1>1, <2>2 DEF FireEnd, BeginStop, Enter
    <3> QED
      BY <3>1 DEF SessionAgrees, Confirming, Seen, Blank
  <2> QED
    BY <2>1, <2>2
<1>2. CASE RequestStop(w)
  <2>1. /\ at'[w] \in {"finish", "release", "halting"}
        /\ ctx'[w] = [Blank EXCEPT !.kind = "api"]
    BY <1>2 DEF RequestStop, BeginStop, Enter
  <2> QED
    BY <2>1 DEF SessionAgrees, Confirming, Blank
<1>3. CASE Halt(w)
  BY <1>3 DEF Halt, Goto, SessionAgrees, Confirming
<1>4. CASE CommitStop(w)
  <2>1. CASE Raise(w)
    BY <2>1, ReturnAgrees DEF Raise
  <2>2. CASE ~ Raise(w)
    <3>1. at'[w] \in {"finish", "release"} /\ ctx' = ctx
      BY <1>4, <2>2 DEF CommitStop, Goto
    <3> QED
      BY <3>1 DEF SessionAgrees, Confirming
  <2> QED
    BY <2>1, <2>2
<1>5. CASE ReleaseAfterStop(w) \/ LockWait(w)
  BY <1>5, ReturnAgrees DEF ReleaseAfterStop, LockWait
<1>6. CASE RequestDelete(w)
  <2>1. /\ at'[w] = "deleting" /\ UNCHANGED order
        /\ ctx'[w] = [Blank EXCEPT !.kind = "api", !.linked = order.linked]
    BY <1>6 DEF RequestDelete, Enter
  <2> QED
    BY <2>1 DEF SessionAgrees, Confirming, Blank
<1>7. CASE DeleteCleanup(w)
  <2>1. /\ at[w] = "deleting" /\ at'[w] = "deleted"
        /\ UNCHANGED <<order, ctx>>
    BY <1>7 DEF DeleteCleanup, Work, Goto
  <2> QED
    BY <2>1 DEF SessionAgrees, Confirming
<1>8. CASE CommitDelete(w) \/ CommitSave(w)
  BY <1>8, ReturnAgrees DEF CommitDelete, CommitSave, Raise
<1>9. CASE RequestSchedule(w) \/ RequestUpdate(w)
  <2> DEFINE asked(s, e, k, m) ==
        [Blank EXCEPT !.kind = "api", !.startAt = s, !.endAt = e, !.keep = k,
                      !.mark = m]
  <2>1. ASSUME NEW s, NEW e, NEW k, NEW m, Enter(w, "saving", asked(s, e, k, m))
        PROVE  at'[w] = "saving" /\ ~ ctx'[w].complete
    BY <2>1 DEF Enter, Blank
  <2>2. CASE RequestSchedule(w)
    <3>1. PICK s, e \in Moment, k \in BOOLEAN :
            Enter(w, "saving",
                  asked(s, e, k, s # NoTime /\ row.status # "scheduled"))
      BY <2>2 DEF RequestSchedule
    <3> QED
      BY <2>1, <3>1 DEF SessionAgrees, Confirming
  <2>3. CASE UpdateTimes(w)
    <3>1. PICK s, e \in Moment, k \in BOOLEAN :
            Enter(w, "saving",
                  asked(s, e, k, s # NoTime /\ row.status = "pending"))
      BY <2>3 DEF UpdateTimes
    <3> QED
      BY <2>1, <3>1 DEF SessionAgrees, Confirming
  <2>4. CASE UpdateKeep(w)
    <3>1. PICK k \in BOOLEAN :
            Enter(w, "saving", [Blank EXCEPT !.kind = "keep", !.keep = k])
      BY <2>4 DEF UpdateKeep
    <3>2. at'[w] = "saving" /\ ~ ctx'[w].complete
      BY <3>1 DEF Enter, Blank
    <3> QED
      BY <3>2 DEF SessionAgrees, Confirming
  <2> QED
    BY <1>9, <2>2, <2>3, <2>4 DEF RequestUpdate
<1>10. CASE NetworkReady(w)
  <2>1. CASE ConfirmOnly(w) \/ ConfirmLate(w) \/ ConfirmPlan(w)
    <3>1. UNCHANGED coro
      BY <2>1 DEF ConfirmOnly, ConfirmLate, ConfirmPlan
    <3>2. at[w] = "idle"
      BY <2>1 DEF ConfirmOnly, ConfirmLate, ConfirmPlan, Confirm, Serve
    <3> QED
      BY <3>1, <3>2 DEF coro, SessionAgrees, Confirming
  <2>2. CASE ConfirmStart(w)
    <3>1. /\ at'[w] = "starting" /\ ctx'[w] = [Blank EXCEPT !.kind = "ready"]
          /\ row' = row /\ row.status # "gone"
      BY <2>2 DEF ConfirmStart, Enter
    <3> QED
      BY <3>1 DEF SessionAgrees, Confirming, Blank
  <2> QED
    BY <1>10, <2>1, <2>2 DEF NetworkReady
<1> QED
  BY <1>1, <1>2, <1>3, <1>4, <1>5, <1>6, <1>7, <1>8, <1>9, <1>10

\* What the end job does after the stop: it reads an order that is linked as
\* long as it is `materialized'.
LEMMA FinishAgrees ==
  ASSUME TypeOK, Agreement, [Next]_vars, NEW w \in Session,
         FinishRead(w) \/ CleanUp(w) \/ FinishCommit(w)
  PROVE  SessionAgrees(w)'
<1> USE DEF TypeOK, db
<1>1. SessionAgrees(w) /\ (~ order.linked => order.status # "materialized")
  BY DEF Agreement
<1>2. CASE FinishRead(w)
  <2>1. CASE row.status = "gone"
    BY <1>2, <2>1, ReturnAgrees DEF FinishRead
  <2>2. CASE row.status # "gone"
    <3>1. PICK seen \in {ctx[w], Seen(ctx[w])} :
            ctx' = [ctx EXCEPT ![w] = [seen EXCEPT
              !.complete = order.linked /\ order.status = "materialized",
              !.linked = order.linked]]
      BY <1>2, <2>2 DEF FinishRead
    <3>2. seen \in Record
      BY <3>1, SeenType
    <3>3. /\ ctx'[w].complete = (order.linked /\ order.status = "materialized")
          /\ ctx'[w].linked = order.linked
      BY <3>1, <3>2 DEF Record
    <3>4. /\ at'[w] \in {"cleaned", "finishing"}
          /\ UNCHANGED order
      BY <1>2, <2>2 DEF FinishRead
    <3> QED
      BY <1>1, <3>3, <3>4 DEF SessionAgrees, Confirming
  <2> QED
    BY <2>1, <2>2
<1>3. CASE CleanUp(w)
  <2>1. /\ at[w] = "finishing" /\ at'[w] = "cleaned"
        /\ UNCHANGED <<order, ctx>>
    BY <1>3 DEF CleanUp, Work, Goto
  <2> QED
    BY <1>1, <2>1 DEF SessionAgrees, Confirming
<1>4. CASE FinishCommit(w)
  BY <1>4, ReturnAgrees DEF FinishCommit
<1> QED
  BY <1>2, <1>3, <1>4

\* The initial states satisfy the invariant.
LEMMA IInvInit == Init => IInv
<1> SUFFICES ASSUME Init PROVE IInv
  OBVIOUS
<1>1. /\ order.linked /\ order.status = "materialized"
      /\ row.status # "gone" /\ ~ containers
      /\ \A w \in Session : at[w] = "idle" /\ ctx[w] = Blank
  BY DEF Init
<1>2. ASSUME NEW w \in Session PROVE SessionAgrees(w)
  <2>1. at[w] = "idle" /\ ~ ctx[w].complete
    BY <1>1 DEF Blank
  <2> QED
    BY <2>1 DEF SessionAgrees, Confirming
<1> QED
  BY <1>1, <1>2, TypeInit
     DEF IInv, Agreement, LetGoMeansReleased, GoneMeansLetGo, NotBeforeNetwork

\* Every step keeps the sessions in agreement with the rows.
LEMMA AgreementStep == TypeOK /\ Agreement /\ [Next]_vars => Agreement'
<1> SUFFICES ASSUME TypeOK, Agreement, [Next]_vars PROVE Agreement'
  OBVIOUS
<1>1. ~ order'.linked => order'.status # "materialized"
  BY OneWay DEF Agreement, TypeOK, OrderStatus
<1>2. \A v \in Session : SessionAgrees(v)
  BY DEF Agreement
<1>3. ASSUME NEW w \in Session, Acts(w)
      PROVE  \A v \in Session : SessionAgrees(v)'
  <2>1. SessionAgrees(w)'
    BY <1>2, <1>3, StartAgrees, StopAgrees, FinishAgrees
       DEF Acts, Advance, Request
  <2>2. ASSUME NEW v \in Session, v # w PROVE SessionAgrees(v)'
    BY <1>2, <1>3, <2>2, OthersKeep, StayAgrees
  <2> QED
    BY <2>1, <2>2
<1>4. CASE \/ UNCHANGED vars \/ Tick \/ Restart
           \/ \E k \in Jobs : Misfire(k)
  <2>1. UNCHANGED <<at, ctx>>
    BY <1>4 DEF vars, coro, Tick, Restart, Misfire
  <2> QED
    BY <1>1, <1>2, <2>1, StayAgrees DEF Agreement
<1>5. CASE Crash
  <2>1. \A v \in Session : at'[v] = "idle" /\ ctx'[v] = Blank
    BY <1>5 DEF Crash
  <2>2. \A v \in Session : SessionAgrees(v)'
    BY <2>1 DEF SessionAgrees, Confirming, Blank
  <2> QED
    BY <1>1, <2>2 DEF Agreement
<1> QED
  BY <1>1, <1>3, <1>4, <1>5 DEF Agreement, Next, Acts

\* Every step that lets go of the order puts its release event in the table.
LEMMA ReleaseStep == IInv /\ [Next]_vars => LetGoMeansReleased'
<1> SUFFICES ASSUME IInv, [Next]_vars,
                    order'.status \in {"completed", "cancelled"}
             PROVE  released'
  BY DEF LetGoMeansReleased
<1>1. CASE order'.status = order.status
  BY <1>1, OneWay DEF IInv, LetGoMeansReleased
<1>2. ASSUME NEW w \in Session, FinishCommit(w), order'.status # order.status
      PROVE  released'
  <2>1. ctx[w].complete /\ ctx[w].linked
    BY <1>2 DEF FinishCommit, db, IInv, TypeOK, Agreement, SessionAgrees
  <2> QED
    BY <1>2, <2>1 DEF FinishCommit, db
<1>3. ASSUME NEW w \in Session, CommitDelete(w), order'.status # order.status
      PROVE  released'
  <2>1. order.linked /\ at[w] = "deleted"
    BY <1>3 DEF CommitDelete, Raise, Work, db
  <2>2. ctx[w].linked
    BY <2>1 DEF IInv, Agreement, SessionAgrees
  <2> QED
    BY <1>3, <2>2 DEF CommitDelete, Raise, db
<1> QED
  BY <1>1, <1>2, <1>3, OneWay DEF IInv

\* Every step that deletes the row lets go of the order.
LEMMA GoneStep == IInv /\ [Next]_vars => GoneMeansLetGo'
<1> SUFFICES ASSUME IInv, [Next]_vars, row'.status = "gone"
             PROVE  order'.status # "materialized"
  BY DEF GoneMeansLetGo
<1>1. TypeOK /\ Agreement
  BY DEF IInv
<1>2. CASE row.status = "gone"
  BY <1>1, <1>2, OneWay DEF IInv, GoneMeansLetGo
<1>3. ASSUME row.status # "gone", NEW w \in Session, CommitDelete(w)
      PROVE  order'.status # "materialized"
  BY <1>1, <1>3 DEF CommitDelete, Raise, TypeOK, Agreement
<1>4. ASSUME row.status # "gone", NEW w \in Session, FinishCommit(w)
      PROVE  order'.status # "materialized"
  <2>1. at[w] = "cleaned" /\ SessionAgrees(w)
    BY <1>1, <1>4 DEF FinishCommit, Work, Agreement
  <2>2. order.status = "materialized" => ctx[w].complete
    BY <2>1 DEF SessionAgrees
  <2> QED
    BY <1>1, <1>4, <2>2 DEF FinishCommit, TypeOK
<1> QED
  BY <1>1, <1>2, <1>3, <1>4, WhoDeletes

\* Only a launch runs containers that were not running.
LEMMA WhoRuns ==
  ASSUME TypeOK, [Next]_vars, containers', ~ containers
  PROVE  \E w \in Session : Launch(w)
<1>1. ASSUME NEW w \in Session, FireStart(w) \/ FireEnd(w) \/ RequestStart(w)
             \/ RequestStop(w) \/ RequestDelete(w) \/ RequestSchedule(w)
             \/ RequestUpdate(w) \/ NetworkReady(w) \/ LockWait(w)
      PROVE  UNCHANGED containers
  BY <1>1 DEF FireStart, FireEnd, RequestStart, RequestStop, RequestDelete,
              RequestSchedule, RequestUpdate, NetworkReady, ConfirmOnly,
              ConfirmLate, ConfirmStart, ConfirmPlan, Confirm, LockWait
<1>2. ASSUME NEW w \in Session,
             StartSucceeds(w) \/ StartFails(w) \/ Halt(w) \/ CommitStop(w)
             \/ ReleaseAfterStop(w) \/ FinishRead(w) \/ CleanUp(w)
             \/ FinishCommit(w) \/ DeleteCleanup(w) \/ CommitDelete(w)
             \/ CommitSave(w) \/ StartRaises(w)
      PROVE  containers' \in {containers, FALSE}
  BY <1>2 DEF StartSucceeds, StartFails, StartRaises, Halt, CommitStop, ReleaseAfterStop,
              FinishRead, CleanUp, FinishCommit, DeleteCleanup, CommitDelete,
              CommitSave, Raise
<1>3. CASE \/ UNCHANGED vars \/ Tick \/ Crash \/ Restart
           \/ \E k \in Jobs : Misfire(k)
  BY <1>3 DEF vars, Tick, Crash, Restart, Misfire
<1> QED
  BY <1>1, <1>2, <1>3 DEF Next, Advance, Request

\* A network-ready at work goes on to the commit that ends the wait, unless a
\* fault cuts it short.
LEMMA ConfirmStep ==
  ASSUME IInv, [Next]_vars, NEW w \in Session, Confirming(w)
  PROVE  \/ Confirming(w)' \/ lost' \/ ~ order'.waiting
<1>1. /\ TypeOK /\ row.status # "gone" /\ ctx[w].kind = "ready"
      /\ at[w] \in {"starting", "launched"}
  BY DEF IInv, Agreement, SessionAgrees, Confirming
<1>2. CASE at'[w] = at[w] /\ ctx'[w] = ctx[w]
  BY <1>2 DEF Confirming
<1>3. ASSUME Acts(w)
      PROVE  Launch(w) \/ StartSucceeds(w) \/ StartFails(w) \/ LockWait(w)
             \/ StartRaises(w) \/ (at'[w] = at[w] /\ ctx'[w] = ctx[w])
  <2>1. ~ (FireStart(w) \/ FireEnd(w))
    BY <1>1 DEF FireStart, FireEnd
  <2>2. ~ (Halt(w) \/ CommitStop(w) \/ ReleaseAfterStop(w) \/ FinishRead(w)
           \/ CleanUp(w) \/ FinishCommit(w) \/ DeleteCleanup(w)
           \/ CommitDelete(w) \/ CommitSave(w))
    BY <1>1 DEF Halt, CommitStop, ReleaseAfterStop, FinishRead, CleanUp,
                FinishCommit, DeleteCleanup, CommitDelete, CommitSave, Work
  <2>3. ~ Request(w)
    BY <1>1 DEF Request, RequestStart, RequestStop, RequestDelete,
                RequestSchedule, RequestUpdate, NetworkReady, ConfirmOnly,
                ConfirmLate, ConfirmStart, ConfirmPlan, Confirm, Serve
  <2> QED
    BY <1>3, <2>1, <2>2, <2>3 DEF Acts, Advance
<1>4. CASE Launch(w)
  BY <1>1, <1>4 DEF Launch, Confirming, TypeOK
<1>5. CASE StartSucceeds(w) \/ StartFails(w)
  <2>1. AfterStart(w)
    BY <1>1, <1>5 DEF StartSucceeds, StartFails, Raise
  <2> QED
    BY <1>1, <2>1 DEF AfterStart, TypeOK
<1>6. CASE LockWait(w) \/ Crash
  BY <1>6 DEF LockWait, Crash
<1>7. CASE \/ UNCHANGED vars \/ Tick \/ Restart
           \/ \E k \in Jobs : Misfire(k)
  BY <1>2, <1>7 DEF vars, coro, Tick, Restart, Misfire
<1>8. ASSUME NEW v \in Session, Acts(v), v # w
      PROVE  at'[w] = at[w] /\ ctx'[w] = ctx[w]
  BY <1>1, <1>8, OthersKeep
<1>9. CASE StartRaises(w)
  BY <1>1, <1>9 DEF StartRaises, TypeOK
<1> QED
  BY <1>2, <1>3, <1>4, <1>5, <1>6, <1>7, <1>8, <1>9 DEF Next, Acts

\* Every step keeps the containers down until the network is confirmed.
LEMMA NetworkStep == IInv /\ [Next]_vars => NotBeforeNetwork'
<1> SUFFICES ASSUME IInv, [Next]_vars, order'.waiting, containers', ~ lost'
             PROVE  \E w \in Session : Confirming(w)'
  BY DEF NotBeforeNetwork
<1>1. order.waiting /\ ~ lost /\ TypeOK
  BY OneWay DEF IInv
<1>2. CASE containers
  <2>1. PICK w \in Session : Confirming(w)
    BY <1>1, <1>2 DEF IInv, NotBeforeNetwork
  <2> QED
    BY <2>1, ConfirmStep
<1>3. CASE ~ containers
  <2>1. PICK w \in Session : Launch(w)
    BY <1>1, <1>3, WhoRuns
  <2>2. at[w] = "starting" /\ ctx[w].kind = "ready"
    BY <1>1, <2>1 DEF Launch, Work, IInv, Agreement, SessionAgrees
  <2>3. Confirming(w)'
    BY <1>1, <2>1, <2>2 DEF Launch, Confirming, TypeOK
  <2> QED
    BY <2>3
<1> QED
  BY <1>2, <1>3

\* The conjunction is inductive.
LEMMA IInvStep == IInv /\ [Next]_vars => IInv'
  BY TypeStep, AgreementStep, ReleaseStep, GoneStep, NetworkStep DEF IInv

\* The invariant the theorems below are parts of.
THEOREM ScheduleInvariant == Spec => []IInv
<1> QED
  BY IInvInit, IInvStep, PTL DEF Spec

\* What a coroutine has read and still acts upon agrees with the rows, however
\* many coroutines there are.
THEOREM SessionsAgree == Spec => []Agreement
<1>1. IInv => Agreement
  BY DEF IInv
<1> QED
  BY <1>1, ScheduleInvariant, PTL

\* An order that is completed or cancelled has its release event in the table:
\* the GPU goes back to the router.
THEOREM ReleasedWhenOver == Spec => []LetGoMeansReleased
<1>1. IInv => LetGoMeansReleased
  BY DEF IInv
<1> QED
  BY <1>1, ScheduleInvariant, PTL

\* No order is left `materialized' for an instance whose row is deleted.
THEOREM OrderFollowsRow == Spec => []GoneMeansLetGo
<1>1. IInv => GoneMeansLetGo
  BY DEF IInv
<1> QED
  BY <1>1, ScheduleInvariant, PTL

\* No container runs before the router has confirmed the network.
THEOREM NetworkFirst == Spec => []NotBeforeNetwork
<1>1. IInv => NotBeforeNetwork
  BY DEF IInv
<1> QED
  BY <1>1, ScheduleInvariant, PTL

=============================================================================
