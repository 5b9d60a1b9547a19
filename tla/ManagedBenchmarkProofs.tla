----------------------- MODULE ManagedBenchmarkProofs -----------------------
(* Theorems about ManagedBenchmark.                                        *)
EXTENDS ManagedBenchmark, FiniteSetTheorems, TLAPS

-----------------------------------------------------------------------------
(* Types.                                                                  *)

Snapshot == [pc : {"off", "recover", "clean", "claim", "final"}, ord : [Orders -> OrderStatus],
             inst : [Orders -> InstanceStatus], done : SUBSET Orders, fresh : BOOLEAN,
             started : 0 .. Cardinality(Orders), lost : SUBSET Orders]
Controllers(n) ==
  [pc : {"off", "top", "advance", "ending"}, round : 0 .. n,
   idle : 0 .. Patience, errors : 0 .. Patience, waits : 0 .. RouteRounds,
   unrouted : 0 .. Cardinality(Orders), ending : Phases]
Stoppers == [pc : {"off", "wait", "starts", "stop"}, await : SUBSET Keys,
             ord : [Orders -> OrderStatus], todo : SUBSET Orders]

\* The type invariant in the words of these record sets.
BenchType ==
  /\ ord \in [Orders -> OrderStatus] /\ inst \in [Orders -> InstanceStatus]
  /\ done \subseteq Orders
  /\ phase \in Phases /\ {alive, watch} \subseteq BOOLEAN
  /\ flag \in [Keys -> BOOLEAN] /\ known \in [Keys -> BOOLEAN]
  /\ shared \subseteq {"manual", "controllers"} /\ quiet \in {"no", "asked", "yes"}
  /\ bg \in [Orders -> {"none", "queued", "working"}]
  /\ loop \in [Keys -> Controllers(menu.rounds)]
  /\ adv \in [Advancers -> Snapshot] /\ stopper \in Stoppers
  /\ menu \in Menus /\ events \in 0 .. menu.events
  /\ again \subseteq Orders /\ cut \subseteq Orders

\* They are those of TypeOK.
LEMMA Typed == BenchType => TypeOK
  BY DEF BenchType, TypeOK, Controllers, Snapshot, Stoppers

\* The bounds of a menu.
LEMMA MenuBounds == ASSUME BenchType PROVE menu.rounds \in Nat \ {0} /\ menu.events \in Nat
  BY BoundsAssumption DEF BenchType

\* A set of the run's orders has at most as many members as the run has orders.
LEMMA Count ==
  ASSUME NEW S \in SUBSET Orders
  PROVE  IsFiniteSet(S) /\ Cardinality(S) \in 0 .. Cardinality(Orders)
  BY OrdersAssumption, FS_Subset, FS_CardinalityType

\* What the initial values of the controller, an advance and a stop are.
LEMMA Nothing ==
  /\ \A n \in Nat : NoLoop \in Controllers(n) /\ [NoLoop EXCEPT !.pc = "top"] \in Controllers(n)
  /\ NoAdvance \in Snapshot /\ NoStop \in Stoppers
<1>1. 0 \in 0 .. Cardinality(Orders)
  BY OrdersAssumption, FS_CardinalityType
<1> QED
  BY <1>1, BoundsAssumption DEF NoLoop, NoAdvance, NoStop, Controllers, Snapshot, Stoppers,
     OrderStatus, InstanceStatus, Phases, ActivePhases

\* A controller's last record names one of the outcomes.
LEMMA EndingType == ASSUME NEW n \in Nat, NEW p \in Phases PROVE Ending(p) \in Controllers(n)
  BY Nothing DEF Ending, Controllers, NoLoop

\* A controller that goes on has a controller's record.
LEMMA NextRound ==
  ASSUME NEW n \in Nat, NEW c \in Controllers(n), NEW i \in 0 .. Patience,
         NEW w \in 0 .. RouteRounds, NEW u \in 0 .. Cardinality(Orders)
  PROVE  [c EXCEPT !.pc = "top", !.errors = 0, !.idle = i, !.waits = w, !.unrouted = u]
           \in Controllers(n)
<1> DEFINE c1 == [c EXCEPT !.pc = "top"]
           c2 == [c1 EXCEPT !.errors = 0]
           c3 == [c2 EXCEPT !.idle = i]
           c4 == [c3 EXCEPT !.waits = w]
<1>1. c1 \in Controllers(n)
  BY DEF Controllers
<1>2. c2 \in Controllers(n)
  <2> HIDE DEF c1
  <2> QED
    BY <1>1, BoundsAssumption DEF Controllers
<1>3. c3 \in Controllers(n)
  <2> HIDE DEF c2
  <2> QED
    BY <1>2 DEF Controllers
<1>4. c4 \in Controllers(n)
  <2> HIDE DEF c3
  <2> QED
    BY <1>3 DEF Controllers
<1>5. [c4 EXCEPT !.unrouted = u] \in Controllers(n)
  <2> HIDE DEF c4
  <2> QED
    BY <1>4 DEF Controllers
<1> QED
  BY <1>5

\* The decision at the end of a round leaves a controller's record.
LEMMA DecideType ==
  ASSUME NEW n \in Nat, NEW v \in Snapshot, NEW k \in Keys, loop[k] \in Controllers(n)
  PROVE  Decide(k, v) \in Controllers(n)
<1> DEFINE run       == {o \in Orders : v.ord[o] # "cancelled"}
           evaluated == v.done \cap run
           unrouted  == {o \in run : v.ord[o] = "pending"}
           active    == {o \in run \ evaluated : v.inst[o] \in {"starting", "running"}}
           waiting   == {o \in run \ (evaluated \cup active) : v.ord[o] = "materialized"}
           uncleaned == {o \in evaluated : v.inst[o] # "gone"}
           waits     == IF unrouted = {} THEN 0
                        ELSE IF loop[k].unrouted = 0 \/ Cardinality(unrouted) < loop[k].unrouted
                        THEN 1 ELSE loop[k].waits + 1
           busy      == run # {} /\ (evaluated # run \/ uncleaned = {})
                          /\ (v.started > 0 \/ active # {})
           idle      == IF busy THEN 0 ELSE IF loop[k].idle < Patience THEN loop[k].idle + 1
                        ELSE Patience
           next      == [loop[k] EXCEPT !.pc = "top", !.errors = 0, !.idle = idle, !.waits = waits,
                                        !.unrouted = Cardinality(unrouted)]
<1>1. Cardinality(unrouted) \in 0 .. Cardinality(Orders)
  BY Count
<1>2. \A p \in {"failed", "completed", "blocked"} : Ending(p) \in Controllers(n)
  BY EndingType DEF Phases
<1>3. idle \in 0 .. Patience
  BY BoundsAssumption DEF Controllers
<1>4. waits \in Nat /\ (unrouted = {} => waits = 0)
  BY DEF Controllers
<1>5. ASSUME unrouted = {} \/ ~ waits >= RouteRounds PROVE next \in Controllers(n)
  <2>1. waits \in 0 .. RouteRounds
    BY <1>4, <1>5, BoundsAssumption
  <2> HIDE DEF idle, waits, unrouted
  <2> QED
    BY <1>1, <1>3, <2>1, NextRound
<1>6. \/ Decide(k, v) \in {Ending("failed"), Ending("completed"), Ending("blocked")}
      \/ Decide(k, v) = next /\ (unrouted = {} \/ ~ waits >= RouteRounds)
  BY Zenon DEF Decide
<1> QED
  BY <1>2, <1>5, <1>6

\* What an advance knows after a cleanup is still a snapshot.
LEMMA CleaningType ==
  ASSUME NEW v \in Snapshot, NEW some \in SUBSET Orders, NEW refused \in SUBSET some
  PROVE  AfterCleaning(v, some, refused) \in Snapshot
<1> DEFINE newOrd  == [o \in Orders |-> IF o \in some \ refused THEN "completed" ELSE v.ord[o]]
           newInst == [o \in Orders |-> IF o \in some \ refused THEN "gone" ELSE v.inst[o]]
           fresh   == v.fresh \/ Commits(v, some, refused)
<1>1. newOrd \in [Orders -> OrderStatus] /\ newInst \in [Orders -> InstanceStatus]
  BY DEF Snapshot, OrderStatus, InstanceStatus
<1>2. fresh \in BOOLEAN
  BY DEF Snapshot, Commits
<1>3. AfterCleaning(v, some, refused)
        = [v EXCEPT !.ord = newOrd, !.inst = newInst, !.fresh = fresh]
  BY DEF AfterCleaning
<1> HIDE DEF newOrd, newInst, fresh
<1>4. [v EXCEPT !.ord = newOrd] \in Snapshot
  BY <1>1 DEF Snapshot
<1>5. [[v EXCEPT !.ord = newOrd] EXCEPT !.inst = newInst] \in Snapshot
  BY <1>1, <1>4 DEF Snapshot
<1>6. [[[v EXCEPT !.ord = newOrd] EXCEPT !.inst = newInst] EXCEPT !.fresh = fresh] \in Snapshot
  BY <1>2, <1>5 DEF Snapshot
<1> QED
  BY <1>3, <1>6

\* A cleanup leaves statuses in the rows.
LEMMA CleanUpType ==
  ASSUME BenchType, NEW some, NEW refused, CleanUp(some, refused)
  PROVE  ord' \in [Orders -> OrderStatus] /\ inst' \in [Orders -> InstanceStatus]
  BY DEF BenchType, CleanUp, OrderStatus, InstanceStatus

\* A first reading is a snapshot.
LEMMA ReadType ==
  ASSUME BenchType, NEW a \in Advancers, Read(a)
  PROVE  adv' \in [Advancers -> Snapshot]
<1> DEFINE v == [NoAdvance EXCEPT !.ord = ord, !.inst = inst, !.done = done]
<1>1. [NoAdvance EXCEPT !.ord = ord] \in Snapshot
  BY Nothing DEF BenchType, Snapshot
<1>2. [[NoAdvance EXCEPT !.ord = ord] EXCEPT !.inst = inst] \in Snapshot
  BY <1>1 DEF BenchType, Snapshot
<1>3. v \in Snapshot
  BY <1>2 DEF BenchType, Snapshot
<1>4. adv' = [adv EXCEPT ![a] = [v EXCEPT !.pc = Part(v)]]
  BY DEF Read
<1>5. Part(v) \in {"recover", "clean", "claim"}
  BY DEF Part
<1> HIDE DEF v
<1>6. [v EXCEPT !.pc = Part(v)] \in Snapshot
  BY <1>3, <1>5 DEF Snapshot
<1> QED
  BY <1>4, <1>6 DEF BenchType, Snapshot

\* The controller a request or a restore starts.
LEMMA ControllerType ==
  ASSUME BenchType, NEW k \in Keys, Controller(k)
  PROVE  /\ loop' \in [Keys -> Controllers(menu.rounds)] /\ known' \in [Keys -> BOOLEAN]
         /\ shared' \subseteq {"manual", "controllers"}
<1>1. [NoLoop EXCEPT !.pc = "top"] \in Controllers(menu.rounds)
  BY MenuBounds, Nothing
<1> QED
  BY <1>1 DEF BenchType, Controller

\* The rows around the run.
Outside(o) == Route(o) \/ Report(o) \/ StopInstance(o) \/ DeleteInstance(o)

\* An advance at another part is still a snapshot.
LEMMA PartType ==
  ASSUME NEW v \in Snapshot, NEW p \in {"off", "recover", "clean", "claim", "final"}
  PROVE  [v EXCEPT !.pc = p] \in Snapshot
  BY DEF Snapshot

\* Handing starts over leaves a state of each start.
LEMMA DispatchType ==
  ASSUME BenchType, NEW some, Dispatch(some)
  PROVE  bg' \in [Orders -> {"none", "queued", "working"}]
  BY DEF BenchType, Dispatch

\* An event leaves one event less.
LEMMA EventType ==
  ASSUME BenchType, NEW kind, Event(kind)
  PROVE  menu' = menu /\ events' \in 0 .. menu.events
  BY MenuBounds DEF BenchType, Event

\* A background start that ends without its instance is entered with the advances.
LEMMA BackgroundForm ==
  ASSUME BenchType, NEW o \in Orders, Start(o)
  PROVE  /\ adv' \in [Advancers -> Snapshot] /\ menu' = menu /\ events' \in 0 .. menu.events
         /\ \A a \in Advancers :
              /\ adv'[a].pc = adv[a].pc /\ adv'[a].ord = adv[a].ord
              /\ adv'[a].inst = adv[a].inst /\ adv'[a].done = adv[a].done
              /\ adv[a].lost \subseteq adv'[a].lost
<1> USE DEF BenchType
<1>1. CASE UNCHANGED <<adv, limits>>
  BY <1>1 DEF limits
<1>2. CASE /\ UNCHANGED limits \/ Event("fault")
           /\ adv' = [a \in Advancers |-> IF adv[a].pc = "off" THEN adv[a]
                                          ELSE [adv[a] EXCEPT !.lost = @ \cup {o}]]
  <2>1. menu' = menu /\ events' \in 0 .. menu.events
    BY <1>2, EventType DEF limits
  <2>2. \A a \in Advancers : adv'[a] \in {adv[a], [adv[a] EXCEPT !.lost = @ \cup {o}]}
    BY <1>2
  <2>3. \A a \in Advancers :
          /\ [adv[a] EXCEPT !.lost = @ \cup {o}] \in Snapshot
          /\ [adv[a] EXCEPT !.lost = @ \cup {o}].lost = adv[a].lost \cup {o}
    BY DEF Snapshot
  <2>4. \A a \in Advancers :
          LET w == [adv[a] EXCEPT !.lost = @ \cup {o}]
          IN  /\ w.pc = adv[a].pc /\ w.ord = adv[a].ord
              /\ w.inst = adv[a].inst /\ w.done = adv[a].done
    BY DEF Snapshot
  <2>5. adv' \in [Advancers -> Snapshot]
    BY <1>2, <2>3
  <2> QED
    BY <2>1, <2>2, <2>3, <2>4, <2>5
<1> QED
  BY <1>1, <1>2 DEF Start, BackgroundBegin, BackgroundEnd

\* What an advance sees at its end.
Seen(a) ==
  IF ~ adv[a].fresh THEN adv[a]
  ELSE [adv[a] EXCEPT !.done = @ \cup done,
          !.inst = [o \in Orders |-> IF HasRow(o) THEN @[o] ELSE "gone"]]

\* The end of an advance: a cleanup of what it sees evaluated, and the decision.
LEMMA FinishForm ==
  ASSUME BenchType, NEW a \in Advancers, Finish(a)
  PROVE  /\ Seen(a) \in Snapshot /\ ToClean(Seen(a)) \subseteq Orders
         /\ \E refused \in SUBSET ToClean(Seen(a)) :
              /\ CleanUp(ToClean(Seen(a)), refused)
              /\ AfterCleaning(Seen(a), ToClean(Seen(a)), refused) \in Snapshot
              /\ loop' = [k \in Keys |-> IF k = a
                            THEN Decide(k, AfterCleaning(Seen(a), ToClean(Seen(a)), refused))
                            ELSE loop[k]]
<1>1. Seen(a) \in Snapshot
  <2> DEFINE w == [adv[a] EXCEPT !.done = adv[a].done \cup done]
  <2>0. adv[a] \in Snapshot /\ adv[a].done \cup done \in SUBSET Orders
    BY DEF BenchType, Snapshot
  <2>1. w \in Snapshot
    BY <2>0 DEF Snapshot
  <2>2. [w EXCEPT !.inst = [o \in Orders |-> IF HasRow(o) THEN w.inst[o] ELSE "gone"]]
          \in Snapshot
    <3> HIDE DEF w
    <3> QED
      BY <2>1 DEF Snapshot, InstanceStatus
  <2>3. w.inst = adv[a].inst
    BY <2>0 DEF Snapshot
  <2> QED
    BY <2>2, <2>3 DEF Seen, BenchType
<1>2. ToClean(Seen(a)) \subseteq Orders
  BY DEF ToClean, Current
<1>3. \E refused \in SUBSET ToClean(Seen(a)) :
              /\ CleanUp(ToClean(Seen(a)), refused)
              /\ loop' = [k \in Keys |-> IF k = a
                            THEN Decide(k, AfterCleaning(Seen(a), ToClean(Seen(a)), refused))
                            ELSE loop[k]]
  BY DEF Finish, Seen
<1> QED
  BY <1>1, <1>2, <1>3, CleaningType

\* The top of a round ends the run, or begins an advance that no stop forbids.
LEMMA TopForm ==
  ASSUME BenchType, NEW k \in Keys, LoopTop(k)
  PROVE  /\ loop[k].pc = "top"
         /\ \/ UNCHANGED adv /\ \E p \in {"blocked", "stopped"} :
                                loop' = [loop EXCEPT ![k] = Ending(p)]
            \/ ~ flag[k] /\ Read(k) /\ \E c \in Controllers(menu.rounds) :
                 /\ loop' = [loop EXCEPT ![k] = c]
                 /\ c.pc = "advance" /\ c.ending = loop[k].ending
<1>0. menu.rounds \in Nat /\ loop[k] \in Controllers(menu.rounds)
  BY MenuBounds DEF BenchType
<1>1. ASSUME NEW p \in {"blocked", "stopped"}, loop' = [loop EXCEPT ![k] = Ending(p)], UNCHANGED adv,
             loop[k].pc = "top"
      PROVE  /\ loop[k].pc = "top"
             /\ UNCHANGED adv /\ \E q \in {"blocked", "stopped"} :
                                   loop' = [loop EXCEPT ![k] = Ending(q)]
  BY <1>1
<1>2. CASE /\ loop[k].round < menu.rounds /\ ~ flag[k] /\ Read(k)
           /\ loop' = [loop EXCEPT ![k].pc = "advance", ![k].round = @ + 1]
  <2> DEFINE b == [loop[k] EXCEPT !.pc = "advance"]
             c == [b EXCEPT !.round = loop[k].round + 1]
  <2>1. loop[k].round + 1 \in 0 .. menu.rounds
    BY <1>0, <1>2 DEF Controllers
  <2>2. b \in Controllers(menu.rounds) /\ b.ending = loop[k].ending /\ b.pc = "advance"
        /\ b.round = loop[k].round
    BY <1>0 DEF Controllers
  <2>3. loop' = [loop EXCEPT ![k] = [b EXCEPT !.round = b.round + 1]]
    BY <1>2 DEF BenchType
  <2>4. loop' = [loop EXCEPT ![k] = c]
    BY <2>2, <2>3
  <2> HIDE DEF b
  <2>5. c \in Controllers(menu.rounds) /\ c.pc = "advance" /\ c.ending = loop[k].ending
    BY <2>1, <2>2 DEF Controllers
  <2> HIDE DEF c
  <2> QED
    BY <1>2, <2>4, <2>5 DEF LoopTop
<1> QED
  BY <1>1, <1>2 DEF LoopTop

\* An advance that fails is repeated, or one time too many.
LEMMA FailForm ==
  ASSUME BenchType, NEW k \in Keys, AdvanceFails(k)
  PROVE  \E c \in Controllers(menu.rounds) :
           /\ loop' = [loop EXCEPT ![k] = c]
           /\ \/ c.pc = "ending" /\ c.ending = "failed"
              \/ c.pc = "top" /\ c.ending = loop[k].ending /\ c.errors # 0
<1>0. menu.rounds \in Nat /\ loop[k] \in Controllers(menu.rounds)
  BY MenuBounds DEF BenchType
<1>1. CASE loop[k].errors + 1 >= Patience
  <2>1. loop' = [loop EXCEPT ![k] = Ending("failed")]
    BY <1>1 DEF AdvanceFails
  <2>2. Ending("failed").pc = "ending" /\ Ending("failed").ending = "failed"
    BY DEF Ending, NoLoop
  <2>3. Ending("failed") \in Controllers(menu.rounds)
    BY <1>0, EndingType DEF Phases
  <2> QED
    BY <2>1, <2>2, <2>3
<1>2. CASE ~ loop[k].errors + 1 >= Patience
  <2> DEFINE b == [loop[k] EXCEPT !.pc = "top"]
             d == [loop[k] EXCEPT !.pc = "top", !.errors = @ + 1]
  <2>1. loop' = [loop EXCEPT ![k] = d]
    BY <1>2 DEF AdvanceFails
  <2>2. b \in Controllers(menu.rounds) /\ b.ending = loop[k].ending /\ b.pc = "top"
        /\ b.errors = loop[k].errors
    BY <1>0 DEF Controllers
  <2>3. b.errors + 1 \in 0 .. Patience /\ b.errors + 1 # 0
    BY <1>0, <1>2, <2>2, BoundsAssumption DEF Controllers
  <2>4. [b EXCEPT !.errors = b.errors + 1] \in Controllers(menu.rounds)
    <3> HIDE DEF b
    <3> QED
      BY <2>2, <2>3 DEF Controllers
  <2>5. d \in Controllers(menu.rounds)
    BY <2>4
  <2>6. d.ending = loop[k].ending /\ d.pc = "top" /\ d.errors = loop[k].errors + 1
    BY <1>0 DEF Controllers
  <2>7. d.errors # 0
    BY <2>2, <2>3, <2>6
  <2> HIDE DEF d
  <2> QED
    BY <2>1, <2>5, <2>6, <2>7
<1> QED
  BY <1>1, <1>2

\* Every step keeps every variable in its type.
LEMMA TypeStep == BenchType /\ [Next]_vars => BenchType'
<1> SUFFICES ASSUME BenchType, [Next]_vars PROVE BenchType'
  OBVIOUS
<1> USE DEF BenchType
<1>1. CASE UNCHANGED vars
  BY <1>1 DEF vars, data, memory, hist, limits
<1>2. ASSUME NEW o \in Orders, Outside(o) PROVE BenchType'
  <2>1. CASE Route(o)
    BY <2>1 DEF Route, data, memory, hist, limits, OrderStatus, InstanceStatus
  <2>2. CASE Report(o)
    BY <2>2 DEF Report, data, memory, hist, limits
  <2>3. CASE StopInstance(o)
    BY <2>3, EventType DEF StopInstance, data, memory, hist, InstanceStatus
  <2>4. CASE DeleteInstance(o)
    BY <2>4, EventType DEF DeleteInstance, data, memory, hist, OrderStatus, InstanceStatus
  <2> QED
    BY <1>2, <2>1, <2>2, <2>3, <2>4 DEF Outside
<1>3. ASSUME NEW o \in Orders, Start(o) PROVE BenchType'
  <2>1. CASE BackgroundBegin(o)
    BY <2>1 DEF BackgroundBegin, data, memory, hist, limits
  <2>2. CASE BackgroundEnd(o)
    <3>1. inst' \in [Orders -> InstanceStatus] /\ bg' \in [Orders -> {"none", "queued", "working"}]
      BY <2>2 DEF BackgroundEnd, InstanceStatus
    <3>2. UNCHANGED <<ord, done, memory, hist, phase, alive, loop, stopper>>
      BY <2>2 DEF BackgroundEnd
    <3>3. /\ adv' \in [Advancers -> Snapshot] /\ menu' = menu /\ events' \in 0 .. menu.events
      BY <1>3, BackgroundForm
    <3> QED
      BY <3>1, <3>2, <3>3 DEF memory, hist
  <2> QED
    BY <1>3, <2>1, <2>2 DEF Start
<1>4. ASSUME NEW a \in Advancers, Advance(a) PROVE BenchType'
  <2>1. adv[a] \in Snapshot
    OBVIOUS
  <2>2. CASE Recover(a)
    <3> DEFINE p == IF ToClean(adv[a]) # {} THEN "clean" ELSE "claim"
               w == [adv[a] EXCEPT !.pc = p]
    <3>1. adv' = [adv EXCEPT ![a] = [w EXCEPT !.lost = w.lost \ Orphans(adv[a])]]
      BY <2>2, <2>1 DEF Recover, Snapshot
    <3>2. w \in Snapshot
      BY <2>1, PartType
    <3> HIDE DEF w
    <3>3. [w EXCEPT !.lost = w.lost \ Orphans(adv[a])] \in Snapshot
      BY <3>2 DEF Snapshot
    <3>4. adv' \in [Advancers -> Snapshot]
      BY <3>1, <3>3
    <3>5. Orphans(adv[a]) \subseteq Orders
      BY DEF Orphans, Occupied, Current
    <3> QED
      BY <2>2, <3>4, <3>5, DispatchType DEF Recover, data, memory, limits
  <2>3. CASE CleanFirst(a)
    <3> DEFINE some == ToClean(adv[a])
    <3>1. some \subseteq Orders
      BY DEF ToClean, Current
    <3>2. PICK refused \in SUBSET some :
            /\ CleanUp(some, refused)
            /\ adv' = [adv EXCEPT ![a] =
                         [AfterCleaning(adv[a], some, refused) EXCEPT !.pc = "claim"]]
      BY <2>3 DEF CleanFirst
    <3> HIDE DEF some
    <3>3. [AfterCleaning(adv[a], some, refused) EXCEPT !.pc = "claim"] \in Snapshot
      BY <2>1, <3>1, CleaningType, PartType
    <3>4. adv' \in [Advancers -> Snapshot]
      BY <3>2, <3>3
    <3> QED
      BY <2>3, <3>2, <3>4, CleanUpType DEF CleanFirst, memory, hist, limits
  <2>4. CASE Finish(a)
    <3>1. PICK refused : CleanUp(ToClean(Seen(a)), refused)
      BY <2>4, FinishForm
    <3>2. loop' \in [Keys -> Controllers(menu.rounds)]
      BY <2>4, FinishForm, DecideType, MenuBounds
    <3> QED
      BY <2>4, <3>1, <3>2, CleanUpType, Nothing DEF Finish, memory, hist, limits
  <2>5. ASSUME NEW c \in SUBSET Claimable(adv[a]), Claim(a, c) PROVE BenchType'
    <3> DEFINE v1 == [adv[a] EXCEPT !.pc = "final"]
               v2 == [v1 EXCEPT !.started = Cardinality(c)]
               v3 == [v2 EXCEPT !.fresh = v2.fresh \/ c # {}]
               v4 == [v3 EXCEPT !.inst = [o \in Orders |-> IF o \in c THEN "starting"
                                                           ELSE v3.inst[o]]]
    <3>1. Cardinality(c) \in 0 .. Cardinality(Orders)
      BY Count DEF Claimable, Current
    <3>2. adv' = [adv EXCEPT ![a] = v4]
      BY <2>5 DEF Claim, AfterClaim
    <3>3. v1 \in Snapshot
      BY <2>1 DEF Snapshot
    <3> HIDE DEF v1
    <3>4. v2 \in Snapshot
      BY <3>1, <3>3 DEF Snapshot
    <3> HIDE DEF v2
    <3>5. v3 \in Snapshot
      BY <3>4 DEF Snapshot
    <3> HIDE DEF v3
    <3>6. v4 \in Snapshot
      BY <3>5 DEF Snapshot, InstanceStatus
    <3> HIDE DEF v4
    <3>8. adv' \in [Advancers -> Snapshot]
      BY <3>2, <3>6
    <3> QED
      BY <2>5, <3>8, DispatchType DEF Claim, memory, hist, limits, InstanceStatus
  <2> QED
    BY <1>4, <2>2, <2>3, <2>4, <2>5 DEF Advance
<1>5. ASSUME NEW k \in Keys, LoopTop(k) PROVE BenchType'
  <2>1. loop' \in [Keys -> Controllers(menu.rounds)]
    BY <1>5, TopForm, EndingType, MenuBounds DEF Phases
  <2>2. adv' \in [Advancers -> Snapshot]
    BY <1>5, TopForm, ReadType DEF Advancers
  <2> QED
    BY <1>5, <2>1, <2>2 DEF LoopTop, data, memory, hist, limits
<1>6. ASSUME NEW k \in Keys, AdvanceFails(k) PROVE BenchType'
  <2>1. loop' \in [Keys -> Controllers(menu.rounds)]
    BY <1>6, FailForm
  <2>2. menu' = menu /\ events' \in 0 .. menu.events
    BY <1>6, EventType DEF AdvanceFails, limits
  <2>3. adv' \in [Advancers -> Snapshot]
    BY <1>6, Nothing DEF AdvanceFails
  <2> QED
    BY <1>6, <2>1, <2>2, <2>3 DEF AdvanceFails, data, memory, hist
<1>7. ASSUME NEW k \in Keys, Persist(k) PROVE BenchType'
  <2>1. phase' \in Phases /\ menu' = menu /\ events' \in 0 .. menu.events
    BY <1>7, EventType DEF Persist, Controllers, limits
  <2>2. stopper' \in Stoppers
    BY <1>7 DEF Persist, Stoppers
  <2>3. loop' \in [Keys -> Controllers(menu.rounds)]
    BY <1>7, Nothing, MenuBounds DEF Persist
  <2> QED
    BY <1>7, <2>1, <2>2, <2>3 DEF Persist, data, memory, hist
<1>8. ASSUME NEW k \in Keys, RunRequest(k) PROVE BenchType'
  <2>1. menu' = menu /\ events' \in 0 .. menu.events
    BY <1>8, EventType DEF RunRequest
  <2> QED
    BY <1>8, <2>1, ControllerType DEF RunRequest, data, Phases, ActivePhases
<1>9. ASSUME NEW k \in Keys, RunRefused(k) PROVE BenchType'
  BY <1>9, EventType DEF RunRefused, data
<1>10. CASE WatchRead
  BY <1>10 DEF WatchRead, data, hist, limits
<1>11. CASE Restore
  <2>1. "typed" \in Keys
    BY DEF Keys
  <2> QED
    BY <1>11, <2>1, ControllerType DEF Restore, data, limits
<1>12. CASE ManualRequest
  <2>1. adv' \in [Advancers -> Snapshot] /\ menu' = menu /\ events' \in 0 .. menu.events
    BY <1>12, ReadType, EventType DEF ManualRequest, Advancers
  <2> QED
    BY <1>12, <2>1 DEF ManualRequest, data, memory
<1>13. CASE Crash
  <2>1. menu' = menu /\ events' \in 0 .. menu.events /\ phase' \in Phases
    BY <1>13, EventType DEF Crash, Phases, ActivePhases
  <2>2. /\ loop' \in [Keys -> Controllers(menu.rounds)] /\ stopper' \in Stoppers
        /\ adv' \in [Advancers -> Snapshot]
    BY <1>13, Nothing, MenuBounds DEF Crash
  <2>3. flag' \in [Keys -> BOOLEAN] /\ known' \in [Keys -> BOOLEAN]
    BY <1>13 DEF Crash
  <2> QED
    BY <1>13, <2>1, <2>2, <2>3 DEF Crash, data, hist
<1>14. CASE Restart
  <2>1. "typed" \in Keys
    BY DEF Keys
  <2> QED
    BY <1>14, <2>1, ControllerType DEF Restart, data, limits
<1>15. ASSUME NEW scope \in Scopes, StopRequest(scope) PROVE BenchType'
  <2>1. stopper' \in Stoppers
    <3> DEFINE s1 == [NoStop EXCEPT !.pc = "wait"]
    <3>1. s1 \in Stoppers
      BY Nothing DEF Stoppers
    <3>2. stopper' = [s1 EXCEPT !.await = {k \in scope : Running(k)}]
      BY <1>15 DEF StopRequest
    <3>3. {k \in scope : Running(k)} \in SUBSET Keys
      BY DEF Scopes, Keys
    <3> HIDE DEF s1
    <3> QED
      BY <3>1, <3>2, <3>3 DEF Stoppers
  <2>2. menu' = menu /\ events' \in 0 .. menu.events
    BY <1>15, EventType DEF StopRequest
  <2> QED
    BY <1>15, <2>1, <2>2 DEF StopRequest, data
<1>16. CASE StopRead \/ StopRefused
  <2>1. CASE StopRead
    <3> DEFINE s1 == [stopper EXCEPT !.pc = "starts"]
               s2 == [s1 EXCEPT !.ord = ord]
               todo == {o \in Orders : ord[o] = "materialized" /\ bg[o] # "none"}
    <3>1. s1 \in Stoppers
      BY DEF Stoppers
    <3>2. stopper' = [s2 EXCEPT !.todo = todo]
      BY <2>1 DEF StopRead
    <3> HIDE DEF s1
    <3>3. s2 \in Stoppers
      BY <3>1 DEF Stoppers
    <3> HIDE DEF s2
    <3>4. stopper' \in Stoppers
      BY <3>3, <3>2 DEF Stoppers
    <3> QED
      BY <2>1, <3>4 DEF StopRead, data, memory, hist, limits
  <2> QED
    BY <1>16, <2>1, Nothing DEF StopRefused, data, memory, hist, limits
<1>17. CASE StopCancels
  <2>1. stopper' \in Stoppers
    <3> DEFINE s1 == [stopper EXCEPT !.pc = "stop"]
    <3>1. s1 \in Stoppers /\ {o \in Orders : stopper.ord[o] = "materialized"} \in SUBSET Orders
      BY DEF Stoppers
    <3>2. stopper' = [s1 EXCEPT !.todo = {o \in Orders : stopper.ord[o] = "materialized"}]
      BY <1>17 DEF StopCancels
    <3> HIDE DEF s1
    <3> QED
      BY <3>1, <3>2 DEF Stoppers
  <2> QED
    BY <1>17, <2>1 DEF StopCancels, memory, limits, OrderStatus
<1>18. ASSUME NEW o \in Orders, StopOrder(o) PROVE BenchType'
  <2>1. stopper' \in Stoppers
    BY <1>18 DEF StopOrder, Stoppers
  <2> QED
    BY <1>18, <2>1 DEF StopOrder, memory, limits, OrderStatus, InstanceStatus
<1>19. CASE StopDone
  <2>1. menu' = menu /\ events' \in 0 .. menu.events
    BY <1>19, EventType DEF StopDone, limits
  <2>2. phase' \in Phases /\ quiet' \in {"no", "asked", "yes"}
    BY <1>19 DEF StopDone, Phases
  <2> QED
    BY <1>19, <2>1, <2>2, Nothing DEF StopDone, data, memory
<1> QED
  BY <1>1, <1>2, <1>3, <1>4, <1>5, <1>6, <1>7, <1>8, <1>9, <1>10, <1>11, <1>12, <1>13,
     <1>14, <1>15, <1>16, <1>17, <1>18, <1>19
  DEF Next, Environment, ControllerStep, StopStep, Outside, Advancers

\* It starts with them.
LEMMA BenchInit == Init => BenchType
<1> SUFFICES ASSUME Init PROVE BenchType
  OBVIOUS
<1>1. ord \in [Orders -> OrderStatus] /\ inst \in [Orders -> InstanceStatus]
  BY DEF Init, OrderStatus, InstanceStatus
<1>2. menu.rounds \in Nat /\ menu.events \in Nat
  BY BoundsAssumption DEF Init
<1>3. /\ loop \in [Keys -> Controllers(menu.rounds)] /\ adv \in [Advancers -> Snapshot]
      /\ stopper \in Stoppers
  BY <1>2, Nothing DEF Init
<1>4. bg \in [Orders -> {"none", "queued", "working"}] /\ events \in 0 .. menu.events
  BY <1>2 DEF Init
<1> QED
  BY <1>1, <1>3, <1>4 DEF BenchType, Init, Phases

\* The rows, the controllers, the advances, the stop and the bounds keep their types
\* through every interleaving, crash and restart.
THEOREM BenchTypes == Spec => []TypeOK
  BY BenchInit, TypeStep, Typed, PTL DEF Spec

-----------------------------------------------------------------------------
(* The forms of an advance's steps.                                        *)

\* A round that is decided goes on, or ends with an outcome: with "completed"
\* only when every order of the run is evaluated and cleaned up.
LEMMA DecideForm ==
  ASSUME BenchType, NEW v \in Snapshot, NEW k \in Keys
  PROVE  \/ Decide(k, v).pc = "top" /\ Decide(k, v).ending = loop[k].ending
         \/ Decide(k, v).pc = "ending" /\ Decide(k, v).ending \in {"failed", "blocked"}
         \/ /\ Decide(k, v).pc = "ending" /\ Decide(k, v).ending = "completed"
            /\ \A o \in Orders : v.ord[o] # "cancelled" => o \in v.done /\ v.inst[o] = "gone"
<1> DEFINE run       == {o \in Orders : v.ord[o] # "cancelled"}
           evaluated == v.done \cap run
           uncleaned == {o \in evaluated : v.inst[o] # "gone"}
<1>0. loop[k] \in Controllers(menu.rounds)
  BY DEF BenchType
<1>1. \/ Decide(k, v).pc = "top" /\ Decide(k, v).ending = loop[k].ending
      \/ \E p \in {"failed", "blocked"} : Decide(k, v) = Ending(p)
      \/ Decide(k, v) = Ending("completed") /\ Finished(run, evaluated, uncleaned)
  BY <1>0 DEF Decide, Controllers
<1>2. \A p : Ending(p).pc = "ending" /\ Ending(p).ending = p
  BY DEF Ending, NoLoop
<1>3. Finished(run, evaluated, uncleaned) =>
        \A o \in Orders : v.ord[o] # "cancelled" => o \in v.done /\ v.inst[o] = "gone"
  BY DEF Finished
<1> HIDE DEF run, evaluated, uncleaned
<1> QED
  BY <1>1, <1>2, <1>3

\* Where a first reading leaves its advance.
LEMMA ReadForm ==
  ASSUME BenchType, NEW a \in Advancers, Read(a)
  PROVE  /\ adv'[a].pc \in {"recover", "clean", "claim"}
         /\ adv'[a].ord = ord /\ adv'[a].inst = inst /\ adv'[a].done = done
         /\ adv'[a].pc # "recover" => Orphans(adv'[a]) = {}
         /\ \A b \in Advancers : b # a => adv'[b] = adv[b]
<1> DEFINE v == [NoAdvance EXCEPT !.ord = ord, !.inst = inst, !.done = done]
<1>1. adv' = [adv EXCEPT ![a] = [v EXCEPT !.pc = Part(v)]]
  BY DEF Read
<1>2. v.ord = ord /\ v.inst = inst /\ v.done = done /\ "pc" \in DOMAIN v
  BY DEF NoAdvance
<1> DEFINE w == [v EXCEPT !.pc = Part(v)]
<1>3. w.pc = Part(v) /\ w.ord = v.ord /\ w.inst = v.inst /\ w.done = v.done
  BY <1>2 DEF NoAdvance
<1> HIDE DEF v
<1>4. Orphans(w) = Orphans(v)
  BY <1>3 DEF Orphans, Occupied, Current
<1>5. /\ Part(v) \in {"recover", "clean", "claim"}
      /\ Part(v) # "recover" => Orphans(v) = {}
  BY DEF Part
<1>6. adv'[a] = w /\ \A b \in Advancers : b # a => adv'[b] = adv[b]
  BY <1>1 DEF BenchType
<1> HIDE DEF w
<1> QED
  BY <1>2, <1>3, <1>4, <1>5, <1>6

\* What adopting the claims it has found leaves of an advance.
LEMMA RecoverForm ==
  ASSUME BenchType, NEW a \in Advancers, Recover(a)
  PROVE  /\ adv[a].pc = "recover" /\ adv'[a].pc \in {"clean", "claim"}
         /\ adv'[a].ord = adv[a].ord /\ adv'[a].inst = adv[a].inst /\ adv'[a].done = adv[a].done
         /\ adv'[a].lost = adv[a].lost \ Orphans(adv[a])
         /\ \A b \in Advancers : b # a => adv'[b] = adv[b]
<1>1. adv[a] \in Snapshot
  BY DEF BenchType
<1>2. adv'[a] = [adv[a] EXCEPT !.pc = IF ToClean(adv[a]) # {} THEN "clean" ELSE "claim",
                               !.lost = adv[a].lost \ Orphans(adv[a])]
  BY DEF Recover, BenchType
<1> QED
  BY <1>1, <1>2 DEF Recover, Snapshot, BenchType

\* A step of an advance leaves its history, its finds apart.
LEMMA LostForm ==
  ASSUME BenchType, NEW a \in Advancers, Advance(a), ~ Recover(a), adv'[a].pc # "off"
  PROVE  adv'[a].lost = adv[a].lost
<1>0. adv[a] \in Snapshot
  BY DEF BenchType
<1>1. CASE CleanFirst(a)
  <2>1. PICK refused \in SUBSET ToClean(adv[a]) :
          adv' = [adv EXCEPT ![a] =
                    [AfterCleaning(adv[a], ToClean(adv[a]), refused) EXCEPT !.pc = "claim"]]
    BY <1>1 DEF CleanFirst
  <2> DEFINE w == AfterCleaning(adv[a], ToClean(adv[a]), refused)
  <2>2. w \in Snapshot /\ w.lost = adv[a].lost
    <3>1. w \in Snapshot
      BY <1>0, CleaningType DEF ToClean, Current
    <3>2. w.lost = adv[a].lost
      BY <1>0 DEF AfterCleaning, Snapshot
    <3> QED
      BY <3>1, <3>2
  <2>3. adv'[a] = [w EXCEPT !.pc = "claim"]
    BY <2>1 DEF BenchType
  <2> HIDE DEF w
  <2> QED
    BY <2>2, <2>3 DEF Snapshot
<1>2. CASE Finish(a)
  BY <1>2 DEF Finish, NoAdvance, BenchType
<1>3. ASSUME NEW c, Claim(a, c) PROVE adv'[a].lost = adv[a].lost
  BY <1>0, <1>3 DEF Claim, AfterClaim, Snapshot, BenchType
<1> QED
  BY <1>1, <1>2, <1>3 DEF Advance

\* An advance's step is its own; only the end of a controller's changes the
\* controller.
LEMMA AdvanceForm ==
  ASSUME BenchType, NEW a \in Advancers, Advance(a)
  PROVE  /\ UNCHANGED <<done, memory, cut, shared, quiet, phase, alive, stopper, limits>>
         /\ adv[a].pc # "off" /\ \A b \in Advancers : b # a => adv'[b] = adv[b]
         /\ \A k \in Keys : k # a => loop'[k] = loop[k]
         /\ \/ adv'[a].pc \in {"clean", "claim", "final"} /\ loop' = loop
            \/ /\ adv'[a].pc = "off"
               /\ a \in Keys => /\ loop'[a].pc \in {"top", "ending"}
                                /\ loop'[a].ending \in {loop[a].ending, "failed", "blocked", "completed"}
<1> USE DEF BenchType
<1>1. CASE Recover(a)
  BY <1>1, RecoverForm DEF Recover, data
<1>2. CASE CleanFirst(a)
  <2>1. PICK w \in Snapshot : adv' = [adv EXCEPT ![a] = [w EXCEPT !.pc = "claim"]]
    BY <1>2, CleaningType DEF CleanFirst, ToClean, Current
  <2> QED
    BY <1>2, <2>1 DEF CleanFirst, Snapshot, hist
<1>3. CASE Finish(a)
  <2>1. adv' = [adv EXCEPT ![a] = NoAdvance] /\ NoAdvance.pc = "off"
    BY <1>3 DEF Finish, NoAdvance
  <2>2. /\ UNCHANGED <<done, memory, cut, shared, quiet, phase, alive, stopper, limits>>
        /\ adv[a].pc = "final"
    BY <1>3 DEF Finish, hist
  <2>3. PICK v \in Snapshot : loop' = [k \in Keys |-> IF k = a THEN Decide(k, v) ELSE loop[k]]
    BY <1>3, FinishForm
  <2>4. \A k \in Keys : k # a => loop'[k] = loop[k]
    BY <2>3
  <2>5. ASSUME a \in Keys PROVE /\ loop'[a].pc \in {"top", "ending"}
                                /\ loop'[a].ending \in {loop[a].ending, "failed", "blocked", "completed"}
    <3>1. loop'[a] = Decide(a, v)
      BY <2>3, <2>5
    <3> QED
      BY <2>5, <3>1, DecideForm
  <2> QED
    BY <2>1, <2>2, <2>4, <2>5
<1>4. ASSUME NEW c \in SUBSET Claimable(adv[a]), Claim(a, c)
      PROVE  /\ UNCHANGED <<done, memory, cut, shared, quiet, phase, alive, stopper, limits, loop>>
             /\ adv[a].pc # "off" /\ \A b \in Advancers : b # a => adv'[b] = adv[b]
             /\ adv'[a].pc = "final"
  <2>1. adv' = [adv EXCEPT ![a] = AfterClaim(adv[a], c)]
    BY <1>4 DEF Claim
  <2>2. AfterClaim(adv[a], c).pc = "final"
    BY DEF AfterClaim, Snapshot
  <2> QED
    BY <1>4, <2>1, <2>2 DEF Claim, hist
<1> QED
  BY <1>1, <1>2, <1>3, <1>4 DEF Advance

-----------------------------------------------------------------------------
(* What a stop has answered holds.                                         *)

\* The key has no controller, and nothing is about to rebuild one.
Dead(k) == ~ Running(k) /\ (k = "typed" => ~ watch /\ phase \notin ActivePhases)

\* Who is there: no controller, watchdog or stop without a process; a controller's
\* key is known to the process; an advance of a controller is under way exactly
\* while it says so; without a manual request there is no other; and there is one
\* controller until two have met.
Actors ==
  /\ ~ alive => ~ watch /\ stopper.pc = "off" /\ \A k \in Keys : ~ Running(k)
  /\ \A k \in Keys : /\ Running(k) => known[k]
                     /\ adv[k].pc # "off" <=> loop[k].pc = "advance"
                     /\ loop[k].ending \notin ActivePhases
  /\ "manual" \notin shared => adv["manual"].pc = "off"
  /\ "controllers" \notin shared => \A k, q \in Keys : Running(k) /\ Running(q) => k = q
  /\ stopper.pc # "wait" => stopper.await = {}

\* A stop that was answered: the stored phase is final, and for either key the flag
\* is still there, which a controller finds before it advances, or nothing is there
\* that could rebuild one.  Before the answer the same without the phase, once
\* the controllers waited for are over.
Held ==
  /\ quiet = "asked" /\ stopper.pc # "off" => \A k \in Keys :
       (flag[k] \/ Dead(k)) /\ (k \notin stopper.await => loop[k].pc # "advance")
  /\ quiet = "yes" => /\ phase \notin ActivePhases /\ stopper.pc = "off"
                      /\ \A k \in Keys : (flag[k] \/ Dead(k)) /\ loop[k].pc # "advance"

StopInv == BenchType /\ Actors /\ Held

\* Where the controllers, the stop and the memory stay nothing of it changes.
LEMMA StopSame ==
  ASSUME StopInv, UNCHANGED <<memory, shared, quiet, phase, alive, loop, stopper>>,
         \A a \in Advancers : adv'[a].pc = adv[a].pc
  PROVE  Actors' /\ Held'
  BY DEF StopInv, Actors, Held, Dead, Running, memory, Keys, Advancers

\* A controller that has changed, and is not new.
LEMMA StopMoves ==
  ASSUME StopInv, NEW k \in Keys, UNCHANGED <<memory, shared, quiet, alive, stopper, phase>>,
         loop[k].pc # "off", \A q \in Keys : q # k => loop'[q] = loop[q],
         \A a \in Advancers : a # k => adv'[a] = adv[a],
         adv'[k].pc # "off" <=> loop'[k].pc = "advance",
         loop'[k].pc = "advance" => loop[k].pc = "advance" \/ ~ flag[k],
         loop'[k].pc # "off", loop'[k].ending \notin ActivePhases
  PROVE  Actors' /\ Held'
<1>1. Actors'
  BY DEF StopInv, Actors, Running, memory, Advancers, Keys
<1>2. Held'
  BY DEF StopInv, Held, Dead, Running, memory, Actors
<1> QED
  BY <1>1, <1>2

\* A controller that is new.
LEMMA NewActors ==
  ASSUME StopInv, NEW k \in Keys, Controller(k), ~ Running(k), alive', UNCHANGED <<adv, stopper>>
  PROVE  /\ Actors' /\ loop'[k].pc = "top"
         /\ \A q \in Keys : q # k => loop'[q] = loop[q]
<1> DEFINE new == [NoLoop EXCEPT !.pc = "top"]
<1>1. /\ loop' = [loop EXCEPT ![k] = new] /\ new.pc = "top" /\ new.ending = "none"
      /\ known' = [known EXCEPT ![k] = TRUE]
      /\ shared' = IF \E q \in Keys \ {k} : Running(q) THEN shared \cup {"controllers"} ELSE shared
  BY DEF Controller, NoLoop
<1> HIDE DEF new
<1>2. /\ loop'[k].pc = "top" /\ loop'[k].ending = "none" /\ known'[k]
      /\ \A q \in Keys : q # k => loop'[q] = loop[q] /\ known'[q] = known[q]
  BY <1>1 DEF StopInv, BenchType
<1>3. \A q \in Keys : /\ Running(q)' => known'[q]
                      /\ adv'[q].pc # "off" <=> loop'[q].pc = "advance"
                      /\ loop'[q].ending \notin ActivePhases
  BY <1>2 DEF StopInv, Actors, Running, ActivePhases
<1>4. ("manual" \notin shared' => adv'["manual"].pc = "off") /\ (shared \subseteq shared')
  BY <1>1 DEF StopInv, Actors
<1>5. "controllers" \notin shared' => \A p, q \in Keys : Running(p)' /\ Running(q)' => p = q
  BY <1>1, <1>2 DEF StopInv, Actors, Running
<1> QED
  BY <1>2, <1>3, <1>4, <1>5 DEF StopInv, Actors

\* Every step keeps it.
LEMMA StopStepKeeps == StopInv /\ [Next]_vars => StopInv'
<1> SUFFICES ASSUME StopInv, [Next]_vars PROVE Actors' /\ Held'
  BY TypeStep DEF StopInv
<1>t. BenchType /\ Actors /\ Held
  BY DEF StopInv
<1>a. /\ adv \in [Advancers -> Snapshot] /\ loop \in [Keys -> Controllers(menu.rounds)]
      /\ stopper \in Stoppers /\ flag \in [Keys -> BOOLEAN] /\ known \in [Keys -> BOOLEAN]
      /\ "manual" \in Advancers \ Keys /\ "typed" \in Keys /\ Keys \subseteq Advancers
  BY <1>t DEF BenchType, Advancers, Keys
<1>1. CASE UNCHANGED vars
  BY <1>1, StopSame DEF vars, data, memory, hist, limits
<1>2. ASSUME NEW o \in Orders, Outside(o) PROVE Actors' /\ Held'
  BY <1>2, StopSame DEF Outside, Route, Report, StopInstance, DeleteInstance, data, memory, hist, limits
<1>3. ASSUME NEW o \in Orders, Start(o) PROVE Actors' /\ Held'
  <2>1. \A a \in Advancers : adv'[a].pc = adv[a].pc
    BY <1>3, <1>t, BackgroundForm
  <2>2. UNCHANGED <<memory, shared, quiet, phase, alive, loop, stopper>>
    BY <1>3 DEF Start, BackgroundBegin, BackgroundEnd, hist
  <2> QED
    BY <2>1, <2>2, StopSame
<1>4. ASSUME NEW a \in Advancers, Advance(a) PROVE Actors' /\ Held'
  <2>1. /\ UNCHANGED <<memory, shared, quiet, phase, alive, stopper>> /\ adv[a].pc # "off"
        /\ \A b \in Advancers : b # a => adv'[b] = adv[b]
        /\ \A k \in Keys : k # a => loop'[k] = loop[k]
    BY <1>4, <1>t, AdvanceForm
  <2>2. CASE a \in Keys
    <3>1. loop[a].pc = "advance" /\ loop[a].ending \notin ActivePhases
      BY <2>1, <2>2, <1>t DEF Actors
    <3>2. /\ adv'[a].pc # "off" <=> loop'[a].pc = "advance"
          /\ loop'[a].pc # "off" /\ loop'[a].ending \notin ActivePhases
      BY <1>4, <1>t, <2>2, <3>1, AdvanceForm DEF ActivePhases
    <3> QED
      BY <2>1, <2>2, <3>1, <3>2, StopMoves
  <2>3. CASE a = "manual"
    <3>1. "manual" \in shared /\ \A k \in Keys : loop'[k] = loop[k]
      BY <1>t, <1>a, <2>1, <2>3 DEF Actors
    <3>2. \A k \in Keys : adv'[k] = adv[k]
      BY <1>a, <2>1, <2>3
    <3> QED
      BY <2>1, <3>1, <3>2, <1>t DEF Actors, Held, Dead, Running, memory
  <2> QED
    BY <2>2, <2>3 DEF Advancers
<1>5. ASSUME NEW k \in Keys, LoopTop(k) PROVE Actors' /\ Held'
  <2>1. UNCHANGED <<memory, shared, quiet, alive, stopper, phase>>
    BY <1>5 DEF LoopTop, hist
  <2>2. CASE UNCHANGED adv /\ \E p \in {"blocked", "stopped"} : loop' = [loop EXCEPT ![k] = Ending(p)]
    <3>1. /\ loop[k].pc = "top" /\ loop'[k].pc = "ending" /\ loop'[k].ending \in {"blocked", "stopped"}
          /\ \A q \in Keys : q # k => loop'[q] = loop[q]
      BY <1>a, <1>5, <2>2 DEF LoopTop, Ending, NoLoop
    <3> QED
      BY <2>1, <2>2, <3>1, <1>t, StopMoves DEF ActivePhases, Actors
  <2>3. CASE ~ flag[k] /\ Read(k) /\ \E c \in Controllers(menu.rounds) :
                 /\ loop' = [loop EXCEPT ![k] = c]
                 /\ c.pc = "advance" /\ c.ending = loop[k].ending
    <3>1. /\ loop'[k].pc = "advance" /\ loop'[k].ending = loop[k].ending
          /\ \A q \in Keys : q # k => loop'[q] = loop[q]
      BY <1>a, <2>3
    <3>2. adv'[k].pc # "off" /\ \A b \in Advancers : b # k => adv'[b] = adv[b]
      BY <2>3, <1>a, <1>t, ReadForm
    <3>3. loop[k].pc = "top" /\ loop[k].ending \notin ActivePhases
      BY <1>5, <1>t DEF LoopTop, Actors
    <3> QED
      BY <2>1, <2>3, <3>1, <3>2, <3>3, StopMoves
  <2> QED
    BY <1>5, <1>t, <2>2, <2>3, TopForm
<1>6. ASSUME NEW k \in Keys, AdvanceFails(k) PROVE Actors' /\ Held'
  <2>1. UNCHANGED <<memory, shared, quiet, alive, stopper, phase>> /\ loop[k].pc = "advance"
    BY <1>6 DEF AdvanceFails, hist
  <2>2. adv'[k].pc = "off" /\ \A b \in Advancers : b # k => adv'[b] = adv[b]
    BY <1>6, <1>a DEF AdvanceFails, NoAdvance
  <2>3. /\ loop'[k].pc \in {"top", "ending"} /\ loop'[k].ending \in {"failed", loop[k].ending}
        /\ \A q \in Keys : q # k => loop'[q] = loop[q]
    BY <1>6, <1>a, <1>t, FailForm
  <2> QED
    BY <2>1, <2>2, <2>3, <1>t, StopMoves DEF Actors, ActivePhases
<1>7. ASSUME NEW k \in Keys, Persist(k) PROVE Actors' /\ Held'
  <2>1. /\ loop[k].pc = "ending" /\ loop'[k] = NoLoop /\ NoLoop.pc = "off" /\ NoLoop.ending = "none"
        /\ \A q \in Keys : q # k => loop'[q] = loop[q]
    BY <1>7, <1>a DEF Persist, NoLoop
  <2>2. UNCHANGED <<memory, shared, quiet, alive, adv>>
    BY <1>7 DEF Persist, hist
  <2>3. stopper'.pc = stopper.pc /\ stopper'.await = stopper.await \ {k}
    BY <1>7, <1>a DEF Persist, Stoppers
  <2>4. phase' = phase \/ (phase' = loop[k].ending /\ phase' \notin ActivePhases)
    BY <1>7, <1>t DEF Persist, Actors
  <2>5. Actors'
    BY <2>1, <2>2, <2>3, <1>t DEF Actors, Running, memory, ActivePhases
  <2>6. Held'
    BY <2>1, <2>2, <2>3, <2>4, <1>t DEF Held, Dead, Running, memory
  <2> QED
    BY <2>5, <2>6
<1>8. ASSUME NEW k \in Keys, RunRequest(k) PROVE Actors' /\ Held'
  <2>1. Actors'
    BY <1>8, NewActors DEF RunRequest
  <2> QED
    BY <1>8, <2>1 DEF RunRequest, Held
<1>9. ASSUME NEW k \in Keys, RunRefused(k) PROVE Actors' /\ Held'
  <2>1. \A q \in Keys : known[q] => known'[q]
    BY <1>9, <1>a DEF RunRefused
  <2>2. UNCHANGED <<shared, watch, alive, loop, adv, stopper>> /\ quiet' = "no"
    BY <1>9 DEF RunRefused
  <2> QED
    BY <2>1, <2>2, <1>t DEF Held, Actors, Running
<1>10. CASE WatchRead
  <2>1. UNCHANGED <<hist, flag, known, phase, alive, loop, adv, stopper>> /\ alive /\ phase \in ActivePhases
    BY <1>10 DEF WatchRead
  <2> QED
    BY <2>1, <1>t DEF Held, Actors, Dead, Running, hist
<1>11. CASE Restore
  <2>1. UNCHANGED <<quiet, flag, phase, alive, adv, stopper>> /\ alive /\ watch /\ ~ watch'
    BY <1>11, <1>t DEF Restore, Actors
  <2>2. CASE Running("typed")
    <3>1. UNCHANGED <<loop, known, shared>>
      BY <1>11, <2>2 DEF Restore
    <3> QED
      BY <2>1, <2>2, <3>1, <1>t DEF Held, Actors, Dead, Running
  <2>3. CASE ~ Running("typed")
    <3>1. Controller("typed")
      BY <1>11, <2>3 DEF Restore
    <3>2. Actors' /\ loop'["typed"].pc = "top" /\ \A q \in Keys : q # "typed" => loop'[q] = loop[q]
      BY <1>a, <2>1, <2>3, <3>1, NewActors
    <3>3. ~ Dead("typed")
      BY <2>1 DEF Dead
    <3> QED
      BY <2>1, <3>2, <3>3, <1>t DEF Held, Dead, Running
  <2> QED
    BY <2>2, <2>3
<1>12. CASE ManualRequest
  <2>1. \A k \in Keys : adv'[k] = adv[k]
    BY <1>12, <1>a, <1>t, ReadForm DEF ManualRequest
  <2>2. UNCHANGED <<memory, quiet, phase, alive, loop, stopper>> /\ shared' = shared \cup {"manual"}
    BY <1>12 DEF ManualRequest
  <2> QED
    BY <2>1, <2>2, <1>t DEF Held, Actors, Dead, Running, memory
<1>13. CASE Crash
  <2>1. /\ \A k \in Keys : loop'[k].pc = "off" /\ loop'[k].ending = "none"
        /\ \A a \in Advancers : adv'[a].pc = "off"
        /\ stopper'.pc = "off" /\ stopper'.await = {} /\ ~ watch' /\ UNCHANGED <<shared, quiet>>
    BY <1>13 DEF Crash, NoLoop, NoStop, NoAdvance, hist
  <2>2. quiet = "yes" => phase' \notin ActivePhases
    BY <1>13, <1>t DEF Crash, Held, Dead, ActivePhases
  <2>3. Actors'
    BY <2>1, <1>a DEF Actors, Running, ActivePhases
  <2>4. Held'
    BY <2>1, <2>2 DEF Held, Dead, Running
  <2> QED
    BY <2>3, <2>4
<1>14. CASE Restart
  <2>1. UNCHANGED <<quiet, flag, watch, phase, adv, stopper>> /\ alive' /\ ~ alive
    BY <1>14 DEF Restart
  <2>2. CASE phase \notin ActivePhases
    <3>1. UNCHANGED <<loop, known, shared>>
      BY <1>14, <2>2 DEF Restart
    <3> QED
      BY <2>1, <3>1, <1>t DEF Held, Actors, Dead, Running
  <2>3. CASE phase \in ActivePhases
    <3>1. Controller("typed") /\ ~ Running("typed")
      BY <1>14, <2>1, <2>3, <1>t, <1>a DEF Restart, Actors
    <3>2. Actors'
      BY <1>a, <2>1, <3>1, NewActors
    <3> QED
      BY <2>1, <2>3, <3>2, <1>t DEF Held, Actors
  <2> QED
    BY <2>2, <2>3
<1>15. ASSUME NEW scope \in Scopes, StopRequest(scope) PROVE Actors' /\ Held'
  <2>1. /\ UNCHANGED <<shared, known, watch, phase, alive, loop, adv>> /\ alive
        /\ flag' = [k \in Keys |-> flag[k] \/ (known[k] /\ k \in scope)]
        /\ quiet' = IF Reaches(scope) THEN "asked" ELSE "no"
    BY <1>15 DEF StopRequest
  <2>2. stopper'.pc = "wait" /\ stopper'.await = {k \in scope : Running(k)}
    BY <1>15 DEF StopRequest, NoStop
  <2>3. Actors'
    BY <2>1, <2>2, <1>t DEF Actors, Running
  <2>4. ASSUME Reaches(scope), NEW k \in Keys
        PROVE  (flag'[k] \/ Dead(k)') /\ (k \notin stopper'.await => loop'[k].pc # "advance")
    <3>1. "typed" \in scope
      BY DEF Scopes, Keys
    <3>2. Running(k) => k \in scope /\ known[k]
      BY <2>4, <1>t DEF Reaches, Actors
    <3>3. ~ Running(k) => ~ loop'[k].pc = "advance"
      BY <2>1 DEF Running
    <3>4. Dead(k)' <=> Dead(k)
      BY <2>1 DEF Dead, Running
    <3> QED
      BY <2>1, <2>2, <2>4, <3>1, <3>2, <3>3, <3>4 DEF Reaches, Dead
  <2> QED
    BY <2>1, <2>3, <2>4 DEF Held
<1>16. CASE StopRead \/ StopRefused
  <2>1. UNCHANGED <<memory, shared, quiet, phase, alive, loop, adv>>
    BY <1>16 DEF StopRead, StopRefused, hist
  <2>2. CASE StopRead
    <3>1. stopper'.pc = "starts" /\ stopper'.await = stopper.await /\ stopper.pc = "wait" /\ stopper.await = {}
      BY <1>a, <2>2 DEF StopRead, Stoppers
    <3> QED
      BY <2>1, <3>1, <1>t DEF Held, Actors, Dead, Running, memory
  <2>3. CASE StopRefused
    <3>1. stopper'.pc = "off" /\ stopper'.await = {} /\ stopper.pc # "off"
      BY <2>3 DEF StopRefused, NoStop
    <3> QED
      BY <2>1, <3>1, <1>t DEF Held, Actors, Dead, Running, memory
  <2> QED
    BY <1>16, <2>2, <2>3
<1>17. CASE StopCancels \/ \E o \in Orders : StopOrder(o)
  <2>1. UNCHANGED <<memory, shared, quiet, phase, alive, loop, adv>>
    BY <1>17 DEF StopCancels, StopOrder
  <2>2. /\ stopper.pc \in {"starts", "stop"} /\ stopper'.pc = "stop"
        /\ stopper'.await = stopper.await
    BY <1>17, <1>a DEF StopCancels, StopOrder, Stoppers
  <2> QED
    BY <2>1, <2>2, <1>t DEF Held, Actors, Dead, Running, memory
<1>19. CASE StopDone
  <2>1. /\ UNCHANGED <<memory, shared, alive, loop, adv>> /\ stopper'.pc = "off" /\ stopper'.await = {}
        /\ stopper.pc = "stop"
        /\ \/ phase' = "stopped" /\ quiet' = IF quiet = "asked" THEN "yes" ELSE quiet
           \/ phase' = phase /\ quiet' = "no"
    BY <1>19 DEF StopDone, NoStop
  <2>2. Actors'
    BY <2>1, <1>t DEF Actors, Running, memory
  <2>3. quiet' = "yes" => quiet = "asked" /\ stopper.await = {} /\ phase' = "stopped"
    BY <2>1, <1>t DEF Held, Actors
  <2>4. Held'
    BY <2>1, <2>3, <1>t DEF Held, Dead, Running, memory, ActivePhases
  <2> QED
    BY <2>2, <2>4
<1> QED
  BY <1>1, <1>2, <1>3, <1>4, <1>5, <1>6, <1>7, <1>8, <1>9, <1>10, <1>11, <1>12, <1>13,
     <1>14, <1>15, <1>16, <1>17, <1>19
  DEF Next, Environment, ControllerStep, StopStep, Outside, Advancers

\* Nobody is there at the start.
LEMMA StopInvInit == Init => StopInv
  BY BenchInit DEF StopInv, Actors, Held, Dead, Running, Init, NoLoop, NoAdvance, NoStop,
    ActivePhases, Advancers, Keys

\* Once a stop was answered no advance is under way, and no other step claims.
LEMMA StopHoldsStep ==
  ASSUME StopInv, [Next]_vars, quiet = "yes", quiet' = "yes", "manual" \notin shared',
         NEW o \in Orders, inst'[o] = "starting"
  PROVE  inst[o] = "starting"
<1> USE DEF StopInv, BenchType
<1>1. CASE UNCHANGED vars
  BY <1>1 DEF vars, data
<1>2. ASSUME NEW p \in Orders, Outside(p) PROVE inst[o] = "starting"
  BY <1>2 DEF Outside, Route, Report, StopInstance, DeleteInstance
<1>3. ASSUME NEW p \in Orders, Start(p) PROVE inst[o] = "starting"
  BY <1>3 DEF Start, BackgroundBegin, BackgroundEnd, data
<1>4. ASSUME NEW a \in Advancers, Advance(a) PROVE FALSE
  <2>1. adv[a].pc # "off" /\ shared' = shared
    BY <1>4, AdvanceForm
  <2> QED
    BY <2>1 DEF Actors, Held, Advancers
<1>5. ASSUME NEW p \in Orders, StopOrder(p) PROVE inst[o] = "starting"
  BY <1>5 DEF StopOrder
<1>6. ASSUME NEW k \in Keys, LoopTop(k) \/ AdvanceFails(k) \/ Persist(k) \/ RunRequest(k) \/ RunRefused(k)
      PROVE  inst[o] = "starting"
  BY <1>6 DEF LoopTop, AdvanceFails, Persist, RunRequest, RunRefused, data
<1>7. CASE WatchRead \/ Restore \/ Crash \/ Restart \/ ManualRequest
  BY <1>7 DEF WatchRead, Restore, Crash, Restart, ManualRequest, data
<1>8. CASE StopRead \/ StopRefused \/ StopCancels \/ StopDone \/ \E scope \in Scopes : StopRequest(scope)
  BY <1>8 DEF StopRead, StopRefused, StopCancels, StopDone, StopRequest, data
<1> QED
  BY <1>1, <1>2, <1>3, <1>4, <1>5, <1>6, <1>7, <1>8
  DEF Next, Environment, ControllerStep, StopStep, Outside, Advancers

\* After a stop that reached the run was stored and answered nothing of the run is
\* claimed until somebody asks for it: the flag outlives the status a restore
\* writes, and a controller looks at it before it advances.  Whatever keys have
\* controllers then.
THEOREM AnsweredStop == Spec => StopHolds
<1> DEFINE A == quiet = "yes" /\ quiet' = "yes" /\ "manual" \notin shared' =>
                  \A o \in Orders : inst'[o] = "starting" => inst[o] = "starting"
<1>1. StopInv /\ [Next]_vars => A
  BY StopHoldsStep
<1>2. Spec => [][A]_vars
  <2> HIDE DEF A
  <2> QED
    BY <1>1, StopInvInit, StopStepKeeps, PTL DEF Spec
<1> QED
  BY <1>2 DEF StopHolds

\* A crash and a failure end advances, and change no other.
LEMMA ResetForm ==
  ASSUME BenchType, Crash \/ \E k \in Keys : AdvanceFails(k), NEW b \in Advancers
  PROVE  adv'[b] = adv[b] \/ adv'[b].pc = "off"
<1>0. adv \in [Advancers -> Snapshot] /\ NoAdvance.pc = "off"
  BY DEF BenchType, NoAdvance
<1>1. CASE Crash
  BY <1>0, <1>1 DEF Crash
<1>2. ASSUME NEW k \in Keys, AdvanceFails(k) PROVE adv'[b] = adv[b] \/ adv'[b].pc = "off"
  <2>1. adv' = [adv EXCEPT ![k] = NoAdvance]
    BY <1>2 DEF AdvanceFails
  <2> QED
    BY <1>0, <2>1
<1> QED
  BY <1>1, <1>2

\* What the top of a round leaves of the controllers and the advances.
LEMMA TopMoves ==
  ASSUME BenchType, NEW k \in Keys, LoopTop(k)
  PROVE  /\ UNCHANGED <<data, phase>> /\ \A q \in Keys : q # k => loop'[q] = loop[q]
         /\ \/ /\ UNCHANGED adv
               /\ loop'[k].pc = "ending" /\ loop'[k].ending \in {"blocked", "stopped"}
            \/ /\ Read(k) /\ \A b \in Advancers : b # k => adv'[b] = adv[b]
               /\ loop'[k].pc = "advance"
<1>0. loop \in [Keys -> Controllers(menu.rounds)] /\ UNCHANGED <<data, phase>> /\ k \in Advancers
  BY DEF LoopTop, BenchType, Advancers
<1>1. ASSUME NEW p \in {"blocked", "stopped"}, loop' = [loop EXCEPT ![k] = Ending(p)]
      PROVE  /\ \A q \in Keys : q # k => loop'[q] = loop[q]
             /\ loop'[k].pc = "ending" /\ loop'[k].ending = p
  BY <1>0, <1>1 DEF Ending, NoLoop
<1>2. ASSUME NEW c, loop' = [loop EXCEPT ![k] = c], c.pc = "advance"
      PROVE  /\ \A q \in Keys : q # k => loop'[q] = loop[q]
             /\ loop'[k].pc = "advance"
  BY <1>0, <1>2
<1>3. Read(k) => \A b \in Advancers : b # k => adv'[b] = adv[b]
  BY <1>0, ReadForm
<1> QED
  BY <1>0, <1>1, <1>2, <1>3, TopForm
-----------------------------------------------------------------------------
(* What was declared completed is clean.                                   *)

\* An order the run is over with.
Settled(o) == ord[o] = "cancelled" \/ (o \in done /\ inst[o] = "gone")

\* An order has an instance from its routing on.
RowOK ==
  \A o \in Orders :
    /\ ord[o] = "pending" => inst[o] = "none"
    /\ ord[o] = "materialized" \/ o \in done => inst[o] # "none"

\* What an advance has read may be old, but what is over by it is over.  At its
\* end it takes an order without a row for one whose instance is gone.
Past(v) ==
  /\ v.done \subseteq done
  /\ \A o \in Orders : /\ v.ord[o] = "materialized" => inst[o] # "none"
                       /\ v.inst[o] = "gone" /\ o \in v.done => inst[o] = "gone"
                       /\ v.ord[o] = "cancelled" => Settled(o)
View(v) == Past(v) /\ \A o \in Orders : v.inst[o] = "gone" => inst[o] = "gone"
Views == \A a \in Advancers : adv[a].pc # "off" => View(adv[a])

\* A run declared completed, or about to be, is over with all its orders.
Completed ==
  (\E k \in Keys : loop[k].pc = "ending" /\ loop[k].ending = "completed")
    \/ phase = "completed" => \A o \in Orders : Settled(o)

CleanInv == StopInv /\ RowOK /\ Views /\ Completed

\* Nobody brings back an instance that is gone, or an order that is settled.
Onward ==
  /\ RowOK' /\ done \subseteq done'
  /\ \A o \in Orders : /\ inst[o] = "gone" => inst'[o] = "gone"
                       /\ inst[o] # "none" => inst'[o] # "none"
                       /\ Settled(o) => Settled(o)'

\* A cleanup of what an advance finds evaluated.
LEMMA CleanUpOnward ==
  ASSUME BenchType, RowOK, NEW v \in Snapshot, Past(v), UNCHANGED done,
         NEW refused \in SUBSET ToClean(v), CleanUp(ToClean(v), refused),
         NEW w, w = AfterCleaning(v, ToClean(v), refused)
  PROVE  Onward /\ Past(w)' /\ (View(v) => View(w)')
<1>1. \A o \in Orders :
        /\ o \in ToClean(v) \ refused => inst'[o] = "gone" /\ o \in done
        /\ o \in refused => HasRow(o) /\ inst'[o] = "stopped" /\ ord'[o] = ord[o]
        /\ o \notin ToClean(v) => inst'[o] = inst[o] /\ ord'[o] = ord[o]
        /\ ord'[o] \in {ord[o], "completed"}
        /\ ord'[o] = "completed" => ord[o] # "cancelled" \/ ord'[o] = ord[o]
  BY DEF BenchType, CleanUp, ToClean, Current, Past, HasRow, InstanceStatus
<1>2. Onward
  BY <1>1 DEF Onward, RowOK, Settled, HasRow
<1>3. /\ w.done = v.done
      /\ \A o \in Orders :
           /\ w.ord[o] = IF o \in ToClean(v) \ refused THEN "completed" ELSE v.ord[o]
           /\ w.inst[o] = IF o \in ToClean(v) \ refused THEN "gone" ELSE v.inst[o]
  BY DEF AfterCleaning, Snapshot
<1>4. Past(w)'
  BY <1>1, <1>2, <1>3 DEF Past, Onward
<1>5. View(v) => View(w)'
  BY <1>1, <1>2, <1>3, <1>4 DEF View, Onward
<1> QED
  BY <1>2, <1>4, <1>5

\* What stays as it was read stays true.
LEMMA ViewStays == ASSUME NEW v, View(v), Onward PROVE View(v)'
  BY DEF View, Past, Onward

\* What an advance sees at its end is true of the past.
LEMMA SeenPast ==
  ASSUME BenchType, RowOK, NEW a \in Advancers, View(adv[a])
  PROVE  Past(Seen(a))
<1>1. CASE ~ adv[a].fresh
  BY <1>1 DEF Seen, View
<1>2. CASE adv[a].fresh
  <2>1. /\ Seen(a).ord = adv[a].ord /\ Seen(a).done = adv[a].done \cup done
        /\ \A o \in Orders : Seen(a).inst[o] = IF HasRow(o) THEN adv[a].inst[o] ELSE "gone"
    BY <1>2 DEF Seen, BenchType, Snapshot
  <2> QED
    BY <2>1 DEF View, Past, HasRow, RowOK, BenchType, InstanceStatus
<1> QED
  BY <1>1, <1>2

\* Every step goes onward.
LEMMA OnwardStep == CleanInv /\ [Next]_vars => Onward
<1> SUFFICES ASSUME CleanInv, [Next]_vars PROVE Onward
  OBVIOUS
<1>t. BenchType /\ RowOK /\ Views
  BY DEF CleanInv, StopInv
<1> DEFINE Same == UNCHANGED data
<1>s. Same => Onward
  BY <1>t DEF Onward, RowOK, Settled, data
<1>1. CASE UNCHANGED vars
  BY <1>1, <1>s DEF vars
<1>2. ASSUME NEW o \in Orders, Outside(o) PROVE Onward
  BY <1>2, <1>t DEF Outside, Route, Report, StopInstance, DeleteInstance, Onward, RowOK, Settled,
    HasRow, BenchType
<1>3. ASSUME NEW o \in Orders, Start(o) PROVE Onward
  BY <1>3, <1>t DEF Start, BackgroundBegin, BackgroundEnd, data, Onward, RowOK, Settled,
    HasRow, BenchType
<1>4. ASSUME NEW a \in Advancers, Advance(a) PROVE Onward
  <2>1. adv[a] \in Snapshot /\ View(adv[a])
    BY <1>4, <1>t, AdvanceForm DEF BenchType, Views
  <2>2. CASE Recover(a)
    BY <2>2, <1>s DEF Recover
  <2>3. CASE CleanFirst(a)
    BY <2>1, <2>3, <1>t, CleanUpOnward DEF CleanFirst, View
  <2>4. CASE Finish(a)
    <3> QED
      BY <2>1, <2>4, <1>t, SeenPast, FinishForm, CleanUpOnward DEF Finish
  <2>5. ASSUME NEW c \in SUBSET Claimable(adv[a]), Claim(a, c) PROVE Onward
    BY <2>5, <1>t DEF Claim, Onward, RowOK, Settled, HasRow, BenchType
  <2> QED
    BY <1>4, <2>2, <2>3, <2>4, <2>5 DEF Advance
<1>5. ASSUME NEW o \in Orders, StopOrder(o) PROVE Onward
  BY <1>5, <1>t DEF StopOrder, Onward, RowOK, Settled, HasRow, BenchType
<1>6. CASE StopCancels
  BY <1>6, <1>t DEF StopCancels, Onward, RowOK, Settled, BenchType
<1>7. ASSUME NEW k \in Keys, LoopTop(k) \/ AdvanceFails(k) \/ Persist(k) \/ RunRequest(k) \/ RunRefused(k)
      PROVE  Onward
  BY <1>7, <1>s DEF LoopTop, AdvanceFails, Persist, RunRequest, RunRefused, data
<1>8. CASE WatchRead \/ Restore \/ Crash \/ Restart \/ ManualRequest
  BY <1>8, <1>s DEF WatchRead, Restore, Crash, Restart, ManualRequest, data
<1>9. CASE StopRead \/ StopRefused \/ StopDone \/ \E scope \in Scopes : StopRequest(scope)
  BY <1>9, <1>s DEF StopRead, StopRefused, StopDone, StopRequest, data
<1> QED
  BY <1>1, <1>2, <1>3, <1>4, <1>5, <1>6, <1>7, <1>8, <1>9
  DEF Next, Environment, ControllerStep, StopStep, Outside, Advancers

\* An advance that goes on keeps what it knows true.
LEMMA ViewsStep == CleanInv /\ [Next]_vars => Views'
<1> SUFFICES ASSUME CleanInv, [Next]_vars, NEW b \in Advancers, adv'[b].pc # "off"
             PROVE  View(adv[b])'
  BY DEF Views
<1>t. /\ BenchType /\ BenchType' /\ RowOK /\ Views /\ Onward
  BY OnwardStep, TypeStep DEF CleanInv, StopInv
<1>s. ASSUME adv'[b] = adv[b] PROVE View(adv[b])'
  BY <1>s, <1>t DEF Views, View, Past, Onward
<1>r. ASSUME NEW a \in Advancers, Read(a), UNCHANGED data PROVE View(adv[b])'
  <2>1. CASE a = b
    BY <1>r, <1>t, <2>1, ReadForm DEF View, Past, RowOK, Settled, data
  <2> QED
    BY <1>r, <1>s, <1>t, <2>1, ReadForm
<1>1. CASE UNCHANGED vars
  BY <1>1, <1>s DEF vars
<1>2. ASSUME NEW o \in Orders, Outside(o) \/ Start(o) \/ StopOrder(o) PROVE View(adv[b])'
  <2>1. CASE Start(o)
    <3>1. /\ adv'[b].pc = adv[b].pc /\ adv'[b].ord = adv[b].ord /\ adv'[b].inst = adv[b].inst
          /\ adv'[b].done = adv[b].done
      BY <1>t, <2>1, BackgroundForm
    <3> QED
      BY <1>t, <3>1 DEF Views, View, Past, Onward, Settled
  <2> QED
    BY <1>2, <1>s, <2>1 DEF Outside, Route, Report, StopInstance, DeleteInstance, StopOrder
<1>3. ASSUME NEW a \in Advancers, Advance(a) PROVE View(adv[b])'
  <2>1. adv[a] \in Snapshot /\ View(adv[a]) /\ UNCHANGED done
    BY <1>3, <1>t, AdvanceForm DEF BenchType, Views
  <2>2. CASE a # b
    BY <1>3, <1>s, <1>t, <2>2, AdvanceForm
  <2>3. CASE a = b /\ Recover(a)
    <3>1. /\ adv'[a].ord = adv[a].ord /\ adv'[a].inst = adv[a].inst /\ adv'[a].done = adv[a].done
      BY <2>3, <1>t, RecoverForm
    <3> QED
      BY <1>t, <2>1, <2>3, <3>1 DEF View, Past, Onward
  <2>4. CASE a = b /\ CleanFirst(a)
    <3>1. PICK refused \in SUBSET ToClean(adv[a]) :
            /\ CleanUp(ToClean(adv[a]), refused)
            /\ adv' = [adv EXCEPT ![a] =
                 [AfterCleaning(adv[a], ToClean(adv[a]), refused) EXCEPT !.pc = "claim"]]
      BY <2>4 DEF CleanFirst
    <3>2. PICK v \in Snapshot : v = adv[a]
      BY <2>1
    <3>3. PICK w \in Snapshot : w = AfterCleaning(v, ToClean(v), refused)
      BY <3>1, <3>2, CleaningType DEF ToClean, Current
    <3>4. View(w)'
      BY <1>t, <2>1, <3>1, <3>2, <3>3, CleanUpOnward DEF View
    <3>5. adv'[a] = [w EXCEPT !.pc = "claim"]
      BY <1>t, <3>1, <3>2, <3>3 DEF BenchType
    <3>6. adv'[a].ord = w.ord /\ adv'[a].inst = w.inst /\ adv'[a].done = w.done
      BY <3>5 DEF Snapshot
    <3> QED
      BY <2>4, <3>4, <3>6 DEF View, Past, Settled
  <2>5. CASE a = b /\ Finish(a)
    BY <2>5, <1>t DEF Finish, NoAdvance, BenchType
  <2>6. ASSUME a = b, NEW c \in SUBSET Claimable(adv[a]), Claim(a, c) PROVE View(adv[b])'
    <3>1. /\ adv'[a].ord = adv[a].ord /\ adv'[a].done = adv[a].done
          /\ \A o \in Orders : adv'[a].inst[o] = IF o \in c THEN "starting" ELSE adv[a].inst[o]
      BY <2>1, <2>6, <1>t DEF Claim, AfterClaim, Snapshot, BenchType
    <3> QED
      BY <1>t, <2>1, <2>6, <3>1 DEF View, Past, Onward
  <2> QED
    BY <1>3, <2>2, <2>3, <2>4, <2>5, <2>6 DEF Advance
<1>4. CASE ManualRequest
  BY <1>4, <1>r DEF ManualRequest, Advancers
<1>8. ASSUME NEW k \in Keys, LoopTop(k) PROVE View(adv[b])'
  <2>1. UNCHANGED data /\ (UNCHANGED adv \/ Read(k)) /\ k \in Advancers
    BY <1>8, <1>t, TopMoves DEF Advancers
  <2> QED
    BY <2>1, <1>r, <1>s
<1>5. CASE Crash \/ \E k \in Keys : AdvanceFails(k)
  <2>1. adv'[b] = adv[b] \/ adv'[b].pc = "off"
    BY <1>5, <1>t, ResetForm
  <2> QED
    BY <1>s, <2>1
<1>6. CASE \/ WatchRead \/ Restore \/ Restart
           \/ \E k \in Keys : Persist(k) \/ RunRequest(k) \/ RunRefused(k)
  BY <1>6, <1>s DEF Persist, RunRequest, RunRefused, WatchRead, Restore, Restart
<1>7. CASE \/ StopRead \/ StopRefused \/ StopCancels \/ StopDone
           \/ \E scope \in Scopes : StopRequest(scope)
  BY <1>7, <1>s DEF StopRequest, StopRead, StopRefused, StopCancels, StopDone
<1> QED
  BY <1>1, <1>2, <1>3, <1>4, <1>5, <1>6, <1>7, <1>8
  DEF Next, Environment, ControllerStep, StopStep, Outside, Advancers

\* A run is declared completed only when it is over with all its orders.
LEMMA CompletedStep == CleanInv /\ [Next]_vars => Completed'
<1> SUFFICES ASSUME CleanInv, [Next]_vars PROVE Completed'
  OBVIOUS
<1>t. /\ BenchType /\ RowOK /\ Views /\ Onward /\ Completed
  BY OnwardStep DEF CleanInv, StopInv
<1>s. ASSUME \A k \in Keys :
               loop'[k] = loop[k] \/ loop'[k].pc # "ending" \/ loop'[k].ending # "completed",
             \/ phase' = phase \/ phase' # "completed"
             \/ \E k \in Keys : loop[k].pc = "ending" /\ phase' = loop[k].ending
      PROVE  Completed'
  BY <1>s, <1>t DEF Completed, Onward
<1>1. CASE UNCHANGED vars
  BY <1>1, <1>s DEF vars
<1>2. ASSUME NEW o \in Orders, Outside(o) \/ Start(o) \/ StopOrder(o) PROVE Completed'
  BY <1>2, <1>s DEF Outside, Route, Report, StopInstance, DeleteInstance, Start, BackgroundBegin,
    BackgroundEnd, StopOrder
<1>3. ASSUME NEW a \in Advancers, Advance(a) PROVE Completed'
  <2>0. phase' = phase /\ \A k \in Keys : k # a => loop'[k] = loop[k]
    BY <1>3, <1>t, AdvanceForm
  <2>1. CASE a \notin Keys \/ loop'[a] = loop[a]
    BY <1>s, <2>0, <2>1
  <2>2. CASE a \in Keys /\ loop'[a] # loop[a]
    <3>1. Finish(a)
      BY <1>3, <2>2 DEF Advance, Recover, CleanFirst, Claim
    <3>2. View(adv[a]) /\ Seen(a) \in Snapshot /\ UNCHANGED done
      BY <1>3, <1>t, <3>1, AdvanceForm, FinishForm DEF Views
    <3>3. PICK v \in Snapshot : v = Seen(a)
      BY <3>2
    <3>4. PICK refused \in SUBSET ToClean(v) :
            /\ CleanUp(ToClean(v), refused)
            /\ AfterCleaning(v, ToClean(v), refused) \in Snapshot
            /\ loop'[a] = Decide(a, AfterCleaning(v, ToClean(v), refused))
      BY <1>t, <2>2, <3>1, <3>3, FinishForm
    <3>5. PICK w \in Snapshot : w = AfterCleaning(v, ToClean(v), refused)
      BY <3>4
    <3>6. Past(w)'
      BY <1>t, <3>3, <3>2, <3>5, <3>4, SeenPast, CleanUpOnward
    <3>7. \/ loop'[a].pc # "ending" \/ loop'[a].ending # "completed"
          \/ \A o \in Orders : w.ord[o] # "cancelled" => o \in w.done /\ w.inst[o] = "gone"
      BY <1>t, <2>2, <3>5, <3>4, DecideForm
    <3>8. (\A o \in Orders : w.ord[o] # "cancelled" => o \in w.done /\ w.inst[o] = "gone")
             => \A o \in Orders : Settled(o)'
      BY <3>6 DEF Past, Settled
    <3>9. CASE \A o \in Orders : Settled(o)'
      BY <3>9 DEF Completed
    <3> QED
      BY <1>s, <2>0, <3>7, <3>8, <3>9
  <2> QED
    BY <2>1, <2>2
<1>4. ASSUME NEW k \in Keys, LoopTop(k) PROVE Completed'
  <2>1. /\ phase' = phase /\ \A q \in Keys : q # k => loop'[q] = loop[q]
        /\ loop'[k].pc = "advance" \/ loop'[k].ending \in {"blocked", "stopped"}
    BY <1>4, <1>t, TopMoves
  <2> QED
    BY <1>s, <2>1
<1>5. ASSUME NEW k \in Keys, AdvanceFails(k) PROVE Completed'
  <2>1. /\ phase' = phase /\ \A q \in Keys : q # k => loop'[q] = loop[q]
        /\ loop'[k].pc = "top" \/ loop'[k].ending = "failed"
    BY <1>5, <1>t, FailForm DEF AdvanceFails, BenchType
  <2> QED
    BY <1>s, <2>1
<1>6. ASSUME NEW k \in Keys, Persist(k) PROVE Completed'
  <2>1. /\ \A q \in Keys : q # k => loop'[q] = loop[q]
        /\ loop'[k].pc = "off" /\ loop[k].pc = "ending" /\ phase' \in {phase, loop[k].ending}
    BY <1>6, <1>t DEF Persist, NoLoop, BenchType
  <2> QED
    BY <1>s, <2>1
<1>7. ASSUME NEW k \in Keys, Controller(k), phase' \in {phase, "running"} PROVE Completed'
  <2>1. loop'[k].pc = "top" /\ \A q \in Keys : q # k => loop'[q] = loop[q]
    BY <1>7, <1>t DEF Controller, NoLoop, BenchType
  <2> QED
    BY <1>7, <1>s, <2>1
<1>8. CASE Restore \/ Restart \/ \E k \in Keys : RunRequest(k)
  BY <1>8, <1>s, <1>7 DEF Restore, Restart, RunRequest, Keys
<1>9. CASE WatchRead \/ ManualRequest \/ \E k \in Keys : RunRefused(k)
  BY <1>9, <1>s DEF RunRefused, WatchRead, ManualRequest
<1>10. CASE Crash
  BY <1>10, <1>s DEF Crash, NoLoop
<1>11. CASE \/ StopRead \/ StopRefused \/ StopCancels \/ StopDone
            \/ \E scope \in Scopes : StopRequest(scope)
  BY <1>11, <1>s DEF StopRequest, StopRead, StopRefused, StopCancels, StopDone
<1> QED
  BY <1>1, <1>2, <1>3, <1>4, <1>5, <1>6, <1>8, <1>9, <1>10, <1>11
  DEF Next, Environment, ControllerStep, StopStep, Outside, Advancers

\* It holds at the start.
LEMMA CleanInit == Init => CleanInv
  BY StopInvInit DEF CleanInv, Init, RowOK, Views, Completed, NoAdvance, NoLoop, Advancers, Keys

\* Every step keeps it.
LEMMA CleanStep == CleanInv /\ [Next]_vars => CleanInv'
  BY OnwardStep, ViewsStep, CompletedStep, StopStepKeeps DEF CleanInv, Onward

\* A run that was declared completed has a result for each of its orders and none
\* of their instances, whatever the snapshot its last round decided on had missed.
THEOREM CompletedRuns == Spec => []CompletedIsClean
<1>1. CleanInv => CompletedIsClean
  BY DEF CleanInv, Completed, CompletedIsClean, Settled, HasRow
<1> QED
  BY <1>1, CleanInit, CleanStep, PTL DEF Spec

-----------------------------------------------------------------------------
(* What a crash has left STARTING is adopted.                              *)

\* A claim somebody is to make true, or that is of no concern any more.
Adopted(o) ==
  o \in done \/ inst[o] # "starting" \/ ord[o] # "materialized" \/ bg[o] # "none"

\* Once a round has passed its first part it has adopted every claim; before, it
\* has those in hand that are left.  In either case except what a start has left
\* that raised meanwhile.
Adopts == \A k \in Keys : \A o \in Orders :
  /\ adv[k].pc = "recover" => Adopted(o) \/ o \in Orphans(adv[k]) \cup adv[k].lost
  /\ adv[k].pc \in {"clean", "claim", "final"} => Adopted(o) \/ o \in adv[k].lost

AdoptInv == StopInv /\ Adopts

\* Only the end of the process, or a start that raises, drops a task without the
\* instance having left STARTING.
LEMMA AdoptedStays ==
  ASSUME BenchType, [Next]_vars, ~ Crash, NEW o \in Orders, Adopted(o), ~ BackgroundEnd(o)
  PROVE  Adopted(o)'
<1> USE DEF Adopted
<1>1. CASE UNCHANGED vars
  BY <1>1 DEF vars, data
<1>2. ASSUME NEW p \in Orders, Outside(p) PROVE Adopted(o)'
  BY <1>2 DEF Outside, Route, Report, StopInstance, DeleteInstance, BenchType
<1>3. ASSUME NEW p \in Orders, Start(p) PROVE Adopted(o)'
  BY <1>3 DEF Start, BackgroundBegin, BackgroundEnd, data, HasRow, BenchType
<1>4. ASSUME NEW a \in Advancers, Advance(a) PROVE Adopted(o)'
  <2>1. CASE Recover(a)
    BY <2>1 DEF Recover, Dispatch, data
  <2>2. ASSUME NEW some, NEW refused, CleanUp(some, refused), UNCHANGED <<done, bg>>
        PROVE  Adopted(o)'
    BY <2>2 DEF CleanUp
  <2>3. CASE CleanFirst(a)
    BY <2>2, <2>3 DEF CleanFirst
  <2>4. CASE Finish(a)
    BY <2>2, <2>4 DEF Finish
  <2>5. ASSUME NEW c \in SUBSET Claimable(adv[a]), Claim(a, c) PROVE Adopted(o)'
    BY <2>5 DEF Claim, Dispatch
  <2> QED
    BY <1>4, <2>1, <2>3, <2>4, <2>5 DEF Advance
<1>5. ASSUME NEW p \in Orders, StopOrder(p) PROVE Adopted(o)'
  BY <1>5 DEF StopOrder, BenchType
<1>6. CASE StopCancels
  BY <1>6 DEF StopCancels
<1>7. ASSUME NEW k \in Keys, LoopTop(k) \/ AdvanceFails(k) \/ Persist(k) \/ RunRequest(k) \/ RunRefused(k)
      PROVE  Adopted(o)'
  BY <1>7 DEF LoopTop, AdvanceFails, Persist, RunRequest, RunRefused, data
<1>8. CASE WatchRead \/ Restore \/ Restart \/ ManualRequest \/ \E scope \in Scopes : StopRequest(scope)
  BY <1>8 DEF WatchRead, Restore, Restart, ManualRequest, StopRequest, data
<1>9. CASE StopRead \/ StopRefused \/ StopDone
  BY <1>9 DEF StopRead, StopRefused, StopDone, data
<1> QED
  BY <1>1, <1>2, <1>3, <1>4, <1>5, <1>6, <1>7, <1>8, <1>9
  DEF Next, Environment, ControllerStep, StopStep, Outside, Advancers

\* A start that ends keeps the claim, or enters it with every advance under way.
LEMMA EndedStart ==
  ASSUME BenchType, NEW o \in Orders, BackgroundEnd(o), NEW a \in Advancers, adv[a].pc # "off"
  PROVE  Adopted(o)' \/ o \in adv'[a].lost
<1>1. CASE HasRow(o) /\ \E st \in {"running", "failed"} : inst' = [inst EXCEPT ![o] = st]
  BY <1>1 DEF Adopted, BenchType
<1>2. CASE adv' = [b \in Advancers |-> IF adv[b].pc = "off" THEN adv[b]
                                       ELSE [adv[b] EXCEPT !.lost = @ \cup {o}]]
  <2>1. adv'[a] = [adv[a] EXCEPT !.lost = @ \cup {o}] /\ adv[a] \in Snapshot
    BY <1>2 DEF BenchType
  <2> QED
    BY <2>1 DEF Snapshot
<1> QED
  BY <1>1, <1>2 DEF BackgroundEnd

\* Who moves a controller's advance.
LEMMA KeyMoves ==
  ASSUME StopInv, [Next]_vars, NEW k \in Keys
  PROVE  \/ adv'[k] = adv[k]
         \/ adv'[k].pc = "off"
         \/ \E o \in Orders : BackgroundEnd(o)
         \/ Read(k) /\ UNCHANGED <<data, bg>> /\ ~ Crash /\ loop[k].pc = "top"
         \/ Advance(k) /\ ~ Crash
<1>t. BenchType /\ k \in Advancers /\ "manual" \in Advancers /\ k # "manual"
  BY DEF StopInv, Advancers, Keys
<1>1. CASE UNCHANGED vars
  BY <1>1 DEF vars
<1>2. ASSUME NEW o \in Orders, Outside(o) \/ BackgroundBegin(o) \/ StopOrder(o) PROVE UNCHANGED adv
  BY <1>2 DEF Outside, Route, Report, StopInstance, DeleteInstance, BackgroundBegin, StopOrder
<1>3. ASSUME NEW a \in Advancers, a # k, Advance(a) PROVE adv'[k] = adv[k]
  BY <1>3, <1>t, AdvanceForm
<1>4. CASE LoopTop(k)
  BY <1>4 DEF LoopTop, Crash, StopInv, Actors, Read
<1>5. CASE Advance(k)
  <2>1. alive' = alive
    BY <1>5, <1>t, AdvanceForm
  <2> QED
    BY <1>5, <2>1 DEF Crash
<1>6. ASSUME NEW q \in Keys, q # k, LoopTop(q) PROVE adv'[k] = adv[k]
  BY <1>6, <1>t, TopMoves
<1>7. CASE ManualRequest
  BY <1>7, <1>t, ReadForm DEF ManualRequest
<1>8. CASE Crash \/ \E q \in Keys : AdvanceFails(q)
  BY <1>8, <1>t, ResetForm
<1>9. CASE \/ WatchRead \/ Restore \/ Restart
           \/ \E q \in Keys : Persist(q) \/ RunRequest(q) \/ RunRefused(q)
  BY <1>9 DEF Persist, RunRequest, RunRefused, WatchRead, Restore, Restart
<1>10. CASE \/ StopRead \/ StopRefused \/ StopCancels \/ StopDone
            \/ \E scope \in Scopes : StopRequest(scope)
  BY <1>10 DEF StopRequest, StopRead, StopRefused, StopCancels, StopDone
<1> QED
  BY <1>1, <1>2, <1>3, <1>4, <1>5, <1>6, <1>7, <1>8, <1>9, <1>10
  DEF Next, Environment, ControllerStep, StopStep, Outside, Start, Advancers

\* Every step keeps the claims adopted.
LEMMA AdoptStep == AdoptInv /\ [Next]_vars => AdoptInv'
<1> SUFFICES ASSUME AdoptInv, [Next]_vars, NEW k \in Keys, NEW o \in Orders
             PROVE  /\ adv'[k].pc = "recover" =>
                         Adopted(o)' \/ o \in Orphans(adv'[k]) \cup adv'[k].lost
                    /\ adv'[k].pc \in {"clean", "claim", "final"} =>
                         Adopted(o)' \/ o \in adv'[k].lost
  BY StopStepKeeps DEF AdoptInv, Adopts
<1>t. StopInv /\ BenchType /\ Adopts /\ k \in Advancers
  BY DEF AdoptInv, StopInv, Advancers
<1>1. CASE adv'[k].pc = "off"
  BY <1>1
<1>2. CASE ~ (\E p \in Orders : BackgroundEnd(p)) /\ adv'[k].pc # "off" /\ adv'[k] = adv[k]
  <2>1. ~ Crash
    BY <1>2, <1>t DEF Crash, NoAdvance
  <2>2. Orphans(adv'[k]) = Orphans(adv[k])
    BY <1>2
  <2>3. Adopted(o) => Adopted(o)'
    BY <1>t, <1>2, <2>1, AdoptedStays
  <2> QED
    BY <1>2, <1>t, <2>2, <2>3 DEF Adopts
<1>3. CASE Read(k) /\ UNCHANGED <<data, bg>>
  <2>1. Adopted(o)' \/ o \in Orphans(adv'[k])
    BY <1>3, <1>t, ReadForm DEF Adopted, Orphans, Occupied, Current, data
  <2> QED
    BY <1>3, <1>t, <2>1, ReadForm
<1>4. CASE Advance(k) /\ ~ Crash
  <2>1. ~ BackgroundEnd(o)
    <3>1. adv[k].pc # "off" /\ UNCHANGED done
      BY <1>4, <1>t, AdvanceForm
    <3>2. ASSUME BackgroundEnd(o) PROVE FALSE
      <4>1. adv'[k].pc = adv[k].pc /\ loop' = loop /\ bg[o] = "working" /\ bg'[o] = "none"
        BY <1>t, <3>2, BackgroundForm DEF Start, BackgroundEnd, BenchType
      <4>2. ~ Recover(k) /\ ~ CleanFirst(k) /\ ~ \E c \in SUBSET Claimable(adv[k]) : Claim(k, c)
        BY <1>t, <4>1, RecoverForm DEF CleanFirst, Claim, Dispatch, BenchType
      <4>3. ~ Finish(k)
        BY <4>1 DEF Finish
      <4> QED
        BY <1>4, <4>2, <4>3 DEF Advance
    <3> QED
      BY <3>2
  <2>2. Adopted(o) => Adopted(o)'
    BY <1>4, <1>t, <2>1, AdoptedStays
  <2>3. CASE Recover(k)
    <3>1. o \in Orphans(adv[k]) => Adopted(o)'
      BY <2>3 DEF Recover, Dispatch, Adopted
    <3>2. /\ adv'[k].pc \in {"clean", "claim"} /\ adv[k].pc = "recover"
          /\ adv'[k].lost = adv[k].lost \ Orphans(adv[k])
      BY <2>3, <1>t, RecoverForm
    <3> QED
      BY <1>t, <2>2, <3>1, <3>2 DEF Adopts
  <2>4. CASE ~ Recover(k) /\ adv'[k].pc # "off"
    <3>1. adv[k].pc \in {"clean", "claim", "final"} /\ adv'[k].pc # "recover"
      <4>1. adv[k].pc \in {"clean", "claim", "final"}
        BY <1>4, <2>4 DEF Advance, CleanFirst, Finish, Claim
      <4> QED
        BY <1>4, <1>t, <4>1, AdvanceForm
    <3>2. adv'[k].lost = adv[k].lost
      BY <1>4, <1>t, <2>4, LostForm
    <3> QED
      BY <1>t, <2>2, <3>1, <3>2 DEF Adopts
  <2> QED
    BY <1>1, <2>3, <2>4
<1>5. ASSUME NEW p \in Orders, BackgroundEnd(p), adv'[k].pc # "off"
      PROVE  /\ adv'[k].pc = "recover" =>
                         Adopted(o)' \/ o \in Orphans(adv'[k]) \cup adv'[k].lost
             /\ adv'[k].pc \in {"clean", "claim", "final"} =>
                         Adopted(o)' \/ o \in adv'[k].lost
  <2>1. /\ adv'[k].pc = adv[k].pc /\ adv'[k].ord = adv[k].ord /\ adv'[k].inst = adv[k].inst
        /\ adv'[k].done = adv[k].done /\ adv[k].lost \subseteq adv'[k].lost
    BY <1>5, <1>t, BackgroundForm DEF Start
  <2>2. Orphans(adv'[k]) = Orphans(adv[k])
    BY <2>1 DEF Orphans, Occupied, Current
  <2>3. CASE o = p
    BY <1>5, <1>t, <2>1, <2>3, EndedStart
  <2>4. CASE o # p
    <3>1. Adopted(o) => Adopted(o)'
      BY <1>5, <1>t, <2>4 DEF BackgroundEnd, Adopted, BenchType
    <3> QED
      BY <1>t, <2>1, <2>2, <3>1 DEF Adopts
  <2> QED
    BY <2>3, <2>4
<1> QED
  BY <1>t, <1>1, <1>2, <1>3, <1>4, <1>5, KeyMoves

\* The steps with which a round of a controller ends.
LEMMA RoundEnds ==
  ASSUME StopInv, [Next]_vars, NEW k \in Keys, loop[k].pc = "advance", loop'[k].pc # "advance", alive'
  PROVE  Finish(k) \/ AdvanceFails(k)
<1>t. BenchType /\ alive /\ Running(k) /\ k \in Advancers
  BY DEF StopInv, Actors, Running, Advancers
<1>1. CASE UNCHANGED vars
  BY <1>1 DEF vars
<1>2. ASSUME NEW o \in Orders, Outside(o) \/ Start(o) \/ StopOrder(o) PROVE UNCHANGED loop
  BY <1>2 DEF Outside, Route, Report, StopInstance, DeleteInstance, Start, BackgroundBegin,
    BackgroundEnd, StopOrder
<1>3. ASSUME NEW a \in Advancers, a # k, Advance(a) PROVE FALSE
  BY <1>3, <1>t, AdvanceForm
<1>4. CASE Advance(k)
  BY <1>4 DEF Advance, Recover, CleanFirst, Claim
<1>5. ASSUME NEW q \in Keys, LoopTop(q) \/ Persist(q) \/ (AdvanceFails(q) /\ q # k) PROVE FALSE
  BY <1>5, <1>t DEF LoopTop, Persist, AdvanceFails, BenchType
<1>6. ASSUME NEW q \in Keys, Controller(q), ~ Running(q) PROVE FALSE
  BY <1>6, <1>t DEF Controller, BenchType
<1>7. CASE Restore \/ \E q \in Keys : RunRequest(q)
  BY <1>6, <1>7 DEF Restore, RunRequest, Keys
<1>8. CASE ManualRequest \/ WatchRead \/ \E q \in Keys : RunRefused(q)
  BY <1>8 DEF ManualRequest, RunRefused, WatchRead
<1>9. CASE Crash \/ Restart
  BY <1>9, <1>t DEF Crash, Restart
<1>10. CASE \/ StopRead \/ StopRefused \/ StopCancels \/ StopDone
            \/ \E scope \in Scopes : StopRequest(scope)
  BY <1>10 DEF StopRequest, StopRead, StopRefused, StopCancels, StopDone
<1> QED
  BY <1>1, <1>2, <1>3, <1>4, <1>5, <1>7, <1>8, <1>9, <1>10
  DEF Next, Environment, ControllerStep, StopStep, Outside, Advancers

\* A round that ends regularly has adopted what it found claimed, though the
\* process that claimed it is gone or its start has raised; only starts that raise
\* while the round is under way are left.
THEOREM AdoptedClaims == Spec => ClaimsAdopted
<1> DEFINE A == \A k \in Keys :
                  loop[k].pc = "advance" /\ loop'[k].pc # "advance" /\ alive'
                    /\ loop'[k].errors = 0 /\ loop'[k].ending # "failed" =>
                    \A o \in Orders \ (done \cup adv[k].lost) :
                      inst'[o] = "starting" /\ ord'[o] = "materialized" => bg'[o] # "none"
<1>1. Init => AdoptInv
  BY StopInvInit DEF AdoptInv, Adopts, Init, NoAdvance, Advancers
<1>2. AdoptInv /\ [Next]_vars => A
  <2> SUFFICES ASSUME AdoptInv, [Next]_vars, NEW k \in Keys,
                      loop[k].pc = "advance", loop'[k].pc # "advance", alive',
                      loop'[k].errors = 0, loop'[k].ending # "failed",
                      NEW o \in Orders \ (done \cup adv[k].lost),
                      inst'[o] = "starting", ord'[o] = "materialized"
               PROVE  bg'[o] # "none"
    OBVIOUS
  <2>t. StopInv /\ BenchType /\ Adopts /\ k \in Advancers
    BY DEF AdoptInv, StopInv, Advancers
  <2>1. ~ AdvanceFails(k)
    BY <2>t, FailForm DEF BenchType
  <2>2. Finish(k)
    BY <2>1, <2>t, RoundEnds
  <2>3. Adopted(o) /\ UNCHANGED <<done, bg>> /\ ~ Crash
    BY <2>2, <2>t DEF Adopts, Finish, Crash
  <2>4. ~ BackgroundEnd(o)
    BY <2>3, <2>t DEF BackgroundEnd, BenchType
  <2>5. Adopted(o)'
    BY <2>3, <2>4, <2>t, AdoptedStays
  <2> QED
    BY <2>3, <2>5 DEF Adopted
<1>3. Spec => [][A]_vars
  <2> HIDE DEF A
  <2> QED
    BY <1>1, <1>2, AdoptStep, PTL DEF Spec
<1> QED
  BY <1>3 DEF ClaimsAdopted

-----------------------------------------------------------------------------
(* Samples do not share a slot.                                            *)

\* Nothing of what breaks the limit has happened: no start was repeated that had
\* ended, nobody stopped an instance under way, no second advance.
Calm == again \cup cut = {} /\ shared = {}

\* What a slot is busy with.
Works == {o \in Orders \ done : inst[o] \in {"starting", "running"}}
On(o) == {p \in Works : Slot[p] = Slot[o]}

\* Instances belong to materialized orders, tasks to claims, and what a stop is
\* about to cancel has no instance and will get none.
RowCalm(o) ==
  /\ HasRow(o) => ord[o] = "materialized"
  /\ bg[o] # "none" => inst[o] \in {"starting", "gone"} \/ o \in done
  /\ stopper.pc # "off" /\ stopper.ord[o] \in {"failed", "cancelled"} =>
       ~ HasRow(o) /\ ord[o] # "pending"

\* What a controller counts as occupied is at least what is.
Counts == \A k \in Keys :
  adv[k].pc \in {"recover", "clean", "claim"} => Works \subseteq Occupied(adv[k])

Within == \A o \in Orders : Cardinality(On(o)) <= Limit

SlotInv == CleanInv /\ (Calm => (\A o \in Orders : RowCalm(o)) /\ Counts /\ Within)

\* A history does not get better.
LEMMA CalmBefore == BenchType /\ [Next]_vars /\ Calm' => Calm
<1> SUFFICES ASSUME BenchType, [Next]_vars, Calm' PROVE Calm
  OBVIOUS
<1>s. ASSUME again \subseteq again', cut \subseteq cut', shared \subseteq shared' PROVE Calm
  BY <1>s DEF Calm
<1>1. CASE UNCHANGED vars
  BY <1>1, <1>s DEF vars, hist
<1>2. ASSUME NEW o \in Orders, Outside(o) \/ Start(o) \/ StopOrder(o) PROVE Calm
  BY <1>2, <1>s DEF Outside, Route, Report, StopInstance, DeleteInstance, Start, BackgroundBegin,
    BackgroundEnd, StopOrder, hist
<1>3. ASSUME NEW a \in Advancers, Advance(a) PROVE Calm
  <2>1. cut' = cut /\ shared' = shared
    BY <1>3, AdvanceForm
  <2>2. CASE Recover(a)
    BY <2>1, <2>2, <1>s DEF Recover
  <2>3. CASE ~ Recover(a)
    <3>1. UNCHANGED hist
      BY <1>3, <2>3 DEF Advance, CleanFirst, Finish, Claim
    <3> QED
      BY <2>1, <3>1, <1>s DEF hist
  <2> QED
    BY <2>2, <2>3
<1>4. ASSUME NEW k \in Keys, LoopTop(k) \/ AdvanceFails(k) \/ Persist(k) \/ RunRequest(k) \/ RunRefused(k)
      PROVE  Calm
  BY <1>4, <1>s DEF LoopTop, AdvanceFails, Persist, RunRequest, Controller, RunRefused, hist
<1>5. CASE WatchRead \/ Restore \/ Crash \/ Restart \/ ManualRequest
  BY <1>5, <1>s DEF WatchRead, Restore, Crash, Restart, Controller, ManualRequest, hist
<1>6. CASE \/ StopRead \/ StopRefused \/ StopCancels \/ StopDone
           \/ \E scope \in Scopes : StopRequest(scope)
  BY <1>6, <1>s DEF StopRead, StopRefused, StopCancels, StopDone, StopRequest, hist
<1> QED
  BY <1>1, <1>2, <1>3, <1>4, <1>5, <1>6
  DEF Next, Environment, ControllerStep, StopStep, Outside, Advancers

\* What a cleanup leaves of an order.
LEMMA CleanUpCalm ==
  ASSUME BenchType, RowOK, NEW v \in Snapshot, Past(v), UNCHANGED <<done, bg, stopper>>,
         NEW refused \in SUBSET ToClean(v), CleanUp(ToClean(v), refused),
         NEW o \in Orders, RowCalm(o)
  PROVE  RowCalm(o)' /\ (o \in Works' => o \in Works)
<1>1. o \in ToClean(v) => o \in done
  BY DEF ToClean, Past
<1>2. /\ o \in ToClean(v) \ refused => inst'[o] = IF HasRow(o) THEN "gone" ELSE inst[o]
      /\ o \in refused => HasRow(o) /\ inst'[o] = "stopped" /\ ord'[o] = ord[o]
      /\ o \notin ToClean(v) => inst'[o] = inst[o] /\ ord'[o] = ord[o]
      /\ ord'[o] \in {ord[o], "completed"}
  BY DEF CleanUp
<1> QED
  BY <1>1, <1>2 DEF RowCalm, HasRow, Works

\* Where the rows and tasks of an order stay, so does its calm.
LEMMA SameCalm ==
  ASSUME UNCHANGED <<data, stopper>>, NEW o \in Orders, RowCalm(o), bg'[o] \in {bg[o], "none"}
  PROVE  RowCalm(o)' /\ (o \in Works' => o \in Works)
  BY DEF RowCalm, Works, HasRow, data

\* Each order in a step that is not a claim.
LEMMA RowCalmStep ==
  ASSUME CleanInv, [Next]_vars, Calm, Calm', NEW o \in Orders, RowCalm(o)
  PROVE  /\ RowCalm(o)'
         /\ o \in Works' => o \in Works \/ \E k \in Keys : \E c \in SUBSET Claimable(adv[k]) :
                                            Claim(k, c) /\ o \in c
<1> DEFINE Goal == RowCalm(o)' /\ (o \in Works' => o \in Works)
<1>t. BenchType /\ RowOK /\ Views /\ StopInv
  BY DEF CleanInv, StopInv
<1>1. CASE UNCHANGED vars
  BY <1>1, SameCalm DEF vars
<1>2. ASSUME NEW p \in Orders, Outside(p) PROVE Goal
  BY <1>2, <1>t DEF Outside, Route, Report, StopInstance, DeleteInstance, RowCalm, Works, HasRow,
    BenchType, RowOK, Calm
<1>3. ASSUME NEW p \in Orders, Start(p) PROVE Goal
  <2>1. CASE BackgroundBegin(p)
    BY <2>1, <1>t DEF BackgroundBegin, data, RowCalm, Works, HasRow, BenchType
  <2>2. CASE BackgroundEnd(p)
    <3>1. /\ bg[p] = "working" /\ bg' = [bg EXCEPT ![p] = "none"] /\ UNCHANGED <<ord, done, stopper>>
          /\ \/ HasRow(p) /\ \E st \in {"running", "failed"} : inst' = [inst EXCEPT ![p] = st]
             \/ UNCHANGED inst
      BY <2>2 DEF BackgroundEnd
    <3>2. CASE UNCHANGED inst
      <4>1. UNCHANGED <<data, stopper>> /\ bg'[o] \in {bg[o], "none"}
        BY <1>t, <3>1, <3>2 DEF BenchType, data
      <4> QED
        BY <4>1, SameCalm
    <3>3. ASSUME HasRow(p), NEW st \in {"running", "failed"}, inst' = [inst EXCEPT ![p] = st] PROVE Goal
      BY <1>t, <3>1, <3>3 DEF RowCalm, Works, HasRow, BenchType
    <3> QED
      BY <3>1, <3>2, <3>3
  <2> QED
    BY <1>3, <2>1, <2>2 DEF Start
<1>4. ASSUME NEW a \in Advancers, Advance(a)
      PROVE  Goal \/ (RowCalm(o)' /\ a \in Keys /\ \E c \in SUBSET Claimable(adv[a]) : Claim(a, c)
                                       /\ (o \in Works' => o \in Works \/ o \in c))
  <2>1. a \in Keys /\ adv[a] \in Snapshot /\ View(adv[a]) /\ UNCHANGED <<done, stopper>>
    BY <1>4, <1>t, AdvanceForm DEF BenchType, Views, StopInv, Actors, Calm, Advancers
  <2>2. CASE Recover(a)
    <3>1. o \in Orphans(adv[a]) /\ bg[o] = "none" => inst[o] = "starting"
      BY <2>2 DEF Recover, Calm
    <3>2. bg'[o] # "none" => bg[o] # "none" \/ o \in Orphans(adv[a])
      BY <2>2 DEF Recover, Dispatch
    <3> QED
      BY <2>1, <2>2, <3>1, <3>2 DEF Recover, RowCalm, Works, HasRow, data
  <2>3. CASE CleanFirst(a)
    BY <2>1, <2>3, <1>t, CleanUpCalm DEF CleanFirst, View
  <2>4. CASE Finish(a)
    BY <2>1, <2>4, <1>t, SeenPast, FinishForm, CleanUpCalm DEF Finish
  <2>5. ASSUME NEW c \in SUBSET Claimable(adv[a]), Claim(a, c)
        PROVE  RowCalm(o)' /\ (o \in Works' => o \in Works \/ o \in c)
    <3>1. bg'[o] # "none" => bg[o] # "none" \/ o \in c
      BY <2>5 DEF Claim, Dispatch
    <3>2. /\ inst'[o] = IF o \in c THEN "starting" ELSE inst[o]
          /\ o \in c => HasRow(o)
          /\ ord' = ord
      BY <2>5 DEF Claim
    <3> QED
      BY <2>1, <3>1, <3>2 DEF RowCalm, Works, HasRow
  <2> QED
    BY <1>4, <2>1, <2>2, <2>3, <2>4, <2>5 DEF Advance
<1>5. ASSUME NEW p \in Orders, StopOrder(p) PROVE Goal
  <2>1. bg[p] = "none"
    BY <1>5 DEF StopOrder, Calm
  <2>2. stopper'.ord = stopper.ord /\ stopper.pc = "stop" /\ stopper.ord[p] \in OrderStatus
    BY <1>5, <1>t DEF StopOrder, BenchType, Stoppers
  <2> QED
    BY <1>5, <1>t, <2>1, <2>2 DEF StopOrder, RowCalm, Works, HasRow, BenchType
<1>6. CASE StopCancels
  <2>1. stopper'.ord = stopper.ord /\ stopper.pc = "starts"
    BY <1>6, <1>t DEF StopCancels, BenchType, Stoppers
  <2>2. stopper.ord[o] = "pending" => ~ HasRow(o)
    BY <1>6 DEF StopCancels, Calm
  <2> QED
    BY <1>6, <1>t, <2>1, <2>2 DEF StopCancels, RowCalm, Works, HasRow, BenchType
<1>7. ASSUME NEW k \in Keys, LoopTop(k) \/ AdvanceFails(k) \/ RunRequest(k) \/ RunRefused(k)
      PROVE  Goal
  BY <1>7, SameCalm DEF LoopTop, AdvanceFails, RunRequest, RunRefused
<1>8. CASE WatchRead \/ Restore \/ Restart \/ ManualRequest
  BY <1>8, SameCalm DEF WatchRead, Restore, Restart, ManualRequest
<1>9. CASE \/ Crash \/ StopRefused \/ StopDone \/ \E k \in Keys : Persist(k)
           \/ \E scope \in Scopes : StopRequest(scope)
  <2>1. UNCHANGED data /\ bg'[o] \in {bg[o], "none"}
    BY <1>9 DEF Persist, Crash, StopRequest, StopRefused, StopDone, data
  <2>2. \/ stopper'.pc = "off" \/ stopper'.ord[o] = "pending"
        \/ stopper'.ord = stopper.ord /\ stopper.pc # "off"
    <3>1. CASE \E k \in Keys : Persist(k)
      BY <3>1, <1>t DEF Persist, BenchType, Stoppers
    <3>2. CASE \E scope \in Scopes : StopRequest(scope)
      BY <3>2 DEF StopRequest, NoStop
    <3> QED
      BY <1>9, <3>1, <3>2 DEF Crash, StopRefused, StopDone, NoStop
  <2> QED
    BY <2>1, <2>2 DEF RowCalm, Works, HasRow, data
<1>10. CASE StopRead
  <2>1. UNCHANGED <<data, bg>> /\ stopper'.ord = ord
    BY <1>10, <1>t DEF StopRead, BenchType, Stoppers
  <2> QED
    BY <2>1, <1>t DEF RowCalm, Works, HasRow, data, RowOK
<1> QED
  BY <1>1, <1>2, <1>3, <1>4, <1>5, <1>6, <1>7, <1>8, <1>9, <1>10
  DEF Next, Environment, ControllerStep, StopStep, Outside, Advancers

\* A slot's part of the orders is finite, and what is in it counts.
LEMMA Fewer ==
  ASSUME NEW S \in SUBSET Orders, NEW T \in SUBSET S
  PROVE  Cardinality(S) <= Limit => Cardinality(T) <= Limit
<1>1. /\ IsFiniteSet(S) /\ Cardinality(T) <= Cardinality(S)
      /\ Cardinality(S) \in Nat /\ Cardinality(T) \in Nat
  BY OrdersAssumption, FS_Subset, FS_CardinalityType
<1> QED
  BY <1>1, LimitAssumption

\* The limit: it is kept where nothing is claimed, and a claim counts what is
\* occupied and what it claims.
LEMMA WithinStep ==
  ASSUME SlotInv, [Next]_vars, Calm, Calm'
  PROVE  Within'
<1> SUFFICES ASSUME NEW o \in Orders PROVE Cardinality(On(o)') <= Limit
  BY DEF Within, On
<1>t. /\ CleanInv /\ (\A p \in Orders : RowCalm(p)) /\ Counts /\ Within
      /\ BenchType
  BY DEF SlotInv, CleanInv, StopInv
<1>1. On(o) \subseteq Orders /\ On(o)' \subseteq Orders /\ Works \subseteq Orders
  BY DEF On, Works
<1>2. CASE Works' \subseteq Works
  <2>1. On(o)' \subseteq On(o)
    BY <1>2 DEF On
  <2> QED
    BY <1>1, <1>t, <2>1, Fewer DEF Within
<1>3. CASE ~ Works' \subseteq Works
  <2>0. PICK k \in Keys : \E c \in SUBSET Claimable(adv[k]) : Claim(k, c)
    <3>1. PICK p \in Orders : p \in Works' /\ p \notin Works
      BY <1>3 DEF Works
    <3> QED
      BY <1>t, <3>1, RowCalmStep
  <2>1. PICK c \in SUBSET Claimable(adv[k]) : Claim(k, c)
    BY <2>0
  <2>2. Works \subseteq Occupied(adv[k]) /\ Fits(k, c)
    BY <1>t, <2>1 DEF Claim, Counts
  <2>3. Works' \subseteq Works \cup c
    BY <2>1 DEF Claim, Works, data
  <2>4. CASE \E q \in c : Slot[q] = Slot[o]
    <3>1. PICK q \in c : Slot[q] = Slot[o]
      BY <2>4
    <3> DEFINE S == {p \in c \cup Occupied(adv[k]) : Slot[p] = Slot[q]}
    <3>2. S \subseteq Orders /\ Cardinality(S) <= Limit
      BY <2>2 DEF Fits, Claimable, Occupied, Current
    <3>3. On(o)' \subseteq S
      BY <2>2, <2>3, <3>1 DEF On
    <3> HIDE DEF S
    <3> QED
      BY <3>2, <3>3, Fewer
  <2>5. CASE ~ \E q \in c : Slot[q] = Slot[o]
    <3>1. On(o)' \subseteq On(o)
      BY <2>3, <2>5 DEF On
    <3> QED
      BY <1>1, <1>t, <3>1, Fewer DEF Within
  <2> QED
    BY <2>4, <2>5
<1> QED
  BY <1>2, <1>3

\* The count: read when it is exact, and kept while nothing else is claimed.
LEMMA CountsStep ==
  ASSUME SlotInv, [Next]_vars, Calm, Calm'
  PROVE  Counts'
<1> SUFFICES ASSUME NEW k \in Keys, adv'[k].pc \in {"recover", "clean", "claim"}
             PROVE  Works' \subseteq Occupied(adv'[k])
  BY DEF Counts
<1>t. /\ CleanInv /\ StopInv /\ (\A p \in Orders : RowCalm(p)) /\ Counts
      /\ BenchType /\ k \in Advancers
  BY DEF SlotInv, CleanInv, StopInv, Advancers
<1>s. ASSUME \A q \in Keys : \A c \in SUBSET Claimable(adv[q]) : ~ Claim(q, c)
      PROVE  Works' \subseteq Works
  <2>1. \A p \in Orders : p \in Works' => p \in Works
    BY <1>s, <1>t, RowCalmStep
  <2> QED
    BY <2>1 DEF Works
<1>c. ASSUME NEW c \in SUBSET Claimable(adv[k]), Claim(k, c) PROVE FALSE
  <2>1. adv'[k].pc = "final"
    BY <1>c, <1>t DEF Claim, AfterClaim, BenchType, Snapshot
  <2> QED
    BY <2>1
<1>o. ASSUME adv[k].pc # "off" \/ loop[k].pc = "top",
             NEW q \in Keys, NEW c \in SUBSET Claimable(adv[q]), Claim(q, c)
      PROVE  FALSE
  <2>1. Running(k) /\ Running(q)
    BY <1>o, <1>t DEF Claim, StopInv, Actors, Running
  <2>2. q = k
    BY <1>t, <2>1 DEF StopInv, Actors, Calm
  <2> QED
    BY <1>c, <1>o, <2>2
<1>w. ASSUME adv[k].pc # "off" \/ loop[k].pc = "top" PROVE Works' \subseteq Works
  BY <1>o, <1>s, <1>w
<1>1. CASE adv'[k] = adv[k]
  BY <1>1, <1>w, <1>t DEF Counts
<1>4. ASSUME NEW o \in Orders, BackgroundEnd(o) PROVE Works' \subseteq Occupied(adv'[k])
  <2>1. /\ adv'[k].pc = adv[k].pc /\ adv'[k].ord = adv[k].ord /\ adv'[k].inst = adv[k].inst
        /\ adv'[k].done = adv[k].done
    BY <1>4, <1>t, BackgroundForm DEF Start
  <2>2. Occupied(adv'[k]) = Occupied(adv[k])
    BY <2>1 DEF Occupied, Current
  <2> QED
    BY <1>t, <1>w, <2>1, <2>2 DEF Counts
<1>2. CASE Read(k) /\ UNCHANGED <<data, bg>>
  <2>1. \A p \in Orders : HasRow(p) => ord[p] = "materialized"
    BY <1>t DEF RowCalm
  <2>2. /\ adv'[k].ord = ord /\ adv'[k].inst = inst /\ adv'[k].done = done
    BY <1>2, <1>t, ReadForm
  <2> QED
    BY <1>2, <2>1, <2>2 DEF Works, Occupied, Current, HasRow, data
<1>3. CASE Advance(k)
  <2>0. adv[k].pc # "off"
    BY <1>3, <1>t, AdvanceForm
  <2>1. Works' \subseteq Works
    BY <1>w, <2>0
  <2>2. CASE Recover(k)
    <3>1. Occupied(adv'[k]) = Occupied(adv[k]) /\ adv[k].pc = "recover"
      BY <2>2, <1>t, RecoverForm DEF Occupied, Current
    <3> QED
      BY <1>t, <2>1, <3>1 DEF Counts
  <2>3. CASE CleanFirst(k)
    <3>1. PICK refused \in SUBSET ToClean(adv[k]) :
            adv' = [adv EXCEPT ![k] =
                 [AfterCleaning(adv[k], ToClean(adv[k]), refused) EXCEPT !.pc = "claim"]]
      BY <2>3 DEF CleanFirst
    <3> DEFINE w == AfterCleaning(adv[k], ToClean(adv[k]), refused)
    <3>2. w \in Snapshot
      BY <1>t, CleaningType DEF ToClean, Current, BenchType
    <3>3. adv'[k].ord = w.ord /\ adv'[k].inst = w.inst /\ adv'[k].done = w.done
      BY <1>t, <3>1, <3>2 DEF Snapshot, BenchType
    <3>4. /\ w.done = adv[k].done
          /\ \A p \in Orders : p \notin ToClean(adv[k]) =>
               w.ord[p] = adv[k].ord[p] /\ w.inst[p] = adv[k].inst[p]
      BY <1>t DEF AfterCleaning, Snapshot, BenchType
    <3>5. \A p \in ToClean(adv[k]) : p \in adv[k].done
      BY DEF ToClean
    <3> HIDE DEF w
    <3>6. Occupied(adv[k]) \subseteq Occupied(adv'[k])
      BY <3>3, <3>4, <3>5 DEF Occupied, Current
    <3> QED
      BY <1>t, <2>1, <2>3, <3>6 DEF Counts, CleanFirst
  <2>4. CASE Finish(k)
    BY <2>4, <1>t DEF Finish, NoAdvance, BenchType
  <2> QED
    BY <1>3, <1>c, <2>2, <2>3, <2>4 DEF Advance
<1> QED
  BY <1>t, <1>1, <1>2, <1>3, <1>4, KeyMoves

\* Every step keeps the limit and what it rests on.
LEMMA SlotStep == SlotInv /\ [Next]_vars => SlotInv'
<1> SUFFICES ASSUME SlotInv, [Next]_vars PROVE SlotInv'
  OBVIOUS
<1>1. CleanInv' /\ (Calm' => Calm) /\ CleanInv
  BY CleanStep, CalmBefore DEF SlotInv, CleanInv, StopInv
<1>2. ASSUME Calm' PROVE \A o \in Orders : RowCalm(o)'
  BY <1>1, <1>2, RowCalmStep DEF SlotInv
<1>3. ASSUME Calm' PROVE Counts' /\ Within'
  BY <1>1, <1>3, CountsStep, WithinStep
<1> QED
  BY <1>1, <1>2, <1>3 DEF SlotInv

\* At the start nothing is busy.
LEMMA SlotInit == Init => SlotInv
<1> SUFFICES ASSUME Init PROVE SlotInv
  OBVIOUS
<1>1. \A o \in Orders : On(o) = {}
  BY DEF Init, On, Works
<1>2. Within
  BY <1>1, FS_EmptySet, LimitAssumption DEF Within
<1>3. Counts /\ \A o \in Orders : RowCalm(o)
  BY DEF Init, Counts, RowCalm, HasRow, NoAdvance, NoStop, Advancers, Keys
<1> QED
  BY <1>2, <1>3, CleanInit DEF SlotInv

\* A compute slot never has more unevaluated instances of the run than the limit,
\* for any number of orders, slots and rounds and any limit, as long as one controller
\* has the run to itself: it never counts less than there is.
THEOREM SlotsWithinLimit == Spec => []SlotLimit
<1>1. SlotInv => SlotLimit
  <2> SUFFICES ASSUME SlotInv, Calm, NEW o \in Orders
               PROVE  Cardinality({p \in Orders \ done :
                         Slot[p] = Slot[o] /\ inst[p] \in {"starting", "running"}}) <= Limit
    BY DEF SlotLimit, Calm
  <2>1. On(o) = {p \in Orders \ done : Slot[p] = Slot[o] /\ inst[p] \in {"starting", "running"}}
    BY DEF On, Works
  <2> QED
    BY <2>1 DEF SlotInv, Within
<1> QED
  BY <1>1, SlotInit, SlotStep, PTL DEF Spec
=============================================================================
