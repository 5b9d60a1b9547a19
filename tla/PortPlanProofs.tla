------------------------------ MODULE PortPlanProofs ------------------------------
(* Proofs about PortPlan, for every number of instances, callers and starts, *)
(* every range of ports and every set of faults.                             *)
EXTENDS PortPlan, WellFoundedInduction, TLAPS

-----------------------------------------------------------------------------
(* Types.  A call is a record whose fields depend on what it does.           *)

Row == [status : {"none", "pending", "starting", "running", "stopped", "failed", "gone"},
        named : BOOLEAN]
Rows == [Instances -> Row]

Creating == [op : {"create"}, inst : Instances, port : Nat, avoids : SUBSET Instances]
Asking == [op : {"ask", "inspect", "remove"}, inst : Instances, target : Nat, own : BOOLEAN,
           seen : Rows, doomed : SUBSET Instances, removed : BOOLEAN]
Recording == [op : {"records", "stale"}, inst : Instances, ok : BOOLEAN, seen : Rows,
              left : SUBSET Instances, stale : Instances, unseen : SUBSET Instances]
Starting == [op : {"calling"}, inst : Instances, unseen : SUBSET Instances]
Flushing == [op : {"flushed"}, inst : Instances]
Sweeping == [op : {"sweep"}, inst : {Nobody}, doomed : SUBSET Instances]
Call == {Idle} \cup Creating \cup Asking \cup Recording \cup Starting \cup Flushing \cup Sweeping

TypeOK ==
  /\ row \in Rows
  /\ port \in [Instances -> Nat]
  /\ container \in [Instances -> {"absent", "exited", "running"}]
  /\ call \in [Callers -> Call]

-----------------------------------------------------------------------------
(* The invariant.  What a call has found out stays true because the port of  *)
(* an instance does not change under it once the instance is known: it is    *)
(* known when its row is there, and stays so when the row is gone.  r and p  *)
(* are the rows and ports.                                                   *)

Known(i, r) == r[i].status # "none"

Apart(i, unknown, r, p) ==
  \A j \in Instances \ unknown : Known(j, r) /\ (j = i \/ p[j] # p[i])

\* What a preflight has cleared so far: whoever it notices has another port, or is
\* a claim it will come upon.
Cleared(c, r, p) ==
  \A j \in Instances \ c.unseen :
    /\ Known(j, r)
    /\ \/ j = c.inst \/ p[j] # p[c.inst]
       \/ j \in c.left /\ c.seen[j].named = FALSE

CallOK(c, r, p) ==
  /\ c \in Creating => \A j \in c.avoids : Known(j, r) /\ p[j] # c.port
  /\ c \in Asking \cup Recording =>
       Known(c.inst, r) /\ \A j \in Instances : Known(j, c.seen) => Known(j, r)
  /\ c \in Recording /\ c.ok = TRUE => Cleared(c, r, p)
  /\ c \in Starting => Known(c.inst, r) /\ Apart(c.inst, c.unseen, r, p)
  /\ c \in Flushing => Known(c.inst, r)

\* Nobody else creates what a creation is about to store.
Alone(h) ==
  call[h] \in Creating =>
    /\ ~ Known(call[h].inst, row)
    /\ \A g \in Callers : call[g] \in Creating /\ call[g].inst = call[h].inst => g = h

CallsOK == \A h \in Callers : CallOK(call[h], row, port) /\ Alone(h)

Avoids(i) == \A j \in avoided[i] : Known(i, row) /\ Known(j, row) /\ port[j] # port[i]
Started(i) == unseen[i] = Instances \/ (Known(i, row) /\ Apart(i, unseen[i], row, port))
HistoryOK ==
  /\ avoided \in [Instances -> SUBSET Instances]
  /\ unseen \in [Instances -> SUBSET Instances]
  /\ \A i \in Instances : Avoids(i) /\ Started(i)

Backed == \A i \in Instances : container[i] # "absent" => Known(i, row)

PortInv == TypeOK /\ CallsOK /\ HistoryOK /\ Backed

-----------------------------------------------------------------------------
\* The lowest of some ports is one of them.
LEMMA LowestIn ==
  ASSUME NEW S \in SUBSET Nat, S # {}
  PROVE  Lowest(S) \in S
<1>1. PICK x \in S : \A y \in S : ~ (<<y, x>> \in OpToRel(<, Nat))
  BY NatLessThanWellFounded, WFMin
<1>2. ASSUME NEW y \in S, y < x PROVE FALSE
  <2>1. <<y, x>> \in Nat \X Nat /\ <<y, x>>[1] < <<y, x>>[2]
    BY <1>2
  <2> QED
    BY <1>1, <2>1 DEF OpToRel
<1>3. \A y \in S : x <= y
  BY <1>2
<1> QED
  BY <1>3 DEF Lowest

\* The kinds of calls are told apart by what they do.
LEMMA Kinds ==
  ASSUME NEW c \in Call
  PROVE  /\ c.op = "create" <=> c \in Creating
         /\ c.op \in {"ask", "inspect", "remove"} <=> c \in Asking
         /\ c.op \in {"records", "stale"} <=> c \in Recording
         /\ c.op = "calling" <=> c \in Starting
         /\ c.op = "flushed" <=> c \in Flushing
         /\ c.op = "sweep" <=> c \in Sweeping
  BY DEF Call, Idle, Creating, Asking, Recording, Starting, Flushing, Sweeping

\* What is known stays known, with its port.
Steady == \A i \in Instances : Known(i, row) => Known(i, row') /\ port'[i] = port[i]

\* What a call has found out is still so after a step of somebody else.
LEMMA StillOK ==
  ASSUME TypeOK, Steady, NEW c \in Call, CallOK(c, row, port)
  PROVE  CallOK(c, row', port')
<1>1. CASE c \in Creating
  BY <1>1, Kinds DEF CallOK, Steady, Creating
<1>2. CASE c \in Asking
  BY <1>2, Kinds DEF CallOK, Steady, Asking
<1>3. CASE c \in Recording
  BY <1>3, Kinds DEF CallOK, Steady, Recording, Cleared
<1>4. CASE c \in Starting
  BY <1>4, Kinds DEF CallOK, Steady, Starting, Apart
<1>5. CASE c \in Flushing
  BY <1>5, Kinds DEF CallOK, Steady, Flushing
<1> QED
  BY <1>1, <1>2, <1>3, <1>4, <1>5 DEF CallOK

\* A step of h that turns its call into something other than a creation, and makes
\* at most the instance known that h was creating.
LEMMA Moves ==
  ASSUME PortInv, Steady, NEW h \in Callers, NEW next \in Call, next \notin Creating,
         call' = [call EXCEPT ![h] = next], CallOK(next, row', port'),
         \A i \in Instances : Known(i, row') =>
           Known(i, row) \/ (call[h] \in Creating /\ i = call[h].inst)
  PROVE  call' \in [Callers -> Call] /\ CallsOK'
<1>1. call' \in [Callers -> Call]
  BY DEF PortInv, TypeOK
<1>2. ASSUME NEW g \in Callers PROVE CallOK(call'[g], row', port')
  <2>1. CASE g = h
    BY <2>1 DEF PortInv, TypeOK
  <2>2. CASE g # h
    BY <2>2, StillOK DEF PortInv, TypeOK, CallsOK
  <2> QED
    BY <2>1, <2>2
<1>3. ASSUME NEW g \in Callers PROVE Alone(g)'
  <2>1. SUFFICES ASSUME call'[g] \in Creating
                 PROVE  /\ ~ Known(call'[g].inst, row')
                        /\ \A f \in Callers : call'[f] \in Creating /\ call'[f].inst = call'[g].inst => f = g
    BY DEF Alone
  <2>2. g # h /\ call'[g] = call[g]
    BY <2>1 DEF PortInv, TypeOK
  <2>3. Alone(g) /\ Alone(h)
    BY DEF PortInv, CallsOK
  <2>4. call[g].inst \in Instances
    BY <2>1, <2>2 DEF Creating
  <2>5. ~ Known(call'[g].inst, row')
    BY <2>1, <2>2, <2>3, <2>4 DEF Alone
  <2>6. ASSUME NEW f \in Callers, call'[f] \in Creating, call'[f].inst = call'[g].inst PROVE f = g
    <3>1. f # h /\ call'[f] = call[f]
      BY <2>6 DEF PortInv, TypeOK
    <3> QED
      BY <2>1, <2>2, <2>3, <2>6, <3>1 DEF Alone
  <2> QED
    BY <2>5, <2>6
<1> QED
  BY <1>1, <1>2, <1>3 DEF CallsOK

\* A step of nobody's.
LEMMA Rests ==
  ASSUME PortInv, Steady, UNCHANGED call,
         \A i \in Instances : Known(i, row') => Known(i, row)
  PROVE  call' \in [Callers -> Call] /\ CallsOK'
<1>1. ASSUME NEW g \in Callers PROVE CallOK(call'[g], row', port')
  BY StillOK DEF PortInv, TypeOK, CallsOK
<1>2. ASSUME NEW g \in Callers PROVE Alone(g)'
  <2>1. call[g] \in Creating => call[g].inst \in Instances
    BY DEF Creating
  <2> QED
    BY <2>1 DEF PortInv, CallsOK, Alone
<1> QED
  BY <1>1, <1>2 DEF CallsOK, PortInv, TypeOK

\* Starts that know of their neighbours, or of none, leave the histories right.
LEMMA HistoryKept ==
  ASSUME PortInv, Steady, UNCHANGED avoided, unseen' \in [Instances -> SUBSET Instances],
         \A i \in Instances :
           unseen'[i] = unseen[i] \/ (Known(i, row') /\ Apart(i, unseen'[i], row', port'))
  PROVE  HistoryOK'
<1>1. ASSUME NEW i \in Instances PROVE Avoids(i)' /\ Started(i)'
  <2>1. Avoids(i) /\ avoided[i] \subseteq Instances
    BY DEF PortInv, HistoryOK
  <2>2. Avoids(i)'
    BY <2>1 DEF Avoids, Steady
  <2>3. Started(i)
    BY DEF PortInv, HistoryOK
  <2>4. Started(i)'
    BY <2>3 DEF Started, Steady, Apart
  <2> QED
    BY <2>2, <2>4
<1> QED
  BY <1>1 DEF HistoryOK, PortInv

-----------------------------------------------------------------------------
(* Steps that leave ports and histories alone.                               *)

Machine == container' \in [Instances -> {"absent", "exited", "running"}]
Rest == UNCHANGED <<port, history>>

\* Rows change, but which instances are known does not, and containers belong to
\* known ones.
Settled ==
  /\ Rest
  /\ row' \in Rows
  /\ \A i \in Instances : Known(i, row') <=> Known(i, row)
  /\ Machine
  /\ \A i \in Instances : container'[i] # "absent" => Known(i, row)

\* Such a step keeps the invariant, if it fits the call it is made by.
LEMMA SettledMoves ==
  ASSUME PortInv, Settled, NEW h \in Callers, NEW next \in Call, next \notin Creating,
         call' = [call EXCEPT ![h] = next], CallOK(next, row', port')
  PROVE  PortInv'
<1>1. Steady
  BY DEF Settled, Rest, Steady, history
<1>k. \A i \in Instances :
        Known(i, row') => Known(i, row) \/ (call[h] \in Creating /\ i = call[h].inst)
  BY DEF Settled
<1>2. call' \in [Callers -> Call] /\ CallsOK'
  BY <1>1, <1>k, Moves
<1>h. unseen' = unseen /\ avoided' = avoided
  BY DEF Settled, Rest, history
<1>u. unseen \in [Instances -> SUBSET Instances]
  BY DEF PortInv, HistoryOK
<1>3. HistoryOK'
  BY <1>1, <1>h, <1>u, HistoryKept
<1>4. TypeOK' /\ Backed'
  BY <1>2 DEF Settled, Rest, TypeOK, Backed, PortInv, Machine
<1> QED
  BY <1>2, <1>3, <1>4 DEF PortInv

\* And so does one of nobody's.
LEMMA SettledRests ==
  ASSUME PortInv, Settled, UNCHANGED call
  PROVE  PortInv'
<1>1. Steady
  BY DEF Settled, Rest, Steady, history
<1>2. call' \in [Callers -> Call] /\ CallsOK'
  BY <1>1, Rests DEF Settled
<1>h. unseen' = unseen /\ avoided' = avoided
  BY DEF Settled, Rest, history
<1>u. unseen \in [Instances -> SUBSET Instances]
  BY DEF PortInv, HistoryOK
<1>3. HistoryOK'
  BY <1>1, <1>h, <1>u, HistoryKept
<1>4. TypeOK' /\ Backed'
  BY <1>2 DEF Settled, Rest, TypeOK, Backed, PortInv, Machine
<1> QED
  BY <1>2, <1>3, <1>4 DEF PortInv

\* Nothing but calls and containers changes, and no container appears.
LEMMA Shrinks ==
  ASSUME PortInv, Rest, UNCHANGED row, Machine,
         \A i \in Instances : container'[i] # "absent" => container[i] # "absent"
  PROVE  Settled
  BY DEF PortInv, TypeOK, Backed, Settled

\* What a commit says about an instance.
LEMMA RecordedOK ==
  ASSUME PortInv, NEW i \in Instances, NEW status \in {"pending", "starting", "running", "stopped", "failed"},
         NEW named \in BOOLEAN, Recorded(i, status, named)
  PROVE  row' \in Rows /\ \A j \in Instances : Known(j, row') <=> Known(j, row)
  BY DEF PortInv, TypeOK, Recorded, Exists, Rows, Row, Known

-----------------------------------------------------------------------------
(* The preflight.                                                            *)

\* What has been asked fits what is recorded next.
LEMMA RecordsFit ==
  ASSUME PortInv, NEW c \in Asking, CallOK(c, row, port), NEW ok \in BOOLEAN,
         NEW shown \in SUBSET Present,
         ok = TRUE => \A i \in shown \cup Up : port[i] = c.target => i = c.inst,
         NEW next,
         next = [op |-> "records", inst |-> c.inst, ok |-> ok, seen |-> c.seen,
                 left |-> Conflicting(c), stale |-> c.inst,
                 unseen |-> Instances \ Noticed(c, shown)]
  PROVE  next \in Recording /\ CallOK(next, row, port)
<1>1. next \in Recording
  BY DEF Recording, Asking, Conflicting
<1>2. next \notin Creating /\ next \notin Starting /\ next \notin Flushing
  BY <1>1 DEF Recording, Creating, Starting, Flushing
<1>3. Known(next.inst, row) /\ \A j \in Instances : Known(j, next.seen) => Known(j, row)
  BY DEF CallOK
<1>4. ASSUME ok = TRUE PROVE Cleared(next, row, port)
  <2>1. SUFFICES ASSUME NEW j \in Instances \ next.unseen
                 PROVE  /\ Known(j, row)
                        /\ \/ j = next.inst \/ port[j] # port[next.inst]
                           \/ j \in next.left /\ next.seen[j].named = FALSE
    BY DEF Cleared
  <2>2. c.target = port[c.inst] /\ j \in Noticed(c, shown)
    BY DEF Noticed
  <2>3. CASE j \in shown \cup Up
    BY <1>4, <2>2, <2>3 DEF PortInv, Backed, Present, Up
  <2>4. CASE c.seen[j].status = "starting" /\ ~ c.seen[j].named
    <3>1. Known(j, row)
      BY <2>4 DEF CallOK, Known
    <3>2. c.seen[j].named = FALSE
      BY <2>4 DEF Asking, Rows, Row
    <3>3. port[j] = port[c.inst] /\ j # c.inst => j \in Conflicting(c)
      BY <2>2, <2>4 DEF Conflicting
    <3> QED
      BY <3>1, <3>2, <3>3
  <2> QED
    BY <2>2, <2>3, <2>4 DEF Noticed
<1> QED
  BY <1>1, <1>2, <1>3, <1>4 DEF CallOK

\* A check that begins knows its instance.
LEMMA CheckBegins ==
  ASSUME NEW r \in Rows, NEW p, NEW i \in Instances, Known(i, r), NEW target \in Nat
  PROVE  /\ Checking(i, target, r) \in Asking
         /\ Checking(i, target, r) \in Call \ Creating
         /\ CallOK(Checking(i, target, r), r, p)
<1> DEFINE c == Checking(i, target, r)
<1>1. c \in Asking
  BY DEF Checking, Asking, Rows, Row
<1>2. c \notin Creating /\ c \notin Recording /\ c \notin Starting /\ c \notin Flushing
  BY DEF Checking, Creating, Recording, Starting, Flushing
<1>3. c.inst = i /\ c.seen = r
  BY DEF Checking
<1> QED
  BY <1>1, <1>2, <1>3 DEF CallOK, Call

\* A step that changes calls only.
LEMMA OnlyCalls ==
  ASSUME PortInv, UNCHANGED <<row, port, container, history>>,
         NEW h \in Callers, NEW next \in Call, next \notin Creating,
         call' = [call EXCEPT ![h] = next], CallOK(next, row, port)
  PROVE  PortInv'
<1>1. Settled
  BY DEF PortInv, TypeOK, Backed, Settled, Rest, Machine
<1>2. CallOK(next, row', port')
  OBVIOUS
<1> QED
  BY <1>1, <1>2, SettledMoves

\* A preflight begins with what the rows say.
LEMMA StartReadsOK ==
  ASSUME PortInv, NEW h \in Callers, NEW i \in Instances, StartReads(h, i)
  PROVE  PortInv'
<1>1. row \in Rows /\ port[i] \in Nat /\ Known(i, row)
  BY DEF PortInv, TypeOK, StartReads, Startable, Known
<1>2. call' = [call EXCEPT ![h] = Checking(i, port[i], row)]
  BY DEF StartReads, Becomes
<1>3. UNCHANGED <<row, port, container, history>>
  BY DEF StartReads
<1> QED
  BY <1>1, <1>2, <1>3, CheckBegins, OnlyCalls

\* The agent is asked; its answer is recorded, looked into, or not there.
LEMMA AskOK ==
  ASSUME PortInv, NEW h \in Callers, Ask(h) \/ Inspect(h) \/ AskFails(h)
  PROVE  PortInv'
<1> DEFINE c == call[h]
<1>1. c \in Asking /\ CallOK(c, row, port) /\ c \in Call
  BY Kinds DEF PortInv, TypeOK, CallsOK, Ask, Inspect, AskFails
<1>2. UNCHANGED <<row, port, container, history>>
  BY DEF Ask, Inspect, AskFails
<1>3. ASSUME NEW shown \in SUBSET Present, NEW ok \in BOOLEAN, ToRecords(h, shown, ok),
             ok = TRUE => \A i \in shown \cup Up : port[i] = c.target => i = c.inst
      PROVE  PortInv'
  <2> DEFINE next == [op |-> "records", inst |-> c.inst, ok |-> ok, seen |-> c.seen,
                      left |-> Conflicting(c), stale |-> c.inst,
                      unseen |-> Instances \ Noticed(c, shown)]
  <2>1. next \in Recording /\ CallOK(next, row, port)
    BY <1>1, <1>3, RecordsFit
  <2>2. next \in Call /\ next \notin Creating
    BY <2>1, Kinds DEF Call
  <2>3. call' = [call EXCEPT ![h] = next]
    BY <1>3 DEF ToRecords, Becomes
  <2> QED
    BY <1>2, <2>1, <2>2, <2>3, OnlyCalls
<1>4. ASSUME NEW next \in Asking, Becomes(h, next), next.inst = c.inst, next.seen = c.seen
      PROVE  PortInv'
  <2>1. next \in Call /\ next \notin Creating /\ next \notin Recording /\ next \notin Starting /\ next \notin Flushing
    BY Kinds DEF Call
  <2>2. CallOK(next, row, port)
    BY <1>1, <1>4, <2>1 DEF CallOK
  <2> QED
    BY <1>2, <1>4, <2>1, <2>2, OnlyCalls DEF Becomes
<1>5. CASE Ask(h)
  <2>s. PICK shown \in SUBSET Present :
          LET owners == Declared(shown, c.target, IF c.own THEN {c.inst} ELSE {})
              orphans == {j \in owners : ~ c.seen[j].named}
          IN  \/ owners = {} /\ c.target \notin Listening /\ ToRecords(h, shown, TRUE)
              \/ ToRecords(h, shown, FALSE)
              \/ Becomes(h, [c EXCEPT !.op = "inspect", !.doomed = orphans])
    BY <1>5 DEF Ask, Shown
  <2> DEFINE own == IF c.own THEN {c.inst} ELSE {}
             owners == Declared(shown, c.target, own)
             orphans == {j \in owners : ~ c.seen[j].named}
             inspecting == [c EXCEPT !.op = "inspect", !.doomed = orphans]
  <2>1. CASE owners = {} /\ c.target \notin Listening /\ ToRecords(h, shown, TRUE)
    <3>1. \A i \in shown \cup Up : port[i] = c.target => i = c.inst
      BY <2>1 DEF Declared, Listening
    <3> QED
      BY <1>3, <2>1, <3>1
  <2>2. CASE ToRecords(h, shown, FALSE)
    BY <1>3, <2>2
  <2>3. CASE Becomes(h, inspecting)
    <3>1. orphans \subseteq Instances
      BY DEF Declared, Present
    <3>2. inspecting \in Asking /\ inspecting.inst = c.inst /\ inspecting.seen = c.seen
      BY <1>1, <3>1 DEF Asking
    <3> QED
      BY <1>4, <2>3, <3>2
  <2> QED
    BY <2>s, <2>1, <2>2, <2>3
<1>6. CASE Inspect(h)
  <2> DEFINE stopped == {j \in c.doomed : container[j] = "exited"}
             removing == [c EXCEPT !.op = "remove", !.doomed = stopped]
  <2>1. removing \in Asking /\ removing.inst = c.inst /\ removing.seen = c.seen
    BY <1>1 DEF Asking
  <2>2. ToRecords(h, Present, FALSE) \/ Becomes(h, removing)
    BY <1>6 DEF Inspect
  <2> QED
    BY <1>3, <1>4, <2>1, <2>2
<1>7. CASE AskFails(h)
  BY <1>3, <1>7 DEF AskFails
<1> QED
  BY <1>5, <1>6, <1>7

\* Orphans go one by one; only containers disappear.
LEMMA RemoveOrphanOK ==
  ASSUME PortInv, NEW h \in Callers, RemoveOrphan(h)
  PROVE  PortInv'
<1>1. call[h] \in Asking /\ CallOK(call[h], row, port)
  BY Kinds DEF PortInv, TypeOK, CallsOK, RemoveOrphan
<1>2. PICK j \in call[h].doomed, ok \in {TRUE, FALSE} :
        LET c == [call[h] EXCEPT !.doomed = @ \ {j}, !.removed = @ \/ ok]
        IN  /\ (ok /\ Removed(j)) \/ Stays
            /\ IF c.doomed # {} THEN Becomes(h, c)
               ELSE IF c.removed THEN Becomes(h, [c EXCEPT !.op = "ask"])
               ELSE ToRecords(h, Present, FALSE)
  BY DEF RemoveOrphan
<1> DEFINE c == [call[h] EXCEPT !.doomed = @ \ {j}, !.removed = @ \/ ok]
           asking == [c EXCEPT !.op = "ask"]
           recording == [op |-> "records", inst |-> call[h].inst, ok |-> FALSE, seen |-> call[h].seen,
                         left |-> Conflicting(call[h]), stale |-> call[h].inst,
                         unseen |-> Instances \ Noticed(call[h], Present)]
<1>3. Settled
  <2>1. UNCHANGED row /\ Rest
    BY DEF RemoveOrphan, Rest
  <2>2. j \in Instances
    BY <1>1 DEF Asking
  <2>3. Machine /\ \A i \in Instances : container'[i] # "absent" => container[i] # "absent"
    BY <1>2, <2>2 DEF Machine, PortInv, TypeOK, Removed, Stays
  <2> QED
    BY <2>1, <2>3, Shrinks
<1>4. ASSUME NEW next \in Asking, next.inst = call[h].inst, next.seen = call[h].seen,
             Becomes(h, next)
      PROVE  PortInv'
  <2>1. next \in Call /\ next \notin Creating /\ next \notin Recording /\ next \notin Starting /\ next \notin Flushing
    BY Kinds DEF Call
  <2>2. CallOK(next, row, port) /\ UNCHANGED row /\ UNCHANGED port
    BY <1>1, <1>4, <2>1 DEF CallOK, RemoveOrphan
  <2> QED
    BY <1>3, <1>4, <2>1, <2>2, SettledMoves DEF Becomes
<1>5. ASSUME Becomes(h, recording)
      PROVE  PortInv'
  <2>1. recording \in Recording /\ CallOK(recording, row, port)
    BY <1>1, RecordsFit
  <2>2. recording \in Call /\ recording \notin Creating
    BY <2>1, Kinds DEF Call
  <2>3. UNCHANGED row /\ UNCHANGED port
    BY DEF RemoveOrphan
  <2> QED
    BY <1>3, <1>5, <2>1, <2>2, <2>3, SettledMoves DEF Becomes
<1>6. c \in Asking /\ c.inst = call[h].inst /\ c.seen = call[h].seen
  BY <1>1 DEF Asking
<1>7. asking \in Asking /\ asking.inst = call[h].inst /\ asking.seen = call[h].seen
  BY <1>6 DEF Asking
<1>8. Becomes(h, c) \/ Becomes(h, asking) \/ Becomes(h, recording)
  BY <1>2 DEF ToRecords
<1> QED
  BY <1>4, <1>5, <1>6, <1>7, <1>8

\* Claims are come upon one by one; a claim that is taken for stale had a container.
LEMMA RecordOK ==
  ASSUME PortInv, NEW h \in Callers, Record(h)
  PROVE  PortInv'
<1> DEFINE c == call[h]
<1>1. c \in Recording /\ CallOK(c, row, port)
  BY Kinds DEF PortInv, TypeOK, CallsOK, Record
<1>2. UNCHANGED <<row, port, container, history>>
  BY DEF Record
<1>3. PICK j \in c.left :
        LET cc == [c EXCEPT !.left = @ \ {j}]
            named == cc.seen[j].named
        IN  \/ Becomes(h, [cc EXCEPT !.ok = FALSE])
            \/ /\ named
               /\ Becomes(h, [cc EXCEPT !.op = "stale", !.stale = j])
  BY DEF Record
<1> DEFINE taken == [[c EXCEPT !.left = @ \ {j}] EXCEPT !.ok = FALSE]
           stale == [[c EXCEPT !.left = @ \ {j}] EXCEPT !.op = "stale", !.stale = j]
<1>4. j \in Instances
  BY <1>1 DEF Recording
<1>5. CASE Becomes(h, taken)
  <2>1. taken \in Recording /\ taken.ok = FALSE /\ taken.inst = c.inst /\ taken.seen = c.seen
    BY <1>1 DEF Recording
  <2>2. taken \in Call /\ taken \notin Creating /\ taken \notin Starting /\ taken \notin Flushing
    BY <2>1, Kinds DEF Call
  <2>3. CallOK(taken, row, port)
    BY <1>1, <2>1, <2>2 DEF CallOK
  <2> QED
    BY <1>2, <1>5, <2>2, <2>3, OnlyCalls DEF Becomes
<1>6. CASE c.seen[j].named /\ Becomes(h, stale)
  <2>1. /\ stale \in Recording /\ stale.ok = c.ok /\ stale.inst = c.inst /\ stale.seen = c.seen
        /\ stale.unseen = c.unseen /\ stale.left = c.left \ {j}
    BY <1>1, <1>4 DEF Recording
  <2>2. stale \in Call /\ stale \notin Creating /\ stale \notin Starting /\ stale \notin Flushing
    BY <2>1, Kinds DEF Call
  <2>3. c.seen[j].named # FALSE
    BY <1>6
  <2>4. Cleared(c, row, port) => Cleared(stale, row, port)
    BY <2>1, <2>3 DEF Cleared
  <2>5. CallOK(stale, row, port)
    BY <1>1, <2>1, <2>2, <2>4 DEF CallOK
  <2> QED
    BY <1>2, <1>6, <2>2, <2>5, OnlyCalls DEF Becomes
<1>7. [c EXCEPT !.left = @ \ {j}].seen = c.seen
  BY <1>1 DEF Recording
<1> QED
  BY <1>3, <1>5, <1>6, <1>7

\* Whatever a stale row is set to, the instance was known.
LEMMA ReconcileOK ==
  ASSUME PortInv, NEW h \in Callers, Reconcile(h)
  PROVE  PortInv'
<1> DEFINE c == call[h]
           j == c.stale
           next == [c EXCEPT !.op = "records", !.ok = @ /\ Exists(j)]
<1>1. c \in Recording /\ CallOK(c, row, port) /\ c \in Call /\ j \in Instances
  BY Kinds DEF PortInv, TypeOK, CallsOK, Reconcile, Recording
<1>2. Becomes(h, next) /\ UNCHANGED <<port, container, history>>
  BY DEF Reconcile
<1>3. row' = [row EXCEPT ![j] = IF Exists(j) THEN [status |-> "stopped", named |-> FALSE] ELSE @]
  BY DEF Reconcile
<1>4. row' \in Rows /\ \A i \in Instances : Known(i, row') <=> Known(i, row)
  BY <1>1, <1>3 DEF PortInv, TypeOK, Rows, Row, Known, Exists
<1>5. Settled
  BY <1>2, <1>4 DEF PortInv, TypeOK, Backed, Settled, Rest, Machine
<1>6. CallOK(c, row', port')
  <2>1. Steady
    BY <1>2, <1>4 DEF Steady
  <2> QED
    BY <1>1, <2>1, StillOK DEF PortInv
<1>7. /\ next \in Recording /\ next.inst = c.inst /\ next.seen = c.seen
      /\ next.unseen = c.unseen /\ next.left = c.left
  BY <1>1 DEF Recording
<1>8. next.ok = TRUE => c.ok = TRUE
  BY <1>1 DEF Recording
<1>9. next \in Call /\ next \notin Creating /\ next \notin Starting /\ next \notin Flushing
  BY <1>7, Kinds DEF Call
<1>10. CallOK(next, row', port')
  BY <1>1, <1>6, <1>7, <1>8, <1>9 DEF CallOK, Cleared
<1> QED
  BY <1>2, <1>5, <1>9, <1>10, SettledMoves DEF Becomes

\* A preflight that has come to its end, and found nothing, clears its start.
LEMMA Clears ==
  ASSUME PortInv, NEW c \in Recording, CallOK(c, row, port), c.left = {}, c.ok
  PROVE  /\ Calling(c.inst, c.unseen) \in Call \ Creating
         /\ CallOK(Calling(c.inst, c.unseen), row, port)
<1> DEFINE next == Calling(c.inst, c.unseen)
<1>1. next \in Starting /\ next.inst = c.inst /\ next.unseen = c.unseen
  BY DEF Calling, Starting, Recording
<1>2. /\ next \in Call /\ next \notin Creating /\ next \notin Asking
      /\ next \notin Recording /\ next \notin Flushing
  BY <1>1, Kinds DEF Call
<1>3. c.ok = TRUE
  BY DEF Recording
<1>4. Known(c.inst, row) /\ Cleared(c, row, port)
  BY <1>3 DEF CallOK
<1>5. Apart(next.inst, next.unseen, row, port)
  BY <1>1, <1>4 DEF Cleared, Apart
<1> QED
  BY <1>1, <1>2, <1>4, <1>5 DEF CallOK

\* A caller that comes to rest fits everything.
LEMMA AtRest ==
  ASSUME NEW r, NEW p
  PROVE  Idle \in Call /\ Idle \notin Creating /\ CallOK(Idle, r, p)
  BY DEF Call, CallOK, Idle, Creating, Asking, Recording, Starting, Flushing

\* After the preflight: refused, granted, or claimed by the benchmark.
LEMMA AfterChecksOK ==
  ASSUME PortInv, NEW h \in Callers, Refused(h) \/ Granted(h) \/ Claimed(h)
  PROVE  PortInv'
<1> DEFINE c == call[h]
<1>1. c \in Recording /\ CallOK(c, row, port)
  BY Kinds DEF PortInv, TypeOK, CallsOK, Refused, Granted, Claimed
<1>2. CASE Refused(h)
  BY <1>2, AtRest, OnlyCalls DEF Refused, Becomes
<1>3. CASE Granted(h)
  BY <1>1, <1>3, Clears, OnlyCalls DEF Granted, Becomes
<1>4. CASE Claimed(h)
  <2> DEFINE next == Calling(c.inst, c.unseen)
  <2>1. next \in Call \ Creating /\ CallOK(next, row, port)
    BY <1>1, <1>4, Clears DEF Claimed
  <2>2. c.inst \in Instances /\ Exists(c.inst)
    BY <1>1, <1>4 DEF Recording, Claimed
  <2>3. row' \in Rows /\ \A i \in Instances : Known(i, row') <=> Known(i, row)
    BY <1>4, <2>2 DEF Claimed, PortInv, TypeOK, Rows, Row, Known, Exists
  <2>4. Settled /\ Steady
    BY <1>4, <2>3 DEF Claimed, PortInv, TypeOK, Backed, Settled, Rest, Machine, Steady
  <2>5. CallOK(next, row', port')
    BY <2>1, <2>4, StillOK DEF PortInv
  <2> QED
    BY <1>4, <2>1, <2>4, <2>5, SettledMoves DEF Claimed, Becomes
<1> QED
  BY <1>2, <1>3, <1>4

\* A start without a check claims to know nothing.
LEMMA StartUncheckedOK ==
  ASSUME PortInv, NEW h \in Callers, NEW i \in Instances, StartUnchecked(h, i)
  PROVE  PortInv'
<1> DEFINE next == Calling(i, Instances)
<1>1. next \in Starting /\ next.inst = i /\ next.unseen = Instances
  BY DEF Calling, Starting
<1>2. /\ next \in Call /\ next \notin Creating /\ next \notin Asking
      /\ next \notin Recording /\ next \notin Flushing
  BY <1>1, Kinds DEF Call
<1>3. Known(i, row)
  BY DEF StartUnchecked, Startable, Known
<1>4. CallOK(next, row, port)
  BY <1>1, <1>2, <1>3 DEF CallOK, Apart
<1> QED
  BY <1>2, <1>4, OnlyCalls DEF StartUnchecked, Becomes

-----------------------------------------------------------------------------
(* Starts, stops, deletions and the machine.                                 *)

\* The call that a start waits in, and what it knows.
LEMMA StartCall ==
  ASSUME PortInv, NEW h \in Callers, call[h].op = "calling"
  PROVE  /\ call[h] \in Starting /\ call[h].inst \in Instances
         /\ call[h].unseen \in SUBSET Instances
         /\ Known(call[h].inst, row)
         /\ Apart(call[h].inst, call[h].unseen, row, port)
<1>1. call[h] \in Starting /\ CallOK(call[h], row, port)
  BY Kinds DEF PortInv, TypeOK, CallsOK
<1> QED
  BY <1>1 DEF CallOK, Starting

\* The agent's answer is in, and is not committed.
LEMMA FlushedCall ==
  ASSUME PortInv, NEW h \in Callers, call[h].op = "flushed"
  PROVE  call[h].inst \in Instances /\ Known(call[h].inst, row)
<1>1. call[h] \in Flushing /\ CallOK(call[h], row, port)
  BY Kinds DEF PortInv, TypeOK, CallsOK
<1> QED
  BY <1>1 DEF CallOK, Flushing

\* A container is started, with what its start knew of the others.
LEMMA Launches ==
  ASSUME PortInv, UNCHANGED <<port, avoided>>, row' \in Rows,
         \A i \in Instances : Known(i, row') <=> Known(i, row),
         Machine, \A i \in Instances : container'[i] # "absent" => Known(i, row),
         unseen' \in [Instances -> SUBSET Instances],
         \A i \in Instances :
           unseen'[i] = unseen[i] \/ (Known(i, row) /\ Apart(i, unseen'[i], row, port)),
         call' \in [Callers -> Call], CallsOK'
  PROVE  PortInv'
<1>1. Steady
  BY DEF Steady
<1>2. \A i \in Instances :
        unseen'[i] = unseen[i] \/ (Known(i, row') /\ Apart(i, unseen'[i], row', port'))
  BY DEF Apart
<1>3. HistoryOK'
  BY <1>1, <1>2, HistoryKept
<1>4. TypeOK' /\ Backed'
  BY DEF TypeOK, Backed, PortInv, Machine
<1> QED
  BY <1>3, <1>4 DEF PortInv

\* A call that is over, whatever the rows of known instances say now.
LEMMA CallEnds ==
  ASSUME PortInv, UNCHANGED port, NEW h \in Callers, NEW next \in Call, next \notin Creating,
         \A i \in Instances : Known(i, row') <=> Known(i, row),
         call' = [call EXCEPT ![h] = next], CallOK(next, row', port')
  PROVE  call' \in [Callers -> Call] /\ CallsOK'
<1>1. Steady
  BY DEF Steady
<1>2. \A i \in Instances :
        Known(i, row') => Known(i, row) \/ (call[h] \in Creating /\ i = call[h].inst)
  OBVIOUS
<1> QED
  BY <1>1, <1>2, Moves

\* A container comes up, or is found up, by the start that has called for it.
LEMMA AgentStartsOK ==
  ASSUME PortInv, NEW h \in Callers, AgentStarts(h)
  PROVE  PortInv'
<1> DEFINE i == call[h].inst
           next == [op |-> "flushed", inst |-> i]
<1>1. /\ i \in Instances /\ call[h].unseen \in SUBSET Instances
      /\ Known(i, row) /\ Apart(i, call[h].unseen, row, port)
  BY StartCall DEF AgentStarts
<1>2. /\ UNCHANGED <<row, port, avoided>> /\ call' = [call EXCEPT ![h] = next]
      /\ container' = [container EXCEPT ![i] = "running"]
      /\ unseen' = [unseen EXCEPT ![i] = IF container[i] = "running" THEN @ ELSE call[h].unseen]
  BY DEF AgentStarts, Becomes
<1>3. next \in Flushing /\ next.inst = i
  BY <1>1 DEF Flushing
<1>4. /\ next \in Call /\ next \notin Creating /\ next \notin Asking
      /\ next \notin Recording /\ next \notin Starting
  BY <1>3, Kinds DEF Call
<1>5. CallOK(next, row', port')
  BY <1>1, <1>2, <1>3, <1>4 DEF CallOK
<1>6. call' \in [Callers -> Call] /\ CallsOK'
  BY <1>2, <1>4, <1>5, CallEnds
<1>7. row' \in Rows /\ Machine /\ \A j \in Instances : container'[j] # "absent" => Known(j, row)
  BY <1>1, <1>2 DEF PortInv, TypeOK, Backed, Machine
<1>8. /\ unseen' \in [Instances -> SUBSET Instances]
      /\ \A j \in Instances :
           unseen'[j] = unseen[j] \/ (Known(j, row) /\ Apart(j, unseen'[j], row, port))
  BY <1>1, <1>2 DEF PortInv, HistoryOK
<1> QED
  BY <1>2, <1>6, <1>7, <1>8, Launches

\* The start is recorded, or rolled back.
LEMMA FlushedOK ==
  ASSUME PortInv, NEW h \in Callers, Commits(h) \/ RollsBack(h)
  PROVE  PortInv'
<1> DEFINE i == call[h].inst
<1>1. i \in Instances /\ Known(i, row)
  BY FlushedCall DEF Commits, RollsBack
<1>2. row' \in Rows /\ \A j \in Instances : Known(j, row') <=> Known(j, row)
  BY <1>1, RecordedOK DEF Commits, RollsBack
<1>3. Machine /\ \A j \in Instances : container'[j] # "absent" => Known(j, row)
  BY <1>1 DEF Commits, RollsBack, PortInv, TypeOK, Backed, Machine, Removed, Stays, Stopped
<1>4. Settled
  BY <1>2, <1>3 DEF Settled, Rest, Commits, RollsBack
<1>5. call' = [call EXCEPT ![h] = Idle]
  BY DEF Commits, RollsBack, Becomes
<1> QED
  BY <1>4, <1>5, AtRest, SettledMoves

\* A start that fails may leave a container behind, or one that is yet to come up.
LEMMA StartFailsOK ==
  ASSUME PortInv, NEW h \in Callers, StartFails(h)
  PROVE  PortInv'
<1> DEFINE i == call[h].inst
<1>1. /\ i \in Instances /\ call[h].unseen \in SUBSET Instances
      /\ Known(i, row) /\ Apart(i, call[h].unseen, row, port)
  BY StartCall DEF StartFails
<1>2. /\ UNCHANGED <<port, avoided>> /\ call' = [call EXCEPT ![h] = Idle]
      /\ unseen' = unseen \/ unseen' = [unseen EXCEPT ![i] = call[h].unseen]
      /\ \E left \in {"absent", "exited", "running"} : container' = [container EXCEPT ![i] = left]
  BY DEF StartFails, Becomes, Removed
<1>3. row' \in Rows /\ \A j \in Instances : Known(j, row') <=> Known(j, row)
  <2>1. row[i].named \in BOOLEAN
    BY <1>1 DEF PortInv, TypeOK, Rows, Row
  <2> QED
    BY <1>1, <2>1, RecordedOK DEF StartFails
<1>4. call' \in [Callers -> Call] /\ CallsOK'
  BY <1>2, <1>3, AtRest, CallEnds
<1>5. Machine /\ \A j \in Instances : container'[j] # "absent" => Known(j, row)
  BY <1>1, <1>2 DEF PortInv, TypeOK, Backed, Machine
<1>6. /\ unseen' \in [Instances -> SUBSET Instances]
      /\ \A j \in Instances :
           unseen'[j] = unseen[j] \/ (Known(j, row) /\ Apart(j, unseen'[j], row, port))
  BY <1>1, <1>2 DEF PortInv, HistoryOK
<1> QED
  BY <1>2, <1>3, <1>4, <1>5, <1>6, Launches

\* A stop, a deletion, an exit, a removal by hand.
LEMMA DownOK ==
  ASSUME PortInv, NEW i \in Instances, Stop(i) \/ Delete(i) \/ Exits(i) \/ RemovedByHand(i)
  PROVE  PortInv'
<1>1. UNCHANGED call /\ Rest
  BY DEF Stop, Delete, Exits, RemovedByHand, Rest
<1>2. row' \in Rows /\ \A j \in Instances : Known(j, row') <=> Known(j, row)
  <2>1. CASE Stop(i)
    BY <2>1 DEF Stop, PortInv, TypeOK, Rows, Row, Known
  <2>2. CASE Delete(i)
    BY <2>2 DEF Delete, Exists, PortInv, TypeOK, Rows, Row, Known
  <2>3. CASE Exits(i) \/ RemovedByHand(i)
    BY <2>3 DEF Exits, RemovedByHand, PortInv, TypeOK
  <2> QED
    BY <2>1, <2>2, <2>3
<1>3. Machine /\ \A j \in Instances : container'[j] # "absent" => Known(j, row)
  <2>1. /\ container' \in [Instances -> {"absent", "exited", "running"}]
        /\ \A j \in Instances : container'[j] # "absent" => container[j] # "absent"
    BY DEF Stop, Delete, Exits, RemovedByHand, PortInv, TypeOK, Removed, Stays, Stopped
  <2> QED
    BY <2>1 DEF PortInv, Backed, Machine
<1>4. Settled
  BY <1>1, <1>2, <1>3 DEF Settled
<1> QED
  BY <1>1, <1>4, SettledRests

\* The administrator lists containers and removes them, whatever they are by then.
LEMMA SweepOK ==
  ASSUME PortInv, NEW h \in Callers, OrphansListed(h) \/ OrphanRemoved(h)
  PROVE  PortInv'
<1>1. ASSUME NEW next \in Sweeping \cup {Idle}
      PROVE  /\ next \in Call /\ next \notin Creating /\ CallOK(next, row', port')
  <2>1. /\ next \in Call /\ next \notin Creating /\ next \notin Asking
        /\ next \notin Recording /\ next \notin Starting /\ next \notin Flushing
    BY AtRest, Kinds DEF Call, Idle, Creating, Asking, Recording, Starting, Flushing, Sweeping
  <2> QED
    BY <2>1 DEF CallOK
<1>2. CASE OrphansListed(h)
  <2> DEFINE next == [op |-> "sweep", inst |-> Nobody,
                      doomed |-> {i \in Instances : container[i] # "absent" /\ ~ row[i].named}]
  <2>1. next \in Sweeping
    BY DEF Sweeping
  <2>2. UNCHANGED <<row, port, container, history>> /\ call' = [call EXCEPT ![h] = next]
    BY <1>2 DEF OrphansListed, Becomes
  <2> QED
    BY <1>1, <2>1, <2>2, OnlyCalls
<1>3. CASE OrphanRemoved(h)
  <2>1. call[h] \in Sweeping
    BY <1>3, Kinds DEF OrphanRemoved, PortInv, TypeOK
  <2>2. PICK i \in call[h].doomed :
          LET left == call[h].doomed \ {i}
          IN  /\ Removed(i) \/ Stays
              /\ Becomes(h, IF left = {} THEN Idle ELSE [call[h] EXCEPT !.doomed = left])
    BY <1>3 DEF OrphanRemoved
  <2> DEFINE next == IF call[h].doomed \ {i} = {} THEN Idle
                     ELSE [call[h] EXCEPT !.doomed = call[h].doomed \ {i}]
  <2>3. i \in Instances /\ next \in Sweeping \cup {Idle}
    BY <2>1 DEF Sweeping
  <2>4. call' = [call EXCEPT ![h] = next]
    BY <2>2 DEF Becomes
  <2>5. UNCHANGED row /\ Rest
    BY <1>3 DEF OrphanRemoved, Rest
  <2>6. Machine /\ \A j \in Instances : container'[j] # "absent" => container[j] # "absent"
    BY <2>2, <2>3 DEF PortInv, TypeOK, Machine, Removed, Stays
  <2>7. Settled
    BY <2>5, <2>6, Shrinks
  <2> QED
    BY <1>1, <2>3, <2>4, <2>7, SettledMoves
<1> QED
  BY <1>2, <1>3

\* A port that is edited voids what was known of its instance, and what it knew.
LEMMA EditPortOK ==
  ASSUME PortInv, NEW i \in Instances, NEW p \in Pool, EditPort(i, p)
  PROVE  PortInv'
<1>1. UNCHANGED <<row, container, call>> /\ \A h \in Callers : call[h] = Idle
  BY DEF EditPort
<1>p. \A k \in Instances : port'[k] = IF k = i THEN p ELSE port[k]
  BY DEF EditPort, PortInv, TypeOK
<1>u. \A k \in Instances : unseen'[k] = IF k = i THEN Instances ELSE unseen[k] \cup {i}
  BY DEF EditPort
<1>a. \A k \in Instances : avoided'[k] = IF k = i THEN {} ELSE avoided[k] \ {i}
  BY DEF EditPort
<1>2. TypeOK' /\ Backed'
  BY <1>1, PoolAssumption DEF EditPort, PortInv, TypeOK, Backed
<1>3. CallsOK'
  BY <1>1, AtRest DEF CallsOK, Alone
<1>4. avoided' \in [Instances -> SUBSET Instances] /\ unseen' \in [Instances -> SUBSET Instances]
  BY DEF EditPort, PortInv, HistoryOK
<1>5. ASSUME NEW k \in Instances PROVE Avoids(k)' /\ Started(k)'
  <2>1. Avoids(k) /\ Started(k) /\ avoided[k] \subseteq Instances
    BY DEF PortInv, HistoryOK
  <2>2. Avoids(k)'
    <3>1. \A j \in avoided'[k] : k # i /\ j # i /\ j \in avoided[k]
      BY <1>a
    <3> QED
      BY <1>1, <1>p, <2>1, <3>1 DEF Avoids
  <2>3. CASE k = i \/ unseen[k] = Instances
    <3>1. unseen'[k] = Instances
      BY <1>u, <1>4, <2>3
    <3> QED
      BY <2>2, <3>1 DEF Started
  <2>4. CASE k # i /\ unseen[k] # Instances
    <3>1. Known(k, row) /\ Apart(k, unseen[k], row, port)
      BY <2>1, <2>4 DEF Started
    <3>2. Apart(k, unseen'[k], row', port')
      <4>1. \A j \in Instances \ unseen'[k] : j # i /\ j \in Instances \ unseen[k]
        BY <1>u, <2>4
      <4> QED
        BY <1>1, <1>p, <2>4, <3>1, <4>1 DEF Apart
    <3> QED
      BY <1>1, <2>2, <3>1, <3>2 DEF Started
  <2> QED
    BY <2>3, <2>4
<1>6. HistoryOK'
  BY <1>4, <1>5 DEF HistoryOK
<1> QED
  BY <1>2, <1>3, <1>6 DEF PortInv

-----------------------------------------------------------------------------
(* Creation and crash.                                                       *)

\* The port that an allocation settles for is none that it saw used or wanted.
LEMMA AllocatedFree ==
  ASSUME PortInv, NEW taken, NEW free, free = Pool \ (Excluded \cup taken), free # {}
  PROVE  /\ Allocated(free) \in Nat
         /\ \A j \in Unfinished : port[j] # Allocated(free)
<1>1. free \subseteq Nat
  BY PoolAssumption
<1>2. Allocated(free) \in free
  BY <1>1, LowestIn DEF Allocated
<1> QED
  BY <1>1, <1>2 DEF Excluded

\* An allocation avoids the ports of whoever waits or runs, and no two callers create
\* one instance.
LEMMA CreateReadsOK ==
  ASSUME PortInv, NEW h \in Callers, NEW i \in Instances, CreateReads(h, i)
  PROVE  PortInv'
<1>1. PICK taken \in {Occupied(shown) : shown \in Shown} \cup {{}} :
        LET free == Pool \ (Excluded \cup taken)
        IN  Becomes(h, [op |-> "create", inst |-> i, port |-> Allocated(free),
                        avoids |-> IF free = {} THEN {} ELSE Unfinished])
  BY DEF CreateReads
<1> DEFINE free == Pool \ (Excluded \cup taken)
           next == [op |-> "create", inst |-> i, port |-> Allocated(free),
                    avoids |-> IF free = {} THEN {} ELSE Unfinished]
<1>2. /\ call' = [call EXCEPT ![h] = next] /\ UNCHANGED <<row, port, container, history>>
      /\ ~ Known(i, row) /\ call[h] = Idle /\ \A g \in Callers : call[g].inst # i
  <2>1. call' = [call EXCEPT ![h] = next]
    BY <1>1 DEF Becomes
  <2>2. row[i] = Fresh /\ call[h] = Idle /\ UNCHANGED <<row, port, container, history>>
    BY DEF CreateReads
  <2>3. \A g \in Callers : call[g].inst # i
    BY DEF CreateReads
  <2> QED
    BY <2>1, <2>2, <2>3 DEF Known, Fresh
<1>3. Allocated(free) \in Nat /\ \A j \in next.avoids : port[j] # next.port
  <2>1. CASE free = {}
    BY <2>1, PoolAssumption DEF Allocated
  <2>2. CASE free # {}
    BY <2>2, AllocatedFree
  <2> QED
    BY <2>1, <2>2
<1>4. next \in Creating /\ next.inst = i
  BY <1>3 DEF Creating, Unfinished
<1>5. /\ next \in Call /\ next \notin Asking /\ next \notin Recording
      /\ next \notin Starting /\ next \notin Flushing
  BY <1>4, Kinds DEF Call
<1>6. \A j \in next.avoids : Known(j, row)
  BY DEF Unfinished, Known
<1>7. CallOK(next, row, port)
  BY <1>3, <1>5, <1>6 DEF CallOK
<1>8. call' \in [Callers -> Call]
  BY <1>2, <1>5 DEF PortInv, TypeOK
<1>9. ASSUME NEW g \in Callers PROVE CallOK(call'[g], row', port') /\ Alone(g)'
  <2>1. \A f \in Callers : call'[f] = IF f = h THEN next ELSE call[f]
    BY <1>2 DEF PortInv, TypeOK
  <2>2. CallOK(call'[g], row', port')
    BY <1>2, <1>7, <2>1 DEF PortInv, CallsOK
  <2>3. CASE g = h
    BY <1>2, <1>4, <2>1, <2>2, <2>3 DEF Alone
  <2>4. CASE g # h
    <3>1. Alone(g) /\ call'[g] = call[g] /\ call[g].inst # i
      BY <1>2, <2>1, <2>4 DEF PortInv, CallsOK
    <3>2. ASSUME call[g] \in Creating, NEW f \in Callers,
                 call'[f] \in Creating, call'[f].inst = call[g].inst
          PROVE  f = g
      <4>1. f # h
        BY <1>4, <2>1, <3>1, <3>2
      <4> QED
        BY <2>1, <3>1, <3>2, <4>1 DEF Alone
    <3> QED
      BY <1>2, <2>2, <3>1, <3>2 DEF Alone
  <2> QED
    BY <2>3, <2>4
<1>10. TypeOK' /\ Backed' /\ CallsOK'
  BY <1>2, <1>8, <1>9 DEF TypeOK, Backed, CallsOK, PortInv
<1>11. HistoryOK'
  BY <1>2 DEF HistoryOK, Avoids, Started, PortInv, history
<1> QED
  BY <1>10, <1>11 DEF PortInv

\* The port is in the table, and differs from those the allocation avoided.
LEMMA CreateCommitsOK ==
  ASSUME PortInv, NEW h \in Callers, CreateCommits(h)
  PROVE  PortInv'
<1> DEFINE i == call[h].inst
           rows == [row EXCEPT ![i].status = "pending"]
<1>1. call[h] \in Creating /\ CallOK(call[h], row, port) /\ Alone(h)
  BY Kinds DEF CreateCommits, PortInv, TypeOK, CallsOK
<1>2. /\ i \in Instances /\ call[h].port \in Nat /\ call[h].avoids \in SUBSET Instances
      /\ ~ Known(i, row)
      /\ \A j \in call[h].avoids : Known(j, row) /\ port[j] # call[h].port
  BY <1>1 DEF Creating, CallOK, Alone
<1>3. /\ row' = rows /\ port' = [port EXCEPT ![i] = call[h].port]
      /\ avoided' = [avoided EXCEPT ![i] = call[h].avoids]
      /\ UNCHANGED <<container, unseen>>
      /\ Becomes(h, Idle) \/ Becomes(h, Checking(i, Default, rows))
  BY DEF CreateCommits
<1>4. /\ rows \in Rows /\ port' \in [Instances -> Nat] /\ Known(i, rows)
      /\ \A j \in Instances \ {i} : (Known(j, rows) <=> Known(j, row)) /\ port'[j] = port[j]
  BY <1>2, <1>3 DEF PortInv, TypeOK, Rows, Row, Known
<1>5. Steady
  BY <1>2, <1>3, <1>4 DEF Steady
<1>6. PICK next \in Call \ Creating : Becomes(h, next) /\ CallOK(next, row', port')
  BY <1>2, <1>3, <1>4, AtRest, CheckBegins, PoolAssumption
<1>7. call' \in [Callers -> Call] /\ CallsOK'
  <2>1. \A j \in Instances : Known(j, row') => Known(j, row) \/ (call[h] \in Creating /\ j = i)
    BY <1>1, <1>3, <1>4
  <2> QED
    BY <1>5, <1>6, <2>1, Moves DEF Becomes
<1>8. TypeOK' /\ Backed'
  <2>1. \A j \in Instances : container'[j] # "absent" => Known(j, row)
    BY <1>3 DEF PortInv, Backed
  <2> QED
    BY <1>3, <1>4, <1>5, <1>7, <2>1 DEF TypeOK, Backed, PortInv, Steady
<1>9. HistoryOK'
  <2>1. avoided' \in [Instances -> SUBSET Instances] /\ unseen' \in [Instances -> SUBSET Instances]
    BY <1>2, <1>3 DEF PortInv, HistoryOK
  <2>2. ASSUME NEW k \in Instances PROVE Avoids(k)'
    <3>1. CASE k = i
      <4>1. avoided'[k] = call[h].avoids /\ port'[k] = call[h].port /\ Known(k, row')
        BY <1>2, <1>3, <1>4, <3>1 DEF PortInv, HistoryOK, TypeOK
      <4>2. \A j \in call[h].avoids : j \in Instances /\ j # i
        BY <1>2
      <4> QED
        BY <1>2, <1>3, <1>4, <4>1, <4>2 DEF Avoids
    <3>2. CASE k # i
      <4>1. avoided'[k] = avoided[k] /\ Avoids(k) /\ avoided[k] \subseteq Instances
        BY <1>3, <3>2 DEF PortInv, HistoryOK
      <4> QED
        BY <1>5, <4>1 DEF Avoids, Steady
    <3> QED
      BY <3>1, <3>2
  <2>3. ASSUME NEW k \in Instances PROVE Started(k)'
    <3>1. Started(k) /\ unseen'[k] = unseen[k]
      BY <1>3 DEF PortInv, HistoryOK
    <3> QED
      BY <1>5, <3>1 DEF Started, Steady, Apart
  <2> QED
    BY <2>1, <2>2, <2>3 DEF HistoryOK
<1> QED
  BY <1>7, <1>8, <1>9 DEF PortInv

\* When the backend stops, a call that the agent carries out all the same has been
\* cleared, or was never checked.
LEMMA CrashOK ==
  ASSUME PortInv, Crash
  PROVE  PortInv'
<1>1. PICK sent \in SUBSET {h \in Callers : call[h].op = "calling"} :
        LET up == {i \in Instances : \E h \in sent : call[h].inst = i}
        IN  /\ container' = [i \in Instances |-> IF i \in up THEN "running" ELSE container[i]]
            /\ unseen' = [i \in Instances |->
                 IF i \in up /\ container[i] # "running"
                 THEN UNION {call[h].unseen : h \in {g \in sent : call[g].inst = i}}
                 ELSE unseen[i]]
  BY DEF Crash
<1> DEFINE up == {i \in Instances : \E h \in sent : call[h].inst = i}
           told(i) == UNION {call[h].unseen : h \in {g \in sent : call[g].inst = i}}
<1>2. UNCHANGED <<row, port, avoided>> /\ call' = [h \in Callers |-> Idle]
  BY DEF Crash
<1>3. ASSUME NEW i \in up
      PROVE  Known(i, row) /\ told(i) \in SUBSET Instances /\ Apart(i, told(i), row, port)
  <2>1. PICK h \in sent : call[h].inst = i
    OBVIOUS
  <2>2. Known(i, row) /\ Apart(i, call[h].unseen, row, port)
    BY <2>1, StartCall
  <2>3. call[h].unseen \subseteq told(i)
    BY <2>1
  <2>4. \A g \in sent : call[g].unseen \in SUBSET Instances
    BY StartCall
  <2> QED
    BY <2>2, <2>3, <2>4 DEF Apart
<1>4. Machine /\ \A i \in Instances : container'[i] # "absent" => Known(i, row)
  BY <1>1, <1>3 DEF PortInv, TypeOK, Backed, Machine
<1>5. \A i \in Instances : unseen'[i] = unseen[i] \/ (i \in up /\ unseen'[i] = told(i))
  BY <1>1
<1>6. unseen' \in [Instances -> SUBSET Instances]
  BY <1>1, <1>3 DEF PortInv, HistoryOK
<1>7. \A i \in Instances :
        unseen'[i] = unseen[i] \/ (Known(i, row) /\ Apart(i, unseen'[i], row, port))
  BY <1>3, <1>5
<1>8. call' \in [Callers -> Call] /\ CallsOK'
  BY <1>2, AtRest DEF CallsOK, Alone
<1> QED
  BY <1>2, <1>4, <1>6, <1>7, <1>8, Launches DEF PortInv, TypeOK

-----------------------------------------------------------------------------
(* The theorems.                                                             *)

\* At first nothing is known and nothing is asked.
LEMMA PortInit == Init => PortInv
<1> SUFFICES ASSUME Init PROVE PortInv
  OBVIOUS
<1>1. TypeOK
  BY PoolAssumption DEF Init, TypeOK, Rows, Row, Fresh, Call
<1>2. CallsOK
  BY AtRest DEF Init, CallsOK, Alone
<1>3. HistoryOK
  BY DEF Init, HistoryOK, Avoids, Started
<1>4. Backed
  BY DEF Init, Backed
<1> QED
  BY <1>1, <1>2, <1>3, <1>4 DEF PortInv

\* Every step keeps the invariant.
LEMMA PortStep == PortInv /\ [Next]_vars => PortInv'
<1> SUFFICES ASSUME PortInv, [Next]_vars PROVE PortInv'
  OBVIOUS
<1>1. ASSUME NEW h \in Callers, Step(h) PROVE PortInv'
  <2>1. CASE \E i \in Instances : CreateReads(h, i) \/ StartReads(h, i) \/ StartUnchecked(h, i)
    BY <2>1, CreateReadsOK, StartReadsOK, StartUncheckedOK
  <2>2. CASE CreateCommits(h)
    BY <2>2, CreateCommitsOK
  <2>3. CASE Ask(h) \/ Inspect(h) \/ AskFails(h)
    BY <2>3, AskOK
  <2>4. CASE RemoveOrphan(h) \/ Record(h) \/ Reconcile(h)
    BY <2>4, RemoveOrphanOK, RecordOK, ReconcileOK
  <2>5. CASE Refused(h) \/ Granted(h) \/ Claimed(h)
    BY <2>5, AfterChecksOK
  <2>6. CASE AgentStarts(h) \/ Commits(h) \/ RollsBack(h) \/ StartFails(h)
    BY <2>6, AgentStartsOK, FlushedOK, StartFailsOK
  <2>7. CASE OrphansListed(h) \/ OrphanRemoved(h)
    BY <2>7, SweepOK
  <2> QED
    BY <1>1, <2>1, <2>2, <2>3, <2>4, <2>5, <2>6, <2>7 DEF Step
<1>2. ASSUME NEW i \in Instances, Stop(i) \/ Delete(i) \/ Exits(i) \/ RemovedByHand(i)
      PROVE  PortInv'
  BY <1>2, DownOK
<1>3. ASSUME NEW i \in Instances, NEW p \in Pool, EditPort(i, p) PROVE PortInv'
  BY <1>3, EditPortOK
<1>c. CASE Crash
  BY <1>c, CrashOK
<1>4. CASE UNCHANGED vars
  <2>1. Settled /\ UNCHANGED call
    BY <1>4 DEF vars, Settled, Rest, Machine, PortInv, TypeOK, Backed
  <2> QED
    BY <2>1, SettledRests
<1> QED
  BY <1>1, <1>2, <1>3, <1>c, <1>4 DEF Next

\* What a call has found out about ports stays true until it acts on it, and what
\* allocations and checks knew stays true after it, whatever the others do meanwhile.
THEOREM PortsKnown == Spec => []PortInv
  BY PortInit, PortStep, PTL DEF Spec

\* For every number of instances and callers: two containers share a port only if
\* neither was started after a preflight that knew of the other.
THEOREM PortsStayApart == Spec => []PortsApart
<1>1. PortInv => PortsApart
  <2> SUFFICES ASSUME PortInv, NEW i \in Instances, NEW j \in Instances, i # j,
                      container[i] = "running", container[j] = "running", port[i] = port[j]
               PROVE  j \in unseen[i]
    BY DEF PortsApart
  <2>1. Started(i)
    BY DEF PortInv, HistoryOK
  <2> QED
    BY <2>1 DEF Started, Apart
<1> QED
  BY <1>1, PortsKnown, PTL

\* For every range of ports: an allocation keeps clear of the ports of instances that
\* wait or run, as long as nobody edits them.
THEOREM AllocationsStayApart == Spec => []AllocatedApart
<1>1. PortInv => AllocatedApart
  BY DEF PortInv, HistoryOK, Avoids, AllocatedApart
<1> QED
  BY <1>1, PortsKnown, PTL
=============================================================================
