-------------------------- MODULE OrderInstanceProofs --------------------------
(* More about OrderRouting: the types, whose instance is whose, and what the *)
(* router and the user are told, for any number of orders, instances, slots, *)
(* router processes, overlapping handlers and requests.                      *)
EXTENDS OrderRoutingProofs

-----------------------------------------------------------------------------
(* What is proved.                                                           *)

InstRow == [st : InstanceStatus, src : Orders \cup {NoOrder}, slot : Slots \cup {NoSlot}]
ConvRow == [st : ConversationStatus, linked : BOOLEAN]

\* What ClaimInv does not say of the types.
RuntimeType ==
  /\ inst \in [Instances -> InstRow]
  /\ \A i \in Instances : inst[i].st # "unused" => inst[i].src \in Orders
  /\ up \subseteq Instances /\ leftover \subseteq Instances
  /\ restarted \subseteq Orders
  /\ released \subseteq Orders \X Slots
  /\ overlapped \subseteq Orders /\ disowned \subseteq Instances

MetType == dropped \subseteq Orders /\ met \subseteq Orders \X Orders

\* Only an instance with a row, or one that had a row, has containers.
UpUsed == \A i \in up : inst[i].st # "unused"

TalkType == conv \in [Chat -> ConvRow] /\ repeated \subseteq Orders

\* An instance was made for an order, or there is none.
Names(ins, i, o) == i = NoInstance \/ (ins[i].src = o /\ ins[i].st # "unused")

\* What a row names, and what a handler holds, was made for the order; only some
\* handlers make an instance.
HasOwn(ins, w) ==
  /\ w.made => w.op \in {"result", "platform", "auto", "materialize"}
  /\ w.op # "none" =>
       /\ w.seen.st # "absent" \/ (w.op = "confirm" /\ w.seen = Absent)
       /\ Names(ins, w.seen.inst, w.o) /\ Names(ins, w.inst, w.o)
       /\ w.made <=> w.inst # NoInstance
       /\ w.made /\ w.op \in {"result", "platform"} => w.seen.inst = NoInstance
       /\ \A i \in w.mine : Names(ins, i, w.o)
Owned ==
  /\ \A o \in Orders : Names(inst, order[o].inst, o) /\ (~ Exists(o) => order[o] = Absent)
  /\ \A j \in Jobs : HasOwn(inst, job[j])

OwnInv == ClaimInv /\ RuntimeType /\ TalkType /\ MetType /\ UpUsed /\ Owned

-----------------------------------------------------------------------------
(* What any step may do to an instance, and to an order.                     *)

On(j, o) == job[j].op # "none" /\ job[j].o = o

\* A row that is used stays with its order and its slot, and a purged one gone.
InstancesKept ==
  \A i \in Instances : inst[i].st # "unused" =>
    /\ inst'[i].src = inst[i].src /\ inst'[i].slot = inst[i].slot
    /\ inst'[i].st # "unused"
    /\ inst[i].st = "purged" => inst'[i].st = "purged"

\* Nothing but o, its handlers and its instances is written.
OnlyOn(o) ==
  /\ \A p \in Orders \ {o} : order'[p] = order[p]
  /\ \A j \in Jobs, p \in Orders \ {o} : On(j, p) \/ On(j, p)' => job'[j] = job[j]
  /\ \A i \in Instances : inst'[i] # inst[i] => inst'[i].src = o
  /\ \A i \in Instances : i \in up' => i \in up \/ inst'[i].src = o
  /\ \A i \in Instances : i \in leftover \cap up' => i \in leftover' \/ inst'[i].src = o
  /\ released \subseteq released' /\ disowned \subseteq disowned'
  /\ overlapped \subseteq overlapped'

\* What a step on o leaves: the types, the owners, and all other orders.
Local(o) == RuntimeType' /\ InstancesKept /\ Owned' /\ OnlyOn(o)

\* One row, one handler, one instance is written.
SetsRow(o, row) == order' = [order EXCEPT ![o] = row]
SetsJob(j, w)   == job' = [job EXCEPT ![j] = w]
SetsInst(i, r)  == inst' = [inst EXCEPT ![i] = r]

\* The ways in which an instance's row is written.
LEMMA InstNew ==
  ASSUME RuntimeType, NEW i \in Instances, inst[i].st = "unused",
         NEW o \in Orders, NEW s \in Slots \cup {NoSlot},
         SetsInst(i, [st |-> "waiting", src |-> o, slot |-> s])
  PROVE  /\ inst' \in [Instances -> InstRow] /\ InstancesKept
         /\ \A k \in Instances : inst'[k].st # "unused" => inst'[k].src \in Orders
         /\ \A k \in Instances : inst'[k] # inst[k] => k = i
         /\ inst'[i].src = o /\ inst'[i].slot = s /\ inst'[i].st = "waiting"
  BY DEF RuntimeType, InstRow, InstancesKept, InstanceStatus, SetsInst

\* Purging touches instances with a row only, and purges all it names.
LEMMA InstPurge ==
  ASSUME RuntimeType, NEW gone, Purge(gone)
  PROVE  /\ inst' \in [Instances -> InstRow] /\ InstancesKept
         /\ \A k \in Instances : inst'[k].st # "unused" => inst'[k].src \in Orders
         /\ \A k \in Instances : inst'[k] # inst[k] => k \in gone /\ HasRow(k)
         /\ \A k \in Instances : k \in gone /\ HasRow(k) => inst'[k].st = "purged"
  BY DEF RuntimeType, InstRow, HasRow, InstancesKept, InstanceStatus, Purge

\* Where no instance is written the instances keep their types and their orders.
LEMMA InstSame ==
  ASSUME RuntimeType, UNCHANGED inst
  PROVE  /\ inst' \in [Instances -> InstRow] /\ InstancesKept
         /\ \A k \in Instances : inst'[k].st # "unused" => inst'[k].src \in Orders
  BY DEF RuntimeType, InstancesKept

\* An owner stays.
LEMMA NamesKept ==
  ASSUME InstancesKept, NEW i \in Instances \cup {NoInstance}, NEW o \in Orders, Names(inst, i, o)
  PROVE  Names(inst', i, o)
  BY DEF Names, InstancesKept

\* What a handler holds stays its own.
LEMMA HoldsKept ==
  ASSUME InstancesKept, NEW w \in Job, w.op # "none" => w.o \in Orders, HasOwn(inst, w)
  PROVE  HasOwn(inst', w)
<1> SUFFICES ASSUME w.op # "none"
             PROVE  /\ Names(inst', w.seen.inst, w.o) /\ Names(inst', w.inst, w.o)
                    /\ \A i \in w.mine : Names(inst', i, w.o)
  BY DEF HasOwn
<1>1. /\ w.o \in Orders /\ w.seen.inst \in Instances \cup {NoInstance}
      /\ w.inst \in Instances \cup {NoInstance} /\ w.mine \subseteq Instances
  BY DEF Job, Row
<1> QED
  BY <1>1, NamesKept DEF HasOwn

-----------------------------------------------------------------------------
(* The conversations.                                                        *)

\* A conversation is written by itself.
LEMMA TalkRest ==
  ASSUME TalkType, NEW o \in Orders, NEW c \in ConvRow, HasConversation(o),
         SetConversation(o, c)
  PROVE  conv' \in [Chat -> ConvRow]
  BY DEF TalkType, SetConversation, HasConversation

\* The states a conversation gets.
LEMMA SyncType ==
  ASSUME TalkType, NEW o \in Orders,
         \/ \E net \in BOOLEAN : SyncAfterRouting(o, net)
         \/ \E st \in ConversationStatus : SyncLinked(o, st)
         \/ Detach(o)
         \/ UNCHANGED conv
  PROVE  conv' \in [Chat -> ConvRow]
<1>1. ASSUME NEW c \in ConvRow, HasConversation(o), SetConversation(o, c)
      PROVE  conv' \in [Chat -> ConvRow]
  BY <1>1, TalkRest
<1>2. CASE \E net \in BOOLEAN : SyncAfterRouting(o, net)
  BY <1>1, <1>2 DEF SyncAfterRouting, ConvRow, ConversationStatus, TalkType
<1>3. ASSUME NEW st \in ConversationStatus, SyncLinked(o, st)
      PROVE  conv' \in [Chat -> ConvRow]
  <2>1. HasConversation(o) => [conv[o] EXCEPT !.st = st] \in ConvRow
    BY DEF HasConversation, TalkType, ConvRow
  <2> QED
    BY <1>1, <1>3, <2>1 DEF SyncLinked, TalkType
<1>4. CASE Detach(o)
  BY <1>1, <1>4 DEF Detach, ConvRow, ConversationStatus, TalkType
<1> QED
  BY <1>2, <1>3, <1>4 DEF TalkType

-----------------------------------------------------------------------------
(* How orders and handlers keep what is their own.                           *)

\* The rows keep to their instances.
RowsOwn ==
  \A o \in Orders : /\ order'[o].inst = order[o].inst \/ Names(inst', order'[o].inst, o)
                    /\ order'[o].st = "absent" => order'[o] = Absent

\* Handlers that are as before still hold their own.
LEMMA OwnedStep ==
  ASSUME OwnInv, InstancesKept, RowsOwn,
         \A j \in Jobs : job'[j] = job[j] \/ HasOwn(inst', job'[j])
  PROVE  Owned'
<1>1. ASSUME NEW o \in Orders
      PROVE  Names(inst', order'[o].inst, o) /\ (~ Exists(o) => order[o] = Absent)'
  <2>1. order[o].inst \in Instances \cup {NoInstance} /\ Names(inst, order[o].inst, o)
    BY DEF OwnInv, Owned, ClaimInv, RowsType, Row
  <2>2. order'[o].inst = order[o].inst => Names(inst', order'[o].inst, o)
    BY <2>1, NamesKept DEF Names
  <2> QED
    BY <2>2 DEF RowsOwn, Exists, Names
<1>2. ASSUME NEW j \in Jobs PROVE HasOwn(inst', job'[j])
  <2>1. job[j] \in Job /\ (job[j].op # "none" => job[j].o \in Orders) /\ HasOwn(inst, job[j])
    BY DEF OwnInv, Owned, ClaimInv, JobsType
  <2>2. CASE job'[j] = job[j]
    BY <2>1, <2>2, HoldsKept DEF HasOwn, Names
  <2> QED
    BY <2>2
<1> QED
  BY <1>1, <1>2 DEF Owned

\* Rows that are not written.
LEMMA RowsSame ==
  ASSUME OwnInv, UNCHANGED order
  PROVE  RowsOwn
  BY DEF OwnInv, Owned, Exists, RowsOwn

\* One row is written.
LEMMA RowWritten ==
  ASSUME OwnInv, NEW o \in Orders, NEW row, SetsRow(o, row),
         row.inst = order[o].inst \/ Names(inst', row.inst, o),
         row.st = "absent" => row = Absent
  PROVE  RowsOwn /\ order'[o] = row /\ \A p \in Orders \ {o} : order'[p] = order[p]
  BY DEF OwnInv, Owned, Exists, RowsOwn, ClaimInv, RowsType, Names, SetsRow

\* A handler commits new over the copy it has seen.
Commits(o, seen, new, flagged) == order' = Merged(o, seen, new, flagged)

\* What a handler's commit makes of its row.
LEMMA MergedRow ==
  ASSUME OwnInv, NEW o \in Orders, NEW seen \in Row, NEW new \in Row,
         NEW flagged \in SUBSET {"config"}, Commits(o, seen, new, flagged)
  PROVE  \E row \in Row :
           /\ SetsRow(o, row)
           /\ new.rs # seen.rs => row.rs = new.rs
           /\ new.rs = seen.rs => row.rs = order[o].rs
           /\ new.st # seen.st => row.st = new.st
           /\ new.st = seen.st => row.st = order[o].st
           /\ new.inst # seen.inst => row.inst = new.inst
           /\ new.inst = seen.inst => row.inst = order[o].inst
           /\ "config" \in flagged \/ new.config # seen.config => row.config = new.config
           /\ "config" \notin flagged /\ new.config = seen.config => row.config = order[o].config
           /\ seen = order[o] => row = new
<1> DEFINE merged == [c \in Columns |->
                 IF c \in flagged \/ new[c] # seen[c] THEN new[c] ELSE order[o][c]]
<1>1. order[o] \in Row /\ order \in [Orders -> Row]
  BY DEF OwnInv, ClaimInv, RowsType
<1>2. SetsRow(o, merged)
  BY <1>1 DEF Merged, Commits, SetsRow
<1>3. /\ merged.rs = IF new.rs # seen.rs THEN new.rs ELSE order[o].rs
      /\ merged.st = IF new.st # seen.st THEN new.st ELSE order[o].st
      /\ merged.inst = IF new.inst # seen.inst THEN new.inst ELSE order[o].inst
      /\ merged.config = IF "config" \in flagged \/ new.config # seen.config
                         THEN new.config ELSE order[o].config
  BY DEF Columns
<1>4. merged \in Row
  BY <1>1 DEF Row, Columns
<1> HIDE DEF merged
<1>5. ASSUME seen = order[o] PROVE merged = new
  <2>1. /\ merged.rs = new.rs /\ merged.st = new.st /\ merged.inst = new.inst
        /\ merged.config = new.config
    BY <1>3, <1>5
  <2> QED
    BY <1>4, <2>1 DEF Row
<1> WITNESS merged \in Row
<1> QED
  BY <1>2, <1>3, <1>5

\* A commit names the instance the handler has made, or none it did not see.
LEMMA MergedOwn ==
  ASSUME OwnInv, NEW o \in Orders, NEW seen \in Row, NEW new \in Row,
         NEW flagged \in SUBSET {"config"}, Commits(o, seen, new, flagged),
         Exists(o), new.st # "absent",
         new.inst = seen.inst \/ Names(inst', new.inst, o)
  PROVE  RowsOwn /\ \A p \in Orders \ {o} : order'[p] = order[p]
<1>1. PICK row \in Row :
        /\ SetsRow(o, row)
        /\ new.st # seen.st => row.st = new.st
        /\ new.st = seen.st => row.st = order[o].st
        /\ new.inst # seen.inst => row.inst = new.inst
        /\ new.inst = seen.inst => row.inst = order[o].inst
  BY MergedRow
<1>2. row.inst = order[o].inst \/ Names(inst', row.inst, o)
  BY <1>1 DEF Names
<1>3. row.st # "absent"
  BY <1>1 DEF Exists
<1> QED
  BY <1>1, <1>2, <1>3, RowWritten

\* A handler that ends.
LEMMA EndOwn ==
  ASSUME OwnInv, InstancesKept, RowsOwn, NEW j \in Jobs, job[j].op # "none", End(j)
  PROVE  /\ Owned'
         /\ \A k \in Jobs, p \in Orders \ {job[j].o} : On(k, p) \/ On(k, p)' => job'[k] = job[k]
         /\ job'[j] = Idle /\ \A k \in Jobs \ {j} : job'[k] = job[k]
<1>1. job'[j] = Idle /\ \A k \in Jobs \ {j} : job'[k] = job[k]
  BY DEF End, OwnInv, ClaimInv, JobsType
<1>2. HasOwn(inst', job'[j])
  BY <1>1 DEF HasOwn, Idle
<1>3. Owned'
  BY <1>1, <1>2, OwnedStep
<1> QED
  BY <1>1, <1>3 DEF On, Idle

\* A handler that goes on, or begins.
LEMMA OneJobOwn ==
  ASSUME OwnInv, InstancesKept, RowsOwn, NEW j \in Jobs, NEW w, w.op # "none",
         job[j].op = "none" \/ job[j].o = w.o,
         SetsJob(j, w), HasOwn(inst', w)
  PROVE  /\ Owned'
         /\ \A k \in Jobs, p \in Orders \ {w.o} : On(k, p) \/ On(k, p)' => job'[k] = job[k]
         /\ job'[j] = w /\ \A k \in Jobs \ {j} : job'[k] = job[k]
<1>1. job'[j] = w /\ \A k \in Jobs \ {j} : job'[k] = job[k]
  BY DEF OwnInv, ClaimInv, JobsType, SetsJob
<1>2. HasOwn(inst', job'[j])
  BY <1>1
<1>3. Owned'
  BY <1>1, <1>2, OwnedStep
<1> QED
  BY <1>1, <1>3 DEF On

-----------------------------------------------------------------------------
(* Each step is a step on one order.                                         *)

\* The parts of the runtime that a step leaves.
LEMMA RuntimeSame ==
  ASSUME RuntimeType, UNCHANGED <<inst, restarted, disowned>>, leftover' \subseteq leftover,
         up' \subseteq up, released' \subseteq Orders \X Slots, overlapped' \subseteq Orders
  PROVE  RuntimeType' /\ InstancesKept
  BY InstSame DEF RuntimeType

\* What a handler holds, and its order.
LEMMA JobFacts ==
  ASSUME OwnInv, NEW j \in Jobs, job[j].op # "none"
  PROVE  /\ job[j] \in Job /\ job[j].o \in Orders /\ job[j].seen \in Row
         /\ job[j].seen.st # "absent" \/ (job[j].op = "confirm" /\ job[j].seen = Absent)
         /\ Names(inst, job[j].seen.inst, job[j].o) /\ Names(inst, job[j].inst, job[j].o)
         /\ job[j].made <=> job[j].inst # NoInstance
         /\ job[j].made => job[j].op \in {"result", "platform", "auto", "materialize"}
         /\ job[j].made /\ job[j].op \in {"result", "platform"} => job[j].seen.inst = NoInstance
         /\ \A i \in job[j].mine : i \in Instances /\ Names(inst, i, job[j].o)
         /\ job[j].inst \in Instances \cup {NoInstance} /\ job[j].net \in BOOLEAN
  BY JobOK DEF OwnInv, Owned, HasOwn, Job

\* A handler opens.
LEMMA OpenLocal ==
  ASSUME OwnInv, NEW j \in Jobs, NEW op \in Operations, NEW o \in Orders, Open(j, op, o)
  PROVE  Local(o)
<1> DEFINE busy == IF op \in Placers THEN {s \in Slots : ~ SlotFree(o, s)} ELSE {}
           w == [Idle EXCEPT !.op = op, !.o = o, !.seen = order[o], !.mine = Made(o),
                             !.taken = busy]
<1> HIDE DEF busy
<1>1. /\ job[j].op = "none" /\ (Exists(o) <=> op # "confirm") /\ SetsJob(j, w)
      /\ UNCHANGED <<order, inst, up, leftover, restarted, released, disowned>>
      /\ overlapped' \in {overlapped, overlapped \cup {o}}
  BY DEF Open, rows, runtime, SetsJob, Touch, busy
<1>2. RuntimeType' /\ InstancesKept
  BY <1>1, RuntimeSame DEF OwnInv, RuntimeType
<1>3. /\ w.op = op /\ w.o = o /\ w.seen = order[o] /\ w.mine = Made(o)
      /\ w.inst = NoInstance /\ w.made = FALSE
  BY DEF Idle
<1>4. op # "none"
  BY DEF Operations
<1> HIDE DEF w
<1>5. HasOwn(inst', w)
  <2>1. /\ Names(inst, order[o].inst, o)
        /\ order[o].st # "absent" \/ (op = "confirm" /\ order[o] = Absent)
    BY <1>1 DEF OwnInv, Owned, Exists
  <2>2. \A i \in Made(o) : Names(inst, i, o)
    BY DEF Made, HasRow, Names
  <2> QED
    BY <1>1, <1>3, <2>1, <2>2 DEF HasOwn, Names
<1>6. RowsOwn
  BY <1>1, RowsSame
<1>7. /\ Owned'
      /\ \A k \in Jobs, p \in Orders \ {o} : On(k, p) \/ On(k, p)' => job'[k] = job[k]
  BY <1>1, <1>2, <1>3, <1>4, <1>5, <1>6, OneJobOwn
<1>8. OnlyOn(o)
  BY <1>1, <1>7 DEF OnlyOn
<1> QED
  BY <1>2, <1>7, <1>8 DEF Local

\* A handler ends without having written its order.
LEMMA EndLocal ==
  ASSUME OwnInv, NEW j \in Jobs, Refuse(j) \/ AnswerAgain(j) \/ Drop(j)
  PROVE  Local(job[j].o)
<1>1. /\ job[j].op # "none" /\ End(j)
      /\ UNCHANGED <<order, inst, restarted, released, disowned>>
      /\ leftover' \subseteq leftover /\ leftover \cap up' \subseteq leftover'
      /\ up' \subseteq up /\ overlapped' \in {overlapped, overlapped \cup {job[j].o}}
  BY DEF Refuse, AnswerAgain, Drop, rows, runtime, notes, Operations
<1>2. job[j].o \in Orders
  BY <1>1, JobFacts
<1>3. RuntimeType' /\ InstancesKept
  BY <1>1, <1>2, RuntimeSame DEF OwnInv, RuntimeType
<1>4. /\ Owned'
      /\ \A k \in Jobs, p \in Orders \ {job[j].o} : On(k, p) \/ On(k, p)' => job'[k] = job[k]
  BY <1>1, <1>3, RowsSame, EndOwn
<1>5. OnlyOn(job[j].o)
  BY <1>1, <1>4 DEF OnlyOn
<1> QED
  BY <1>3, <1>4, <1>5 DEF Local

\* A handler makes an instance.
LEMMA CommitNewLocal ==
  ASSUME OwnInv, NEW j \in Jobs, job[j].op \in {"result", "platform", "auto", "materialize"},
         NEW i \in Instances, NEW new \in Row,
         NEW flagged \in SUBSET {"config"}, NEW net \in BOOLEAN,
         new.inst = job[j].seen.inst, new.st = job[j].seen.st,
         job[j].op \in {"result", "platform"} => new.inst = NoInstance,
         RowsOwn /\ \A p \in Orders \ {job[j].o} : order'[p] = order[p],
         CommitNew(j, i, new, flagged, net)
  PROVE  Local(job[j].o)
<1> DEFINE w == job[j]
           x == [w EXCEPT !.made = TRUE, !.inst = i, !.seen = new, !.net = net]
           slot == IF w.op = "materialize" THEN NoSlot ELSE new.config.slot
<1>1. /\ inst[i].st = "unused" /\ SetsJob(j, x)
      /\ SetsInst(i, [st |-> "waiting", src |-> w.o, slot |-> slot])
      /\ UNCHANGED <<conv, up, leftover, restarted, released, overlapped>>
      /\ disowned \subseteq disowned' /\ disowned' \subseteq disowned \cup Made(w.o)
  BY DEF CommitNew, SetsJob, SetsInst
<1>2. w \in Job /\ w.o \in Orders /\ slot \in Slots \cup {NoSlot}
  <2>1. new.config.slot \in Slots \cup {NoSlot}
    BY DEF Row, Config
  <2> QED
    BY <2>1, JobFacts
<1>3. /\ inst' \in [Instances -> InstRow] /\ InstancesKept
      /\ \A k \in Instances : inst'[k].st # "unused" => inst'[k].src \in Orders
      /\ \A k \in Instances : inst'[k] # inst[k] => k = i
      /\ inst'[i].src = w.o /\ inst'[i].slot = slot /\ inst'[i].st = "waiting"
  BY <1>1, <1>2, InstNew DEF OwnInv
<1>4. RuntimeType'
  BY <1>1, <1>3 DEF OwnInv, RuntimeType, Made
<1>5. /\ x.op = w.op /\ x.o = w.o /\ x.seen = new /\ x.mine = w.mine /\ x.inst = i
      /\ x.made = TRUE
  BY <1>2 DEF Job
<1>6. HasOwn(inst, w) /\ (w.op # "none" => w.o \in Orders)
  BY <1>2 DEF OwnInv, Owned
<1>7. HasOwn(inst', x)
  <2>1. HasOwn(inst', w)
    BY <1>2, <1>3, <1>6, HoldsKept
  <2>2. i # NoInstance
    BY NoneAssumption
  <2> HIDE DEF x
  <2> QED
    BY <1>3, <1>5, <2>1, <2>2 DEF HasOwn, Names
<1> HIDE DEF x, slot
<1>8. /\ Owned'
      /\ \A k \in Jobs, p \in Orders \ {w.o} : On(k, p) \/ On(k, p)' => job'[k] = job[k]
      /\ job'[j] = x /\ \A k \in Jobs \ {j} : job'[k] = job[k]
  BY <1>1, <1>3, <1>5, <1>7, OneJobOwn
<1>9. OnlyOn(w.o)
  BY <1>1, <1>3, <1>8 DEF OnlyOn
<1> QED
  BY <1>3, <1>4, <1>8, <1>9 DEF Local

\* What a handler commits when it ends: the instance it has made, or nothing new.
EndsWith(j, new, flagged) ==
  LET w == job[j] IN
  /\ Commits(w.o, w.seen, new, flagged)
  /\ new.st # "absent" /\ (new.st = "pending" => new.inst = NoInstance)
  /\ new.config.slot = w.seen.config.slot
  /\ new.inst = IF w.made THEN w.inst ELSE w.seen.inst

\* Each handler that ends with a commit.
LEMMA EndsForm ==
  ASSUME OwnInv, NEW j \in Jobs,
         \/ LinkResult(j) \/ LinkInstance(j) \/ MaterializeFails(j)
         \/ (\E net \in BOOLEAN : RouteOnly(j, net)) \/ Cancel(j)
  PROVE  /\ job[j].op # "none" /\ Exists(job[j].o) /\ End(j)
         /\ UNCHANGED <<inst, up, leftover, restarted, overlapped, disowned>>
         /\ released' \in {released, released \cup {<<job[j].o, job[j].seen.config.slot>>}}
         /\ released' # released => job[j].op = "cancel" /\ job[j].seen.config.slot # NoSlot
         /\ \E new \in Row, flagged \in SUBSET {"config"} : EndsWith(j, new, flagged)
<1> DEFINE w == job[j]
<1>1. /\ w.op # "none" /\ Exists(w.o) /\ End(j)
      /\ UNCHANGED <<inst, up, leftover, restarted, overlapped, disowned>>
      /\ released' \in {released, released \cup {<<w.o, w.seen.config.slot>>}}
      /\ released' # released => w.op = "cancel" /\ w.seen.config.slot # NoSlot
  BY DEF LinkResult, LinkInstance, MaterializeFails, RouteOnly, Cancel, runtime, Release,
         notes
<1>2. /\ w.seen \in Row /\ w.inst \in Instances \cup {NoInstance} /\ w.net \in BOOLEAN
      /\ w.made => w.op \in {"result", "platform", "auto", "materialize"}
      /\ w.made => w.inst # NoInstance
  BY <1>1, JobFacts
<1>3. CASE LinkResult(j)
  <2> DEFINE new == [w.seen EXCEPT !.inst = w.inst, !.st = "materialized",
                       !.rs = IF w.net THEN "network_binding_ready" ELSE "completed",
                       !.config.net = IF w.net THEN "waiting" ELSE "none"]
  <2>1. /\ new \in Row /\ new.st = "materialized" /\ new.inst = w.inst
        /\ new.config.slot = w.seen.config.slot
    BY <1>2 DEF Row, RoutingStatus, OrderStatus, Config
  <2>2. w.made /\ Commits(w.o, w.seen, new, {"config"})
    BY <1>3 DEF LinkResult, Commits
  <2> HIDE DEF new
  <2>3. EndsWith(j, new, {"config"})
    BY <2>1, <2>2 DEF EndsWith
  <2> QED
    BY <1>1, <2>1, <2>3
<1>4. CASE LinkInstance(j)
  <2> DEFINE new == [w.seen EXCEPT !.inst = w.inst, !.st = "materialized"]
             flagged == IF w.op = "auto" THEN {"config"} ELSE {}
  <2>1. /\ new \in Row /\ new.st = "materialized" /\ new.inst = w.inst
        /\ new.config.slot = w.seen.config.slot
    BY <1>2 DEF Row, OrderStatus
  <2>2. w.made /\ Commits(w.o, w.seen, new, flagged) /\ flagged \in SUBSET {"config"}
    BY <1>4 DEF LinkInstance, Commits
  <2> HIDE DEF new, flagged
  <2>3. EndsWith(j, new, flagged)
    BY <2>1, <2>2 DEF EndsWith
  <2> QED
    BY <1>1, <2>1, <2>2, <2>3
<1>5. CASE MaterializeFails(j)
  <2> DEFINE new == [w.seen EXCEPT !.st = "failed"]
  <2>1. /\ new \in Row /\ new.st = "failed" /\ new.inst = w.seen.inst
        /\ new.config.slot = w.seen.config.slot
    BY <1>2 DEF Row, OrderStatus
  <2>2. ~ w.made /\ Commits(w.o, w.seen, new, {})
    BY <1>5 DEF MaterializeFails, Commits
  <2> HIDE DEF new
  <2>3. EndsWith(j, new, {})
    BY <2>1, <2>2 DEF EndsWith
  <2> QED
    BY <1>1, <2>1, <2>3
<1>6. ASSUME NEW net \in BOOLEAN, RouteOnly(j, net)
      PROVE  \E new \in Row, flagged \in SUBSET {"config"} : EndsWith(j, new, flagged)
  <2> DEFINE new == [w.seen EXCEPT
                       !.st = IF w.seen.config.mode = "route_only" THEN "pending"
                                                                  ELSE "completed",
                       !.rs = IF net THEN "network_binding_ready" ELSE "completed",
                       !.config.net = IF net THEN "waiting" ELSE "none"]
  <2>1. /\ new \in Row /\ new.st \in {"pending", "completed"} /\ new.inst = w.seen.inst
        /\ new.config.slot = w.seen.config.slot
    BY <1>2 DEF Row, RoutingStatus, OrderStatus, Config
  <2>2. ~ w.made /\ w.seen.inst = NoInstance /\ Commits(w.o, w.seen, new, {"config"})
    BY <1>6 DEF RouteOnly, Commits
  <2> HIDE DEF new
  <2>3. EndsWith(j, new, {"config"})
    BY <2>1, <2>2 DEF EndsWith
  <2> QED
    BY <2>1, <2>3
<1>7. CASE Cancel(j)
  <2> DEFINE new == [w.seen EXCEPT !.st = "cancelled", !.rs = "cancelled"]
  <2>1. /\ new \in Row /\ new.st = "cancelled" /\ new.inst = w.seen.inst
        /\ new.config.slot = w.seen.config.slot
    BY <1>2 DEF Row, RoutingStatus, OrderStatus
  <2>2. ~ w.made /\ Commits(w.o, w.seen, new, {})
    BY <1>2, <1>7 DEF Cancel, Commits
  <2> HIDE DEF new
  <2>3. EndsWith(j, new, {})
    BY <2>1, <2>2 DEF EndsWith
  <2> QED
    BY <1>1, <2>1, <2>3
<1> QED
  BY <1>1, <1>3, <1>4, <1>5, <1>6, <1>7

\* A handler ends with a commit.
LEMMA EndsLocal ==
  ASSUME OwnInv, NEW j \in Jobs,
         \/ LinkResult(j) \/ LinkInstance(j) \/ MaterializeFails(j)
         \/ (\E net \in BOOLEAN : RouteOnly(j, net)) \/ Cancel(j)
  PROVE  Local(job[j].o)
<1> DEFINE w == job[j]
<1>1. /\ w.op # "none" /\ Exists(w.o) /\ End(j)
      /\ UNCHANGED <<inst, up, leftover, restarted, overlapped, disowned>>
      /\ released' \in {released, released \cup {<<w.o, w.seen.config.slot>>}}
      /\ released' # released => w.seen.config.slot # NoSlot
  BY EndsForm
<1>2. PICK new \in Row, flagged \in SUBSET {"config"} : EndsWith(j, new, flagged)
  BY EndsForm
<1>3. /\ w.seen \in Row /\ w.o \in Orders
      /\ Names(inst, w.seen.inst, w.o) /\ Names(inst, w.inst, w.o)
  BY <1>1, JobFacts
<1>4. released' \subseteq Orders \X Slots
  <2>1. w.seen.config.slot \in Slots \cup {NoSlot}
    BY <1>3 DEF Row, Config
  <2> QED
    BY <1>1, <1>3, <2>1 DEF OwnInv, RuntimeType
<1>5. RuntimeType' /\ InstancesKept
  BY <1>1, <1>4, RuntimeSame DEF OwnInv, RuntimeType
<1>6. new.inst = w.seen.inst \/ Names(inst', new.inst, w.o)
  BY <1>1, <1>2, <1>3 DEF EndsWith
<1>7. RowsOwn /\ \A p \in Orders \ {w.o} : order'[p] = order[p]
  <2>1. Commits(w.o, w.seen, new, flagged) /\ new.st # "absent"
    BY <1>2 DEF EndsWith
  <2> QED
    BY <1>1, <1>3, <1>6, <2>1, MergedOwn
<1>8. /\ Owned'
      /\ \A k \in Jobs, p \in Orders \ {w.o} : On(k, p) \/ On(k, p)' => job'[k] = job[k]
  BY <1>1, <1>5, <1>7, EndOwn
<1>9. OnlyOn(w.o)
  BY <1>1, <1>7, <1>8 DEF OnlyOn
<1> QED
  BY <1>5, <1>8, <1>9 DEF Local

\* An order is deleted.
LEMMA DeleteLocal ==
  ASSUME OwnInv, NEW j \in Jobs, Delete(j)
  PROVE  /\ Local(job[j].o)
         /\ \A i \in Instances : inst'[i] # inst[i] => inst'[i].st = "purged"
<1> DEFINE w == job[j]
           mine == w.mine \cup ({w.seen.inst} \ {NoInstance})
<1>1. /\ w.op # "none" /\ End(j) /\ Purge(mine) /\ SetsRow(w.o, Absent)
      /\ up' \subseteq up /\ leftover' = leftover \cap up'
      /\ UNCHANGED <<restarted, overlapped, disowned>>
      /\ released' \in {released, released \cup {<<w.o, w.seen.config.slot>>}}
      /\ released' # released => w.seen.config.slot # NoSlot
  BY DEF Delete, SetsRow, Release, CleanedUp, notes
<1>2. /\ w.seen \in Row /\ w.o \in Orders /\ Names(inst, w.seen.inst, w.o)
      /\ \A i \in w.mine : i \in Instances /\ Names(inst, i, w.o)
  BY <1>1, JobFacts
<1>3. \A i \in mine \cap Instances : inst[i].src = w.o
  BY <1>2, NoneAssumption DEF Names
<1> HIDE DEF mine
<1>4. /\ inst' \in [Instances -> InstRow] /\ InstancesKept
      /\ \A k \in Instances : inst'[k].st # "unused" => inst'[k].src \in Orders
      /\ \A k \in Instances : inst'[k] # inst[k] => k \in mine /\ HasRow(k)
      /\ \A k \in Instances : k \in mine /\ HasRow(k) => inst'[k].st = "purged"
  BY <1>1, InstPurge DEF OwnInv
<1>5. \A k \in Instances : inst'[k] # inst[k] => inst'[k].src = w.o /\ inst'[k].st = "purged"
  BY <1>3, <1>4 DEF InstancesKept, HasRow
<1>6. released' \subseteq Orders \X Slots
  <2>1. w.seen.config.slot \in Slots \cup {NoSlot}
    BY <1>2 DEF Row, Config
  <2> QED
    BY <1>1, <1>2, <2>1 DEF OwnInv, RuntimeType
<1>7. RuntimeType'
  BY <1>1, <1>4, <1>6 DEF OwnInv, RuntimeType
<1>8. RowsOwn /\ \A p \in Orders \ {w.o} : order'[p] = order[p]
  <2>1. Absent.inst = NoInstance
    BY DEF Absent, Fresh
  <2>2. Names(inst', Absent.inst, w.o)
    BY <2>1 DEF Names
  <2> QED
    BY <1>1, <1>2, <2>2, RowWritten
<1>9. /\ Owned'
      /\ \A k \in Jobs, p \in Orders \ {w.o} : On(k, p) \/ On(k, p)' => job'[k] = job[k]
  BY <1>1, <1>4, <1>8, EndOwn
<1>10. OnlyOn(w.o)
  BY <1>1, <1>5, <1>8, <1>9 DEF OnlyOn
<1> QED
  BY <1>4, <1>5, <1>7, <1>9, <1>10 DEF Local

\* Steps that write a row and no handler.
LEMMA RowLocal ==
  ASSUME OwnInv, NEW o \in Orders, NEW row, SetsRow(o, row),
         row.inst = order[o].inst \/ row.inst = NoInstance,
         row.st = "absent" => row = Absent,
         UNCHANGED job, InstancesKept, RuntimeType',
         \A i \in Instances : inst'[i] # inst[i] => inst'[i].src = o,
         \A i \in Instances : i \in up' => i \in up \/ inst'[i].src = o,
         \A i \in Instances : i \in leftover \cap up' => i \in leftover' \/ inst'[i].src = o,
         released \subseteq released', disowned \subseteq disowned',
         overlapped \subseteq overlapped'
  PROVE  Local(o)
<1>1. RowsOwn /\ \A p \in Orders \ {o} : order'[p] = order[p]
  <2>1. row.inst = order[o].inst \/ Names(inst', row.inst, o)
    BY DEF Names
  <2> QED
    BY <2>1, RowWritten
<1>2. Owned'
  BY <1>1, OwnedStep
<1>3. OnlyOn(o)
  BY <1>1 DEF OnlyOn
<1> QED
  BY <1>2, <1>3 DEF Local

\* What Touch writes.
LEMMA Touched ==
  ASSUME RuntimeType, NEW o \in Orders, Touch(o)
  PROVE  /\ overlapped \subseteq overlapped' /\ overlapped' \subseteq Orders
         /\ o \notin overlapped' => Busy(o) = {} /\ overlapped' = overlapped
  BY DEF RuntimeType, Touch

\* Requests of a router and of a user that write no instance.
LEMMA QueueLocal ==
  ASSUME OwnInv, NEW o \in Orders,
         \/ \E r \in Routers : Claim(r, o) \/ Requeue(r, o) \/ FailRouting(r, o)
         \/ \E mode \in Modes : Confirm(o, mode)
         \/ CancelConversation(o) \/ Submit(o) \/ EditDraft(o) \/ DeleteConversation(o)
  PROVE  Local(o)
<1>1. UNCHANGED <<runtime, released, job, disowned>> /\ Touch(o)
  BY DEF Claim, Requeue, FailRouting, Confirm, CancelConversation, Submit, EditDraft,
         DeleteConversation, notes
<1>2. order[o] \in Row /\ order \in [Orders -> Row]
  BY DEF OwnInv, ClaimInv, RowsType
<1>3. /\ overlapped \subseteq overlapped' /\ overlapped' \subseteq Orders
      /\ UNCHANGED <<inst, up, leftover, restarted>> /\ released' = released
  BY <1>1, Touched DEF OwnInv, runtime
<1>4. RuntimeType' /\ InstancesKept
  BY <1>1, <1>3, RuntimeSame DEF OwnInv, RuntimeType
<1>5. \E row : /\ SetsRow(o, row) /\ (row.inst = order[o].inst \/ row.inst = NoInstance)
               /\ (row.st = "absent" => row = Absent)
  <2>1. CASE order' = order
    <3>1. SetsRow(o, order[o])
      BY <1>2, <2>1 DEF SetsRow
    <3>2. order[o].st = "absent" => order[o] = Absent
      BY DEF OwnInv, Owned, Exists
    <3> QED
      BY <3>1, <3>2
  <2>2. ASSUME NEW r \in Routers, Claim(r, o) \/ Requeue(r, o) \/ FailRouting(r, o)
        PROVE  \E row : /\ SetsRow(o, row) /\ row.inst = order[o].inst /\ row.st # "absent"
    <3>1. \/ SetsRow(o, [order[o] EXCEPT !.rs = "computing"])
          \/ SetsRow(o, [order[o] EXCEPT !.rs = "pending"])
          \/ SetsRow(o, [order[o] EXCEPT !.rs = "failed", !.st = "failed"])
      BY <2>2 DEF Claim, Requeue, FailRouting, SetsRow
    <3>2. order[o].st # "absent"
      BY <2>2 DEF Claim, Requeue, FailRouting, Exists
    <3>3. /\ [order[o] EXCEPT !.rs = "computing"].inst = order[o].inst
          /\ [order[o] EXCEPT !.rs = "computing"].st = order[o].st
          /\ [order[o] EXCEPT !.rs = "pending"].inst = order[o].inst
          /\ [order[o] EXCEPT !.rs = "pending"].st = order[o].st
          /\ [order[o] EXCEPT !.rs = "failed", !.st = "failed"].inst = order[o].inst
          /\ [order[o] EXCEPT !.rs = "failed", !.st = "failed"].st = "failed"
      BY <1>2 DEF Row
    <3> QED
      BY <3>1, <3>2, <3>3
  <2>3. ASSUME NEW mode \in Modes, Confirm(o, mode)
        PROVE  \E row : /\ SetsRow(o, row) /\ row.inst = NoInstance /\ row.st # "absent"
    <3>1. SetsRow(o, Fresh("pending", mode))
      BY <2>3 DEF Confirm, SetsRow
    <3>2. Fresh("pending", mode).inst = NoInstance /\ Fresh("pending", mode).st = "pending"
      BY DEF Fresh
    <3> QED
      BY <3>1, <3>2
  <2>4. ASSUME CancelConversation(o), order' # order
        PROVE  \E row : /\ SetsRow(o, row) /\ row.inst = order[o].inst /\ row.st # "absent"
    <3>1. SetsRow(o, [order[o] EXCEPT !.st = "cancelled", !.rs = "cancelled"])
      BY <2>4 DEF CancelConversation, SetsRow
    <3>2. /\ [order[o] EXCEPT !.st = "cancelled", !.rs = "cancelled"].inst = order[o].inst
          /\ [order[o] EXCEPT !.st = "cancelled", !.rs = "cancelled"].st = "cancelled"
      BY <1>2 DEF Row
    <3> QED
      BY <3>1, <3>2
  <2>5. CASE Submit(o) \/ EditDraft(o) \/ DeleteConversation(o)
    BY <2>1, <2>5 DEF Submit, EditDraft, DeleteConversation
  <2> QED
    BY <2>1, <2>2, <2>3, <2>4, <2>5
<1>6. PICK row : /\ SetsRow(o, row) /\ (row.inst = order[o].inst \/ row.inst = NoInstance)
                 /\ (row.st = "absent" => row = Absent)
  BY <1>5
<1> QED
  BY <1>1, <1>3, <1>4, <1>6, RowLocal

\* What a handler commits with the instance it makes.
MakesWith(j, i, new, flagged, net) ==
  LET w == job[j] IN
  /\ CommitNew(j, i, new, flagged, net)
  /\ new.inst = w.seen.inst /\ new.st = w.seen.st
  /\ w.op = "materialize" => new = w.seen /\ flagged = {}
  /\ w.op # "materialize" => Exists(w.o)

\* Each handler that makes an instance.
Makes(j, i) ==
  \/ \E s \in Slots : PlaceAuto(j, i, s) \/ \E net \in BOOLEAN : PlaceResult(j, i, s, net)
  \/ PlaceMaterialized(j, i)

\* What the handlers that make an instance have in common.
LEMMA MakesForm ==
  ASSUME OwnInv, NEW j \in Jobs, NEW i \in Instances, Makes(j, i)
  PROVE  /\ job[j].op \in {"result", "platform", "auto", "materialize"} /\ ~ job[j].made
         /\ job[j].op \in {"result", "platform"} => job[j].seen.inst = NoInstance
         /\ \E new \in Row, flagged \in SUBSET {"config"}, net \in BOOLEAN :
              MakesWith(j, i, new, flagged, net)
<1> DEFINE w == job[j]
<1>1. /\ w.op \in {"result", "platform", "auto", "materialize"} /\ ~ w.made
      /\ w.op \in {"result", "platform"} => w.seen.inst = NoInstance
  BY DEF Makes, PlaceAuto, PlaceResult, PlaceMaterialized
<1>2. w.seen \in Row /\ w.o \in Orders
  BY <1>1, JobFacts
<1>3. ASSUME NEW s \in Slots, NEW net \in BOOLEAN, PlaceResult(j, i, s, net)
      PROVE  \E new \in Row : MakesWith(j, i, new, {"config"}, net)
  <2> DEFINE new == [w.seen EXCEPT !.rs = "computing",
                       !.config = [slot |-> s, net |-> "none", mode |-> "deploy"]]
  <2>1. new \in Row /\ new.inst = w.seen.inst /\ new.st = w.seen.st
    BY <1>2 DEF Row, RoutingStatus, Config
  <2>2. CommitNew(j, i, new, {"config"}, net) /\ Exists(w.o) /\ w.op # "materialize"
    BY <1>3 DEF PlaceResult
  <2> HIDE DEF new
  <2> QED
    BY <2>1, <2>2 DEF MakesWith
<1>4. ASSUME NEW s \in Slots, PlaceAuto(j, i, s)
      PROVE  \E new \in Row : MakesWith(j, i, new, {"config"}, FALSE)
  <2> DEFINE new == [w.seen EXCEPT !.rs = "completed", !.config.slot = s,
                       !.config.net = "none"]
  <2>1. new \in Row /\ new.inst = w.seen.inst /\ new.st = w.seen.st
    BY <1>2 DEF Row, RoutingStatus, Config
  <2>2. CommitNew(j, i, new, {"config"}, FALSE) /\ Exists(w.o) /\ w.op # "materialize"
    BY <1>4 DEF PlaceAuto
  <2> HIDE DEF new
  <2> QED
    BY <2>1, <2>2 DEF MakesWith
<1>5. CASE PlaceMaterialized(j, i)
  <2>1. CommitNew(j, i, w.seen, {}, FALSE) /\ w.op = "materialize"
    BY <1>5 DEF PlaceMaterialized
  <2>2. MakesWith(j, i, w.seen, {}, FALSE)
    BY <2>1 DEF MakesWith
  <2> QED
    BY <1>1, <1>2, <2>2
<1> QED
  BY <1>1, <1>3, <1>4, <1>5 DEF Makes

\* A handler that makes an instance for its order.
LEMMA MakesLocal ==
  ASSUME OwnInv, NEW j \in Jobs, NEW i \in Instances, Makes(j, i)
  PROVE  Local(job[j].o)
<1> DEFINE w == job[j]
<1>1. /\ w.op \in {"result", "platform", "auto", "materialize"}
      /\ w.op \in {"result", "platform"} => w.seen.inst = NoInstance
  BY MakesForm
<1>2. PICK new \in Row, flagged \in SUBSET {"config"}, net \in BOOLEAN :
        MakesWith(j, i, new, flagged, net)
  BY MakesForm
<1>3. w.seen \in Row /\ w.o \in Orders /\ w.seen.st # "absent"
  BY <1>1, JobFacts
<1>4. /\ CommitNew(j, i, new, flagged, net) /\ Commits(w.o, w.seen, new, flagged)
      /\ new.inst = w.seen.inst /\ new.st = w.seen.st
      /\ w.op = "materialize" => new = w.seen /\ flagged = {}
      /\ w.op # "materialize" => Exists(w.o)
  BY <1>2 DEF MakesWith, CommitNew, Commits
<1>5. RowsOwn /\ \A p \in Orders \ {w.o} : order'[p] = order[p]
  <2>1. CASE w.op # "materialize"
    BY <1>3, <1>4, <2>1, MergedOwn
  <2>2. CASE w.op = "materialize"
    <3>1. PICK row \in Row :
            /\ SetsRow(w.o, row)
            /\ new.st = w.seen.st => row.st = order[w.o].st
            /\ new.inst = w.seen.inst => row.inst = order[w.o].inst
            /\ new.rs = w.seen.rs => row.rs = order[w.o].rs
            /\ "config" \notin flagged /\ new.config = w.seen.config
                 => row.config = order[w.o].config
      BY <1>3, <1>4, MergedRow
    <3>2. order[w.o] \in Row
      BY <1>3 DEF OwnInv, ClaimInv, RowsType
    <3>3. /\ row.st = order[w.o].st /\ row.inst = order[w.o].inst /\ row.rs = order[w.o].rs
          /\ row.config = order[w.o].config
      BY <1>4, <2>2, <3>1
    <3>4. row = order[w.o]
      BY <3>2, <3>3 DEF Row
    <3>5. order[w.o].st = "absent" => order[w.o] = Absent
      BY <1>3 DEF OwnInv, Owned, Exists
    <3> QED
      BY <1>3, <3>1, <3>4, <3>5, RowWritten
  <2> QED
    BY <2>1, <2>2
<1>6. w.op \in {"result", "platform"} => new.inst = NoInstance
  BY <1>1, <1>4
<1> QED
  BY <1>1, <1>4, <1>5, <1>6, CommitNewLocal

\* The instance's row gets another status, and its containers go or come up.
LEMMA StatusLocal ==
  ASSUME OwnInv, NEW i \in Instances, HasRow(i), NEW st \in InstanceStatus \ {"unused"},
         inst' = [inst EXCEPT ![i].st = st]
  PROVE  /\ inst' \in [Instances -> InstRow] /\ InstancesKept
         /\ \A k \in Instances : inst'[k].st # "unused" => inst'[k].src \in Orders
         /\ \A k \in Instances : inst'[k] # inst[k] => k = i
         /\ inst'[i].src = inst[i].src /\ inst'[i].st = st /\ inst'[i].slot = inst[i].slot
         /\ inst[i].src \in Orders
<1>1. inst[i].src \in Orders /\ i \in Instances /\ inst[i].st # "unused"
  BY DEF OwnInv, RuntimeType, HasRow
<1> QED
  BY <1>1 DEF OwnInv, RuntimeType, InstRow, HasRow, InstancesKept

\* Only the order an instance was made for owns it.
LEMMA OwnersOne ==
  ASSUME OwnInv, NEW i \in Instances
  PROVE  Owners(i) \subseteq {inst[i].src}
<1>1. ASSUME NEW o \in Orders, order[o].inst = i PROVE inst[i].src = o
  BY <1>1, NoneAssumption DEF OwnInv, Owned, Names
<1> QED
  BY <1>1 DEF Owners

\* What an instance's release adds.
LEMMA ReleaseType ==
  ASSUME OwnInv, NEW i \in Instances, HasRow(i), ReleaseInstance(i)
  PROVE  released \subseteq released' /\ released' \subseteq Orders \X Slots
<1>1. \A p \in Orders : order[p].config.slot \in Slots \cup {NoSlot}
  BY DEF OwnInv, ClaimInv, RowsType, Row, Config
<1> QED
  BY <1>1 DEF OwnInv, RuntimeType, ReleaseInstance, Owners

\* What a touched instance's orders come to.
LEMMA TouchedInstance ==
  ASSUME RuntimeType, NEW i \in Instances, HasRow(i), TouchInstance(i)
  PROVE  /\ overlapped \subseteq overlapped' /\ overlapped' \subseteq Orders
         /\ inst[i].src \notin overlapped' => Busy(inst[i].src) = {}
         /\ \A o \in Orders : o \in overlapped' => o \in overlapped \/ o = inst[i].src
<1>1. inst[i].src \in Orders
  BY DEF RuntimeType, HasRow
<1> QED
  BY <1>1 DEF RuntimeType, TouchInstance

\* A start or a stop leaves the orders.
LEMMA StartStopLocal ==
  ASSUME OwnInv, NEW i \in Instances, Start(i) \/ Stop(i)
  PROVE  Local(inst[i].src)
<1>1. /\ HasRow(i) /\ UNCHANGED <<order, job, disowned>> /\ TouchInstance(i)
      /\ UNCHANGED released \/ ReleaseInstance(i)
      /\ restarted' \subseteq restarted \cup {inst[i].src}
      /\ up' \subseteq up \cup {i}
      /\ leftover \ {i} \subseteq leftover' /\ leftover' \subseteq leftover \cup {i}
  BY DEF Start, Stop, TakesDown, rows, StartEnds, Again, notes
<1>2. PICK st \in InstanceStatus \ {"unused"} : inst' = [inst EXCEPT ![i].st = st]
  <2>1. CASE UNCHANGED inst
    <3>1. inst[i].st \in InstanceStatus \ {"unused"} /\ inst' = [inst EXCEPT ![i].st = inst[i].st]
      BY <1>1, <2>1 DEF OwnInv, RuntimeType, InstRow, HasRow
    <3> QED
      BY <3>1
  <2> QED
    BY <2>1 DEF Start, Stop, StartEnds, InstanceStatus
<1>3. /\ inst' \in [Instances -> InstRow] /\ InstancesKept
      /\ \A k \in Instances : inst'[k].st # "unused" => inst'[k].src \in Orders
      /\ \A k \in Instances : inst'[k] # inst[k] => k = i
      /\ inst'[i].src = inst[i].src /\ inst[i].src \in Orders
  BY <1>1, <1>2, StatusLocal
<1>4. released \subseteq released' /\ released' \subseteq Orders \X Slots
  BY <1>1, ReleaseType DEF OwnInv, RuntimeType
<1>5. overlapped \subseteq overlapped' /\ overlapped' \subseteq Orders
  BY <1>1, TouchedInstance DEF OwnInv
<1>6. RuntimeType'
  BY <1>1, <1>3, <1>4, <1>5 DEF OwnInv, RuntimeType
<1>7. Owned'
  BY <1>1, <1>3, RowsSame, OwnedStep
<1>8. OnlyOn(inst[i].src)
  BY <1>1, <1>3, <1>4, <1>5 DEF OnlyOn
<1> QED
  BY <1>3, <1>6, <1>7, <1>8 DEF Local

\* The end of a schedule, or of an instance, is written to its order.
LEMMA InstanceEndsLocal ==
  ASSUME OwnInv, NEW i \in Instances, NEW b \in BOOLEAN, EndDue(i, b) \/ DeleteInstance(i)
  PROVE  Local(inst[i].src)
<1>1. /\ HasRow(i) /\ UNCHANGED <<job, restarted, disowned>> /\ TouchInstance(i)
      /\ ReleaseInstance(i) /\ up' \subseteq up
      /\ leftover \ {i} \subseteq leftover' /\ leftover' \subseteq leftover \cup {i}
  BY DEF EndDue, DeleteInstance, TakesDown, notes
<1>2. PICK st \in InstanceStatus \ {"unused"} : inst' = [inst EXCEPT ![i].st = st]
  BY DEF EndDue, DeleteInstance, InstanceStatus
<1>3. /\ inst' \in [Instances -> InstRow] /\ InstancesKept
      /\ \A k \in Instances : inst'[k].st # "unused" => inst'[k].src \in Orders
      /\ \A k \in Instances : inst'[k] # inst[k] => k = i
      /\ inst'[i].src = inst[i].src /\ inst[i].src \in Orders
  BY <1>1, <1>2, StatusLocal
<1>4. released \subseteq released' /\ released' \subseteq Orders \X Slots
  BY <1>1, ReleaseType
<1>5. overlapped \subseteq overlapped' /\ overlapped' \subseteq Orders
  BY <1>1, TouchedInstance DEF OwnInv
<1>6. RuntimeType'
  BY <1>1, <1>3, <1>4, <1>5 DEF OwnInv, RuntimeType
<1>7. order \in [Orders -> Row]
  BY DEF OwnInv, ClaimInv, RowsType
<1>8. ASSUME NEW o \in Orders
      PROVE  /\ o \notin Owners(i) => order'[o] = order[o]
             /\ order'[o].inst = order[o].inst \/ order'[o].inst = NoInstance
             /\ order'[o].st = "absent" => order'[o] = order[o]
    <2>1. order[o] \in Row
      BY <1>7
    <2>2. CASE EndDue(i, b)
      <3>1. order'[o] = IF o \in Owners(i) /\ order[o].st = "materialized"
                        THEN [order[o] EXCEPT !.st = "completed"] ELSE order[o]
        BY <2>2 DEF EndDue
      <3> QED
        BY <2>1, <3>1 DEF Row
    <2>3. CASE DeleteInstance(i)
      <3>1. order'[o] = IF o \in Owners(i)
                        THEN [order[o] EXCEPT !.st = "cancelled", !.inst = NoInstance]
                        ELSE order[o]
        BY <2>3 DEF DeleteInstance
      <3> QED
        BY <2>1, <3>1 DEF Row
    <2> QED
      BY <2>2, <2>3
<1>9. RowsOwn
  BY <1>8 DEF RowsOwn, Names, OwnInv, Owned, Exists
<1>10. Owned'
  BY <1>1, <1>3, <1>9, OwnedStep
<1>11. \A p \in Orders \ {inst[i].src} : order'[p] = order[p]
  BY <1>8, OwnersOne
<1>12. OnlyOn(inst[i].src)
  BY <1>1, <1>3, <1>4, <1>5, <1>11 DEF OnlyOn
<1> QED
  BY <1>3, <1>6, <1>10, <1>12 DEF Local

\* The network is ready: the order is written, and its instance may start.
LEMMA NetworkReadyLocal ==
  ASSUME OwnInv, NEW o \in Orders, NEW late \in BOOLEAN, NetworkReady(o, late)
  PROVE  Local(o)
<1> DEFINE i == order[o].inst
<1>1. /\ UNCHANGED <<released, job, disowned>> /\ Touch(o) /\ order[o].st # "absent"
      /\ \/ UNCHANGED <<inst, up, leftover, restarted>>
         \/ /\ HasRow(i) /\ restarted' \subseteq restarted \cup {inst[i].src}
            /\ up' \subseteq up \cup {i}
            /\ leftover \ {i} \subseteq leftover' /\ leftover' \subseteq leftover \cup {i}
            /\ \E st \in InstanceStatus \ {"unused"} : inst' = [inst EXCEPT ![i].st = st]
  <2>1. UNCHANGED <<released, job, disowned>> /\ Touch(o) /\ order[o].st # "absent"
    BY DEF NetworkReady, Exists, notes
  <2>2. CASE UNCHANGED <<inst, up, leftover, restarted>>
    BY <2>1, <2>2
  <2>3. CASE /\ HasRow(i) /\ inst' = [inst EXCEPT ![i].st = "expired"]
             /\ UNCHANGED <<up, leftover, restarted>>
    BY <2>1, <2>3 DEF InstanceStatus
  <2>4. CASE HasRow(i) /\ StartEnds(i) /\ Again(i)
    BY <2>1, <2>4 DEF InstanceStatus, StartEnds, Again
  <2> QED
    BY <2>2, <2>3, <2>4 DEF NetworkReady, runtime
<1>2. order[o] \in Row /\ order \in [Orders -> Row]
  BY DEF OwnInv, ClaimInv, RowsType
<1>3. /\ overlapped \subseteq overlapped' /\ overlapped' \subseteq Orders
  BY <1>1, Touched DEF OwnInv
<1>4. HasRow(i) => i \in Instances /\ inst[i].src = o
  BY <1>2 DEF HasRow, OwnInv, Owned, Names, Row
<1>5. /\ inst' \in [Instances -> InstRow] /\ InstancesKept
      /\ \A k \in Instances : inst'[k].st # "unused" => inst'[k].src \in Orders
      /\ \A k \in Instances : inst'[k] # inst[k] => inst'[k].src = o
      /\ \A k \in Instances : k \in up' => k \in up \/ inst'[k].src = o
      /\ \A k \in Instances : k \in leftover => k \in leftover' \/ inst'[k].src = o
      /\ up' \subseteq Instances /\ leftover' \subseteq Instances /\ restarted' \subseteq Orders
  <2>1. CASE UNCHANGED <<inst, up, leftover, restarted>>
    BY <2>1, InstSame DEF OwnInv, RuntimeType
  <2>2. ASSUME NEW st \in InstanceStatus \ {"unused"}, HasRow(i),
               inst' = [inst EXCEPT ![i].st = st]
        PROVE  /\ inst' \in [Instances -> InstRow] /\ InstancesKept
               /\ \A k \in Instances : inst'[k].st # "unused" => inst'[k].src \in Orders
               /\ \A k \in Instances : inst'[k] # inst[k] => k = i
               /\ inst'[i].src = o
    BY <1>4, <2>2, StatusLocal
  <2>3. ASSUME NEW st \in InstanceStatus \ {"unused"}, HasRow(i),
               inst' = [inst EXCEPT ![i].st = st],
               restarted' \subseteq restarted \cup {inst[i].src}, up' \subseteq up \cup {i},
               leftover \ {i} \subseteq leftover', leftover' \subseteq leftover \cup {i}
        PROVE  /\ \A k \in Instances : inst'[k] # inst[k] => inst'[k].src = o
               /\ \A k \in Instances : k \in up' => k \in up \/ inst'[k].src = o
               /\ \A k \in Instances : k \in leftover => k \in leftover' \/ inst'[k].src = o
               /\ up' \subseteq Instances /\ leftover' \subseteq Instances
               /\ restarted' \subseteq Orders
    <3>1. \A k \in Instances : k = i => inst'[k].src = o
      BY <2>2, <2>3
    <3>2. \A k \in Instances : inst'[k] # inst[k] => k = i
      BY <2>2, <2>3
    <3>3. /\ up \subseteq Instances /\ leftover \subseteq Instances
          /\ restarted \subseteq Orders /\ inst[i].src = o /\ i \in Instances
      BY <1>4, <2>3 DEF OwnInv, RuntimeType
    <3> HIDE DEF i
    <3> QED
      BY <2>3, <3>1, <3>2, <3>3
  <2> QED
    BY <1>1, <2>1, <2>2, <2>3
<1>6. RuntimeType'
  BY <1>1, <1>3, <1>5 DEF OwnInv, RuntimeType
<1>7. \E row : SetsRow(o, row) /\ row.inst = order[o].inst /\ row.st # "absent"
  <2> DEFINE row == [order[o] EXCEPT !.rs = "completed",
                       !.config.net = IF order[o].config.net = "none" THEN "none" ELSE "ready"]
  <2>1. row.inst = order[o].inst /\ row.st = order[o].st
    BY <1>2 DEF Row
  <2>2. \/ SetsRow(o, row) \/ SetsRow(o, [row EXCEPT !.st = "failed"])
        \/ SetsRow(o, [row EXCEPT !.st = "completed"])
    BY DEF NetworkReady, SetsRow
  <2>3. /\ [row EXCEPT !.st = "failed"].inst = row.inst
        /\ [row EXCEPT !.st = "failed"].st = "failed"
        /\ [row EXCEPT !.st = "completed"].inst = row.inst
        /\ [row EXCEPT !.st = "completed"].st = "completed"
    BY <1>2 DEF Row
  <2> HIDE DEF row
  <2> QED
    BY <1>1, <2>1, <2>2, <2>3
<1> HIDE DEF i
<1> QED
  BY <1>1, <1>3, <1>5, <1>6, <1>7, RowLocal

\* An order's runtime is cleaned up.
LEMMA CleanUpLocal ==
  ASSUME OwnInv, NEW o \in Orders, NEW b \in BOOLEAN, CleanUp(o, b)
  PROVE  Local(o)
<1> DEFINE i == order[o].inst
<1>1. /\ UNCHANGED <<restarted, job, disowned>> /\ Touch(o) /\ Exists(o) /\ up' \subseteq up
      /\ \/ UNCHANGED leftover
         \/ /\ HasRow(i)
            /\ leftover \ {i} \subseteq leftover' /\ leftover' \subseteq leftover \cup {i}
  BY DEF CleanUp, TakesDown, notes
<1>2. order[o] \in Row /\ order \in [Orders -> Row]
  BY DEF OwnInv, ClaimInv, RowsType
<1>3. overlapped \subseteq overlapped' /\ overlapped' \subseteq Orders
  BY <1>1, Touched DEF OwnInv
<1>4. HasRow(i) => i \in Instances /\ inst[i].src = o
  BY <1>2 DEF HasRow, OwnInv, Owned, Names, Row
<1>5. \/ UNCHANGED inst
      \/ HasRow(i) /\ \E st \in InstanceStatus \ {"unused"} : inst' = [inst EXCEPT ![i].st = st]
  BY DEF CleanUp, InstanceStatus
<1>6. /\ inst' \in [Instances -> InstRow] /\ InstancesKept
      /\ \A k \in Instances : inst'[k].st # "unused" => inst'[k].src \in Orders
      /\ \A k \in Instances : inst'[k] # inst[k] => inst'[k].src = o
  <2>1. CASE UNCHANGED inst
    BY <2>1, InstSame DEF OwnInv
  <2>2. ASSUME NEW st \in InstanceStatus \ {"unused"}, HasRow(i),
               inst' = [inst EXCEPT ![i].st = st]
        PROVE  /\ inst' \in [Instances -> InstRow] /\ InstancesKept
               /\ \A k \in Instances : inst'[k].st # "unused" => inst'[k].src \in Orders
               /\ \A k \in Instances : inst'[k] # inst[k] => k = i
               /\ inst'[i].src = o
    BY <1>4, <2>2, StatusLocal
  <2>3. ASSUME NEW st \in InstanceStatus \ {"unused"}, HasRow(i),
               inst' = [inst EXCEPT ![i].st = st]
        PROVE  \A k \in Instances : inst'[k] # inst[k] => inst'[k].src = o
    <3>1. \A k \in Instances : k = i => inst'[k].src = o
      BY <2>2, <2>3
    <3>2. \A k \in Instances : inst'[k] # inst[k] => k = i
      BY <2>2, <2>3
    <3> HIDE DEF i
    <3> QED
      BY <3>1, <3>2
  <2> QED
    BY <1>5, <2>1, <2>2, <2>3
<1>7. released \subseteq released' /\ released' \subseteq Orders \X Slots
  <2>1. order[o].config.slot \in Slots \cup {NoSlot}
    BY <1>2 DEF Row, Config
  <2>2. released' \in {released, released \cup {<<o, order[o].config.slot>>}}
    BY DEF CleanUp, Release
  <2>3. released' # released => order[o].config.slot # NoSlot
    BY DEF CleanUp, Release
  <2> QED
    BY <2>1, <2>2, <2>3 DEF OwnInv, RuntimeType
<1>8. RuntimeType'
  BY <1>1, <1>3, <1>4, <1>6, <1>7 DEF OwnInv, RuntimeType
<1>9. \E row : SetsRow(o, row) /\ row.inst = order[o].inst /\ row.st # "absent"
  <2> DEFINE row == [order[o] EXCEPT !.st = IF order[o].st = "materialized" THEN "completed"
                                                                           ELSE order[o].st]
  <2>1. SetsRow(o, row) \/ SetsRow(o, order[o])
    <3>1. order = [order EXCEPT ![o] = order[o]]
      BY <1>2
    <3> QED
      BY <3>1 DEF CleanUp, SetsRow
  <2>2. row.inst = order[o].inst /\ (order[o].st # "absent" => row.st # "absent")
    BY <1>2 DEF Row
  <2>3. order[o].st # "absent"
    BY <1>1 DEF Exists
  <2> HIDE DEF row
  <2> QED
    BY <2>1, <2>2, <2>3
<1>10. \A k \in Instances : k \in leftover => k \in leftover' \/ inst'[k].src = o
  BY <1>1, <1>4, <1>6 DEF InstancesKept, HasRow
<1> HIDE DEF i
<1> QED
  BY <1>1, <1>3, <1>6, <1>7, <1>8, <1>9, <1>10, RowLocal

\* A conversation makes an order with its instance: the handler goes on with both.
LEMMA PlaceConfirmedLocal ==
  ASSUME OwnInv, NEW j \in Jobs, NEW i \in Instances, NEW s \in Slots, PlaceConfirmed(j, i, s)
  PROVE  Local(job[j].o)
<1> DEFINE o == job[j].o
           row == [Fresh("computing", "deploy") EXCEPT !.config.slot = s]
           w == [job[j] EXCEPT !.op = "platform", !.made = TRUE, !.seen = row, !.inst = i]
<1>1. /\ SetsRow(o, row) /\ SetsJob(j, w)
      /\ SetsInst(i, [st |-> "waiting", src |-> o, slot |-> s])
      /\ job[j].op = "confirm" /\ inst[i].st = "unused"
      /\ UNCHANGED <<up, leftover, restarted, released, overlapped, disowned>>
  BY DEF PlaceConfirmed, SetsRow, SetsJob, SetsInst, notes
<1>2. row.inst = NoInstance /\ row.st = "pending"
  BY DEF Fresh
<1>3. job[j] \in Job /\ o \in Orders /\ \A k \in job[j].mine : k \in Instances /\ Names(inst, k, o)
  BY <1>1, JobFacts
<1> HIDE DEF row
<1>4. /\ w.op = "platform" /\ w.o = o /\ w.made = TRUE /\ w.seen = row /\ w.inst = i
      /\ w.mine = job[j].mine
  BY <1>3 DEF Job
<1> HIDE DEF w, o
<1>5. /\ inst' \in [Instances -> InstRow] /\ InstancesKept
      /\ \A k \in Instances : inst'[k].st # "unused" => inst'[k].src \in Orders
      /\ \A k \in Instances : inst'[k] # inst[k] => k = i
      /\ inst'[i].src = o /\ inst'[i].st = "waiting"
  BY <1>1, <1>3, InstNew DEF OwnInv
<1>6. RuntimeType'
  BY <1>1, <1>5 DEF OwnInv, RuntimeType
<1>7. RowsOwn /\ \A p \in Orders \ {o} : order'[p] = order[p]
  <2>1. Names(inst', row.inst, o)
    BY <1>2 DEF Names
  <2> QED
    BY <1>1, <1>2, <1>3, <2>1, RowWritten
<1>8. HasOwn(inst', w)
  <2>1. \A k \in w.mine : Names(inst', k, o)
    BY <1>3, <1>4, <1>5, NamesKept
  <2>2. i # NoInstance
    BY NoneAssumption
  <2> QED
    BY <1>2, <1>4, <1>5, <2>1, <2>2 DEF HasOwn, Names
<1>9. /\ Owned'
      /\ \A k \in Jobs, p \in Orders \ {o} : On(k, p) \/ On(k, p)' => job'[k] = job[k]
  <2>1. w.op # "none" /\ w.o = o
    BY <1>4
  <2>2. SetsJob(j, w) /\ job[j].o = o /\ InstancesKept
    BY <1>1, <1>5 DEF o
  <2> QED
    BY <1>7, <1>8, <2>1, <2>2, OneJobOwn
<1>10. OnlyOn(o)
  BY <1>1, <1>5, <1>7, <1>9 DEF OnlyOn
<1>11. Local(o)
  BY <1>5, <1>6, <1>9, <1>10 DEF Local
<1> QED
  BY <1>11 DEF o

\* Listing the orders writes those whose instance is gone, and nothing else.
LEMMA ReconcileRows ==
  ASSUME OwnInv, Reconcile
  PROVE  /\ RuntimeType' /\ InstancesKept /\ Owned'
         /\ UNCHANGED <<inst, up, leftover, restarted, released, job, disowned>>
         /\ overlapped \subseteq overlapped'
         /\ \A o \in Orders :
              \/ order'[o] = order[o]
              \/ /\ ~ HasRow(order[o].inst) /\ order[o].st = "materialized"
                 /\ order'[o] = [order[o] EXCEPT !.st = "cancelled", !.inst = NoInstance]
                 /\ o \notin overlapped' => Busy(o) = {}
<1>1. UNCHANGED <<inst, up, leftover, restarted, released, job, disowned>>
  BY DEF Reconcile, runtime, notes
<1>2. PICK orphans \in SUBSET Orders :
        /\ orphans = {o \in Orders : /\ order[o].st = "materialized"
                                     /\ order[o].inst # NoInstance
                                     /\ ~ HasRow(order[o].inst)}
        /\ order' = [o \in Orders |-> IF o \in orphans
             THEN [order[o] EXCEPT !.st = "cancelled", !.inst = NoInstance] ELSE order[o]]
        /\ overlapped' = overlapped \cup {o \in orphans : Busy(o) # {}}
  BY DEF Reconcile
<1>3. RuntimeType' /\ InstancesKept
  BY <1>1, <1>2, RuntimeSame DEF OwnInv, RuntimeType
<1>4. \A o \in Orders :
        \/ order'[o] = order[o]
        \/ /\ ~ HasRow(order[o].inst) /\ order[o].st = "materialized"
           /\ order'[o] = [order[o] EXCEPT !.st = "cancelled", !.inst = NoInstance]
           /\ o \notin overlapped' => Busy(o) = {}
  BY <1>2
<1>5. \A o \in Orders : order[o] \in Row
  BY DEF OwnInv, ClaimInv, RowsType
<1>6. RowsOwn
  BY <1>4, <1>5 DEF RowsOwn, Names, OwnInv, Owned, Exists, Row
<1>7. Owned'
  BY <1>1, <1>3, <1>6, OwnedStep
<1> QED
  BY <1>1, <1>2, <1>3, <1>4, <1>7

-----------------------------------------------------------------------------
(* Every step, and the types.                                                *)

\* A handler that goes on is a step on its order.
LEMMA ContinueLocal ==
  ASSUME OwnInv, NEW j \in Jobs, Continue(j)
  PROVE  Local(job[j].o) /\ job[j].op # "none"
<1>1. ASSUME NEW i \in Instances, Makes(j, i) PROVE Local(job[j].o) /\ job[j].op # "none"
  <2>1. job[j].op # "none"
    BY <1>1 DEF Makes, PlaceAuto, PlaceResult, PlaceMaterialized
  <2> QED
    BY <1>1, <2>1, MakesLocal
<1>2. CASE \/ LinkResult(j) \/ LinkInstance(j) \/ MaterializeFails(j)
           \/ (\E net \in BOOLEAN : RouteOnly(j, net)) \/ Cancel(j)
  BY <1>2, EndsLocal, EndsForm
<1>3. CASE Refuse(j) \/ AnswerAgain(j) \/ Drop(j)
  BY <1>3, EndLocal DEF Refuse, AnswerAgain, Drop, Operations
<1>4. CASE Delete(j)
  BY <1>4, DeleteLocal DEF Delete
<1>5. ASSUME NEW i \in Instances, NEW s \in Slots, PlaceConfirmed(j, i, s)
      PROVE  Local(job[j].o) /\ job[j].op # "none"
  BY <1>5, PlaceConfirmedLocal DEF PlaceConfirmed
<1> QED
  BY <1>1, <1>2, <1>3, <1>4, <1>5 DEF Continue, Makes

\* A request to an order, or to an instance, is a step on one order.
LEMMA RequestLocal ==
  ASSUME OwnInv
  PROVE  /\ \A o \in Orders : RouterRequest(o) \/ UserRequest(o) => Local(o)
         /\ \A i \in Instances : InstanceRequest(i) => Local(inst[i].src) /\ inst[i].src \in Orders
<1>1. ASSUME NEW o \in Orders, RouterRequest(o) PROVE Local(o)
  BY <1>1, QueueLocal, NetworkReadyLocal DEF RouterRequest
<1>2. ASSUME NEW o \in Orders, UserRequest(o) PROVE Local(o)
  <2>1. ASSUME NEW j \in Jobs, NEW op \in Handlers, Open(j, op, o) PROVE Local(o)
    BY <2>1, OpenLocal, HandlerAssumption
  <2>2. ASSUME NEW b \in BOOLEAN, CleanUp(o, b) PROVE Local(o)
    BY <2>2, CleanUpLocal
  <2>3. CASE \/ \E mode \in Modes : Confirm(o, mode)
             \/ CancelConversation(o) \/ Submit(o) \/ EditDraft(o) \/ DeleteConversation(o)
    BY <2>3, QueueLocal
  <2> QED
    BY <1>2, <2>1, <2>2, <2>3 DEF UserRequest
<1>3. ASSUME NEW i \in Instances, InstanceRequest(i)
      PROVE  Local(inst[i].src) /\ inst[i].src \in Orders
  <2>1. HasRow(i)
    BY <1>3 DEF InstanceRequest, Start, Stop, EndDue, DeleteInstance
  <2>2. inst[i].src \in Orders
    BY <2>1 DEF OwnInv, RuntimeType, HasRow
  <2> QED
    BY <1>3, <2>2, StartStopLocal, InstanceEndsLocal DEF InstanceRequest
<1> QED
  BY <1>1, <1>2, <1>3

\* What every step leaves of the types and the owners.
LEMMA OwnStep ==
  ASSUME OwnInv, [Next]_vars
  PROVE  RuntimeType' /\ InstancesKept /\ Owned'
<1>1. CASE \E j \in Jobs : Continue(j)
  BY <1>1, ContinueLocal DEF Local
<1>2. CASE Request
  <2>1. CASE \E o \in Orders : RouterRequest(o) \/ UserRequest(o)
    BY <2>1, RequestLocal DEF Local
  <2>2. CASE \E i \in Instances : InstanceRequest(i)
    BY <2>2, RequestLocal DEF Local
  <2>3. CASE Reconcile
    BY <2>3, ReconcileRows
  <2> QED
    BY <1>2, <2>1, <2>2, <2>3 DEF Request
<1>3. CASE UNCHANGED vars
  <2>1. UNCHANGED <<inst, up, leftover, restarted, order, job, released, overlapped, disowned>>
    BY <1>3 DEF vars, rows, runtime, notes
  <2>2. RuntimeType' /\ InstancesKept
    BY <2>1, RuntimeSame DEF OwnInv, RuntimeType
  <2> QED
    BY <2>1, <2>2, RowsSame, OwnedStep
<1> QED
  BY <1>1, <1>2, <1>3 DEF Next

\* Conversations keep their type.
LEMMA TalkStep ==
  ASSUME OwnInv, [Next]_vars
  PROVE  TalkType'
<1> USE DEF OwnInv
<1>1. ASSUME NEW o \in Orders, repeated' \in {repeated, repeated \cup {o}},
             \/ \E net \in BOOLEAN : SyncAfterRouting(o, net)
             \/ \E st \in ConversationStatus : SyncLinked(o, st)
             \/ Detach(o)
             \/ UNCHANGED conv
      PROVE  TalkType'
  BY <1>1, SyncType DEF TalkType
<1>2. ASSUME NEW o \in Orders, HasConversation(o), UNCHANGED repeated,
             \/ \E st \in ConversationStatus : SetConversation(o, [conv[o] EXCEPT !.st = st])
             \/ \E st \in ConversationStatus, b \in BOOLEAN :
                  SetConversation(o, [st |-> st, linked |-> b])
      PROVE  TalkType'
  <2>1. conv[o] \in ConvRow
    BY <1>2 DEF HasConversation, TalkType
  <2>2. \A st \in ConversationStatus, b \in BOOLEAN :
          [conv[o] EXCEPT !.st = st] \in ConvRow /\ [st |-> st, linked |-> b] \in ConvRow
    BY <2>1 DEF ConvRow
  <2> QED
    BY <1>2, <2>2, TalkRest DEF TalkType
<1>3. ASSUME NEW j \in Jobs, Continue(j) PROVE TalkType'
  <2>1. job[j].o \in Orders /\ job[j].net \in BOOLEAN
    BY <1>3, ContinueLocal, JobFacts
  <2>2. CASE LinkResult(j) \/ \E net \in BOOLEAN : RouteOnly(j, net)
    BY <1>1, <2>1, <2>2 DEF LinkResult, RouteOnly
  <2>3. CASE AnswerAgain(j)
    <3>1. (job[j].seen.config.net # "none") \in BOOLEAN /\ "submitted" \in ConversationStatus
      BY DEF ConversationStatus
    <3> QED
      BY <1>1, <2>1, <2>3, <3>1 DEF AnswerAgain
  <2>4. CASE Delete(j)
    BY <1>1, <2>1, <2>4 DEF Delete
  <2>5. CASE Cancel(j)
    <3>1. HasConversation(job[j].o) => conv[job[j].o].st \in ConversationStatus
      BY DEF HasConversation, TalkType, ConvRow
    <3>2. "cancelled" \in ConversationStatus
      BY DEF ConversationStatus
    <3> QED
      BY <1>1, <1>2, <2>1, <2>5, <3>1, <3>2 DEF Cancel
  <2>6. CASE UNCHANGED <<conv, repeated>>
    BY <1>1, <2>1, <2>6
  <2>9. ASSUME NEW i \in Instances, NEW s \in Slots, PlaceConfirmed(j, i, s) PROVE TalkType'
    <3>1. "awaiting_routing" \in ConversationStatus /\ TRUE \in BOOLEAN
      BY DEF ConversationStatus
    <3> QED
      BY <1>2, <2>1, <2>9, <3>1 DEF PlaceConfirmed
  <2>7. \A i \in Instances : Makes(j, i) => UNCHANGED <<conv, repeated>>
    BY DEF Makes, PlaceResult, PlaceAuto, PlaceMaterialized, CommitNew
  <2>8. Refuse(j) \/ LinkInstance(j) \/ MaterializeFails(j) \/ Drop(j) => UNCHANGED <<conv, repeated>>
    BY DEF Refuse, LinkInstance, MaterializeFails, Drop, rows
  <2> QED
    BY <1>3, <2>2, <2>3, <2>4, <2>5, <2>6, <2>7, <2>8, <2>9 DEF Continue, Makes
<1>4. ASSUME NEW o \in Orders, RouterRequest(o) PROVE TalkType'
  <2>1. {"awaiting_routing", "failed", "submitted"} \subseteq ConversationStatus
    BY DEF ConversationStatus
  <2>2. ASSUME NEW r \in Routers, Claim(r, o) \/ Requeue(r, o) \/ FailRouting(r, o)
        PROVE  TalkType'
    BY <1>1, <2>1, <2>2 DEF Claim, Requeue, FailRouting
  <2>3. ASSUME NEW late \in BOOLEAN, NetworkReady(o, late) PROVE TalkType'
    BY <1>1, <1>2, <2>1, <2>3 DEF NetworkReady
  <2> QED
    BY <1>4, <2>2, <2>3 DEF RouterRequest
<1>5. ASSUME NEW o \in Orders, UserRequest(o) PROVE TalkType'
  <2>1. {"absent", "drafting", "awaiting_routing", "submitted", "cancelled"} \subseteq ConversationStatus
    BY DEF ConversationStatus
  <2>2. ASSUME NEW j \in Jobs, NEW op \in Handlers, Open(j, op, o) PROVE TalkType'
    BY <1>1, <2>2 DEF Open, rows
  <2>3. ASSUME NEW b \in BOOLEAN, CleanUp(o, b) PROVE TalkType'
    BY <1>1, <2>3 DEF CleanUp
  <2>4. ASSUME NEW mode \in Modes, Confirm(o, mode) PROVE TalkType'
    BY <1>2, <2>1, <2>4 DEF Confirm
  <2>5. CASE CancelConversation(o) \/ Submit(o) \/ EditDraft(o) \/ DeleteConversation(o)
    BY <1>2, <2>1, <2>5 DEF CancelConversation, Submit, EditDraft, DeleteConversation
  <2> QED
    BY <1>5, <2>2, <2>3, <2>4, <2>5 DEF UserRequest
<1>6. CASE UNCHANGED <<conv, repeated>>
  BY <1>6 DEF TalkType
<1>7. \A i \in Instances : InstanceRequest(i) => UNCHANGED <<conv, repeated>>
  BY DEF InstanceRequest, Start, Stop, EndDue, DeleteInstance, rows
<1>8. Reconcile \/ UNCHANGED vars => UNCHANGED <<conv, repeated>>
  BY DEF Reconcile, vars, rows
<1> QED
  BY <1>3, <1>4, <1>5, <1>6, <1>7, <1>8 DEF Next, Request

\* The notes only grow, and are about orders.
LEMMA MetStep ==
  ASSUME OwnInv, [Next]_vars
  PROVE  MetType' /\ dropped \subseteq dropped' /\ met \subseteq met'
<1> USE DEF OwnInv
<1>1. \A o \in Orders : Leaves(o) \subseteq Orders /\ Beside(o) \subseteq Orders
  BY DEF Leaves, Beside
<1>2. ASSUME UNCHANGED notes PROVE MetType' /\ dropped \subseteq dropped' /\ met \subseteq met'
  BY <1>2 DEF MetType, notes
<1>3. ASSUME NEW o \in Orders, dropped' = dropped \cup Leaves(o), UNCHANGED met
      PROVE  MetType' /\ dropped \subseteq dropped' /\ met \subseteq met'
  BY <1>1, <1>3 DEF MetType
<1>4. ASSUME UNCHANGED <<dropped, met>>
      PROVE  MetType' /\ dropped \subseteq dropped' /\ met \subseteq met'
  BY <1>4 DEF MetType
<1>5. ASSUME NEW j \in Jobs, Continue(j)
      PROVE  MetType' /\ dropped \subseteq dropped' /\ met \subseteq met'
  <2>1. job[j].o \in Orders
    BY <1>5, ContinueLocal, JobFacts
  <2>2. CASE MaterializeFails(j)
    BY <1>3, <2>1, <2>2 DEF MaterializeFails
  <2>3. \A i \in Instances : Makes(j, i) => UNCHANGED <<dropped, met>>
    BY DEF Makes, PlaceResult, PlaceAuto, PlaceMaterialized, CommitNew
  <2>4. \A i \in Instances, s \in Slots : PlaceConfirmed(j, i, s) => UNCHANGED notes
    BY DEF PlaceConfirmed
  <2>5. ASSUME \/ Refuse(j) \/ AnswerAgain(j) \/ LinkResult(j) \/ LinkInstance(j) \/ Cancel(j)
               \/ Delete(j) \/ Drop(j) \/ \E net \in BOOLEAN : RouteOnly(j, net)
        PROVE  UNCHANGED notes
    BY <2>5 DEF Refuse, AnswerAgain, LinkResult, LinkInstance, Cancel, Delete, Drop, RouteOnly
  <2> QED
    BY <1>2, <1>4, <1>5, <2>2, <2>3, <2>4, <2>5 DEF Continue, Makes
<1>6. ASSUME NEW o \in Orders, RouterRequest(o) PROVE UNCHANGED notes
  BY <1>6 DEF RouterRequest, Claim, Requeue, FailRouting, NetworkReady
<1>7. ASSUME NEW o \in Orders, UserRequest(o)
      PROVE  MetType' /\ dropped \subseteq dropped' /\ met \subseteq met'
  <2>1. ASSUME NEW j \in Jobs, NEW op \in Handlers, Open(j, op, o)
        PROVE  MetType' /\ dropped \subseteq dropped' /\ met \subseteq met'
    <3>1. /\ UNCHANGED dropped
          /\ \/ UNCHANGED met
             \/ met' = met \cup ({o} \X Beside(o)) \cup (Beside(o) \X {o})
      BY <2>1 DEF Open
    <3> QED
      BY <1>1, <3>1 DEF MetType
  <2>2. CASE CancelConversation(o)
    BY <1>3, <2>2 DEF CancelConversation
  <2>3. CASE \/ \E b \in BOOLEAN : CleanUp(o, b)
             \/ \E mode \in Modes : Confirm(o, mode)
             \/ Submit(o) \/ EditDraft(o) \/ DeleteConversation(o)
    BY <1>2, <2>3 DEF CleanUp, Confirm, Submit, EditDraft, DeleteConversation
  <2> QED
    BY <1>7, <2>1, <2>2, <2>3 DEF UserRequest
<1>8. \A i \in Instances : InstanceRequest(i) => UNCHANGED notes
  BY DEF InstanceRequest, Start, Stop, EndDue, DeleteInstance
<1>9. Reconcile \/ UNCHANGED vars => UNCHANGED notes
  BY DEF Reconcile, vars
<1> QED
  BY <1>2, <1>5, <1>6, <1>7, <1>8, <1>9 DEF Next, Request

\* Only the containers of an instance that has a row come up.
LEMMA UpHasRow ==
  ASSUME OwnInv, [Next]_vars, NEW i \in Instances, i \in up'
  PROVE  i \in up \/ HasRow(i)
<1>1. ASSUME NEW k, StartEnds(k), HasRow(k) PROVE i \in up \/ HasRow(i)
  BY <1>1 DEF StartEnds
<1>2. ASSUME NEW j \in Jobs, Continue(j) PROVE i \in up
  <2>1. \A k \in Instances : Makes(j, k) => up' = up
    BY DEF Makes, PlaceAuto, PlaceResult, PlaceMaterialized, CommitNew
  <2>2. \A k \in Instances, s \in Slots : PlaceConfirmed(j, k, s) => up' = up
    BY DEF PlaceConfirmed
  <2> QED
    BY <1>2, <2>1, <2>2 DEF Continue, Makes, Refuse, AnswerAgain, LinkResult, LinkInstance,
              MaterializeFails, RouteOnly, Cancel, Delete, CleanedUp, Drop, runtime
<1>3. ASSUME NEW o \in Orders, RouterRequest(o) PROVE i \in up \/ HasRow(i)
  <2>1. ASSUME NEW late \in BOOLEAN, NetworkReady(o, late) PROVE i \in up \/ HasRow(i)
    BY <1>1, <2>1 DEF NetworkReady, runtime
  <2>2. ASSUME NEW r \in Routers, Claim(r, o) \/ Requeue(r, o) \/ FailRouting(r, o) PROVE i \in up
    BY <2>2 DEF Claim, Requeue, FailRouting, runtime
  <2> QED
    BY <1>3, <2>1, <2>2 DEF RouterRequest
<1>4. ASSUME NEW o \in Orders, UserRequest(o) PROVE i \in up
  BY <1>4 DEF UserRequest, Open, CleanUp, TakesDown, Confirm, CancelConversation, Submit,
              EditDraft, DeleteConversation, runtime
<1>5. ASSUME NEW k \in Instances, InstanceRequest(k) PROVE i \in up \/ HasRow(i)
  BY <1>1, <1>5 DEF InstanceRequest, Start, Stop, EndDue, DeleteInstance, TakesDown
<1>6. Reconcile \/ UNCHANGED vars => up' = up
  BY DEF Reconcile, vars, runtime
<1> QED
  BY <1>2, <1>3, <1>4, <1>5, <1>6 DEF Next, Request

\* At first nothing is made.
LEMMA OwnInit == Init => OwnInv
<1> SUFFICES ASSUME Init PROVE OwnInv
  OBVIOUS
<1>1. ClaimInv
  BY ClaimInit
<1>2. RuntimeType /\ TalkType /\ MetType /\ UpUsed
  BY DEF Init, RuntimeType, TalkType, MetType, UpUsed, InstRow, InstanceStatus, ConvRow, ConversationStatus
<1>3. \A o \in Orders : order[o].inst = NoInstance /\ (~ Exists(o) => order[o] = Absent)
  BY DEF Init, Fresh, Absent, Exists
<1>4. \A j \in Jobs : HasOwn(inst, job[j])
  BY DEF Init, HasOwn, Idle
<1> QED
  BY <1>1, <1>2, <1>3, <1>4 DEF OwnInv, Owned, Names

\* Every instance stays with its order, whoever writes.
LEMMA OwnNext == OwnInv /\ [Next]_vars => OwnInv'
<1> SUFFICES ASSUME OwnInv, [Next]_vars PROVE OwnInv'
  OBVIOUS
<1>1. ClaimInv'
  BY ClaimStep DEF OwnInv
<1>2. MetType'
  BY MetStep
<1>3. UpUsed'
  BY OwnStep, UpHasRow DEF UpUsed, InstancesKept, HasRow, RuntimeType, OwnInv
<1> QED
  BY <1>1, <1>2, <1>3, OwnStep, TalkStep DEF OwnInv

\* The setting, and how many requests are served.
CountType == internalAuto \in BOOLEAN /\ served \in 0 .. MaxRequest

\* Every action keeps the setting and the count in their types.
LEMMA CountStep == CountType /\ [Next]_vars => CountType'
  BY BoundAssumption DEF CountType, Next, vars

\* Rows, conversations, instances, claims and handlers have their types, whatever
\* order the handlers come in.
THEOREM OrderTypes == Spec => []TypeOK
<1>1. Init => CountType
  BY BoundAssumption DEF Init, CountType
<1>2. OwnInv /\ CountType => TypeOK
  BY DEF OwnInv, ClaimInv, RowsType, JobsType, RuntimeType, TalkType, MetType, CountType, TypeOK,
         InstRow, ConvRow, Job
<1> QED
  BY <1>1, <1>2, OwnInit, OwnNext, CountStep, PTL DEF Spec

-----------------------------------------------------------------------------
(* An order whose handlers came one after the other.                         *)

\* What was made for an order and not put aside for another one.
Kept(o) == Made(o) \ disowned

\* Its handler is alone and has seen the row as it is; what was made for it is
\* what the handler has made.
HandlersCalm(o) ==
  \A j \in Jobs : On(j, o) =>
    /\ job[j].seen = order[o]
    /\ \A k \in Jobs : On(k, o) => k = j
    /\ job[j].made => Kept(o) \subseteq {job[j].inst}

\* Otherwise it is what the row names, and a pending order has nothing.
RowCalm(o) ==
  /\ (\A j \in Jobs : On(j, o) => ~ job[j].made) => Kept(o) \subseteq {order[o].inst}
  /\ order[o].st = "pending" => order[o].inst = NoInstance

\* The instance's slot is the order's, its end was told, and its containers
\* are up while it runs, or were left over.
InstanceCalm(i, o) ==
  inst[i].src = o /\ i \notin disowned =>
    /\ HasRow(i) => inst[i].slot \in {NoSlot, order[o].config.slot}
    /\ inst[i].st = "purged" /\ inst[i].slot # NoSlot => <<o, inst[i].slot>> \in released
    /\ i \in up => inst[i].st \in {"running", "expired"} \/ i \in leftover

Calm(o) == HandlersCalm(o) /\ RowCalm(o) /\ \A i \in Instances : InstanceCalm(i, o)

CalmInv == OwnInv /\ \A o \in Orders \ overlapped : Calm(o)

\* A step on another order leaves it as calm as it was.
LEMMA CalmKept ==
  ASSUME OwnInv, NEW o, OnlyOn(o), InstancesKept, RuntimeType',
         NEW p \in Orders \ {o}, Calm(p)
  PROVE  Calm(p)'
<1>1. /\ order'[p] = order[p]
      /\ \A j \in Jobs : On(j, p) \/ On(j, p)' => job'[j] = job[j]
      /\ \A i \in Instances : inst'[i].src = p => inst'[i] = inst[i]
      /\ \A i \in Instances : inst'[i].src = p /\ i \in up' => i \in up
      /\ released \subseteq released' /\ disowned \subseteq disowned'
      /\ \A i \in Instances : inst'[i].src = p /\ i \in leftover /\ i \in up' => i \in leftover'
  BY DEF OnlyOn
<1>2. \A j \in Jobs : On(j, p)' <=> On(j, p)
  BY <1>1 DEF On
<1>3. Kept(p)' \subseteq Kept(p)
  BY <1>1 DEF Kept, Made, HasRow
<1>4. HandlersCalm(p)'
  BY <1>1, <1>2, <1>3 DEF Calm, HandlersCalm
<1>5. RowCalm(p)'
  BY <1>1, <1>2, <1>3 DEF Calm, RowCalm
<1>6. ASSUME NEW i \in Instances PROVE InstanceCalm(i, p)'
  BY <1>1 DEF Calm, InstanceCalm, HasRow
<1> QED
  BY <1>4, <1>5, <1>6 DEF Calm

\* Nobody is at work on an order that is touched and stays calm.
LEMMA TouchedCalm ==
  ASSUME OwnInv, NEW o \in Orders, Busy(o) = {}, UNCHANGED job, Calm(o),
         NEW row, order'[o] = row, row.st = "pending" => row.inst = NoInstance,
         Kept(o)' \subseteq Kept(o),
         row.inst = order[o].inst \/ Kept(o)' = {},
         \A i \in Instances : InstanceCalm(i, o)'
  PROVE  Calm(o)'
<1>1. \A j \in Jobs : ~ On(j, o) /\ ~ On(j, o)'
  BY DEF Busy, On
<1>2. Kept(o) \subseteq {order[o].inst}
  BY <1>1 DEF Calm, RowCalm
<1>3. RowCalm(o)'
  BY <1>2 DEF RowCalm
<1>4. HandlersCalm(o)'
  BY <1>1 DEF HandlersCalm
<1> QED
  BY <1>3, <1>4 DEF Calm

\* What such an order has, and that its release tells the instance's slot.
LEMMA CalmOwner ==
  ASSUME OwnInv, NEW o \in Orders, Busy(o) = {}, Calm(o), NEW i \in Instances, i \in Kept(o)
  PROVE  /\ Exists(o) /\ order[o].inst = i /\ inst[i].src = o /\ HasRow(i)
         /\ inst[i].slot \in {NoSlot, order[o].config.slot}
<1>1. \A j \in Jobs : ~ On(j, o)
  BY DEF Busy, On
<1>2. order[o].inst = i
  BY <1>1 DEF Calm, RowCalm
<1>3. Exists(o)
  BY <1>2, NoneAssumption DEF OwnInv, Owned, Absent, Fresh
<1> QED
  BY <1>2, <1>3 DEF Kept, Made, Calm, InstanceCalm

\* Instances that are not written stay calm.
LEMMA InstanceSame ==
  ASSUME OwnInv, NEW o \in Orders, NEW i \in Instances, InstanceCalm(i, o),
         inst'[i] = inst[i], i \in up' => i \in up,
         released \subseteq released', disowned \subseteq disowned',
         i \in leftover /\ i \in up' => i \in leftover',
         i \in Made(o) \ disowned' => order'[o].config.slot = order[o].config.slot
  PROVE  InstanceCalm(i, o)'
  BY DEF InstanceCalm, HasRow, Kept, Made

\* A router's or a user's request that writes no instance.
LEMMA QueueCalm ==
  ASSUME OwnInv, NEW o \in Orders, Calm(o), o \notin overlapped',
         \/ \E r \in Routers : Claim(r, o) \/ Requeue(r, o) \/ FailRouting(r, o)
         \/ \E mode \in Modes : Confirm(o, mode)
         \/ CancelConversation(o) \/ Submit(o) \/ EditDraft(o) \/ DeleteConversation(o)
  PROVE  Calm(o)'
<1>1. UNCHANGED <<inst, up, leftover, released, job, disowned>> /\ Touch(o)
  BY DEF Claim, Requeue, FailRouting, Confirm, CancelConversation, Submit, EditDraft,
         DeleteConversation, runtime, notes
<1>2. Busy(o) = {}
  BY <1>1, Touched DEF OwnInv
<1>3. order[o] \in Row /\ order \in [Orders -> Row]
  BY DEF OwnInv, ClaimInv, RowsType
<1>4. Kept(o)' = Kept(o)
  BY <1>1 DEF Kept, Made, HasRow
<1>5. \/ order'[o].inst = order[o].inst /\ order'[o].config = order[o].config
         /\ (order'[o].st = "pending" => order[o].st = "pending")
      \/ order'[o].inst = NoInstance /\ ~ Exists(o)
  <2>1. CASE order' = order
    BY <2>1
  <2>2. CASE \E r \in Routers : Claim(r, o) \/ Requeue(r, o) \/ FailRouting(r, o)
    <3>1. \/ order'[o] = [order[o] EXCEPT !.rs = "computing"]
          \/ order'[o] = [order[o] EXCEPT !.rs = "pending"]
          \/ order'[o] = [order[o] EXCEPT !.rs = "failed", !.st = "failed"]
      BY <1>3, <2>2 DEF Claim, Requeue, FailRouting
    <3> QED
      BY <1>3, <3>1 DEF Row
  <2>3. CASE \E mode \in Modes : Confirm(o, mode)
    BY <1>3, <2>3 DEF Confirm, Fresh
  <2>4. CASE CancelConversation(o) /\ order' # order
    <3>1. order'[o] = [order[o] EXCEPT !.st = "cancelled", !.rs = "cancelled"]
      BY <1>3, <2>4 DEF CancelConversation
    <3> QED
      BY <1>3, <3>1 DEF Row
  <2>5. CASE Submit(o) \/ EditDraft(o) \/ DeleteConversation(o)
    BY <2>1, <2>5 DEF Submit, EditDraft, DeleteConversation
  <2> QED
    BY <2>1, <2>2, <2>3, <2>4, <2>5
<1>6. ~ Exists(o) => Kept(o) = {}
  BY <1>2, CalmOwner DEF Kept, Made
<1>7. order'[o].st = "pending" => order'[o].inst = NoInstance
  BY <1>5 DEF Calm, RowCalm
<1>8. \A i \in Instances : InstanceCalm(i, o)'
  BY <1>1, <1>5, <1>6, InstanceSame DEF Calm, Kept
<1> QED
  BY <1>1, <1>2, <1>4, <1>5, <1>6, <1>7, <1>8, TouchedCalm

\* The instance of a calm order gets another status; a purge is told.
LEMMA StatusCalm ==
  ASSUME OwnInv, NEW i \in Instances, HasRow(i), NEW st \in InstanceStatus \ {"unused"},
         inst' = [inst EXCEPT ![i].st = st],
         NEW o \in Orders, o = inst[i].src, Calm(o),
         released \subseteq released', disowned \subseteq disowned',
         leftover \ {i} \subseteq leftover',
         \A k \in Instances \ {i} : k \in up' => k \in up,
         order'[o].config.slot = order[o].config.slot,
         st = "purged" /\ i \notin disowned /\ inst[i].slot # NoSlot => <<o, inst[i].slot>> \in released',
         i \in up' /\ i \notin disowned => st \in {"running", "expired"} \/ i \in leftover'
  PROVE  /\ \A k \in Instances : InstanceCalm(k, o)'
         /\ Kept(o)' \subseteq Kept(o) /\ (st = "purged" => i \notin Kept(o)')
<1>1. /\ InstancesKept /\ inst'[i].src = inst[i].src /\ inst'[i].st = st
      /\ inst'[i].slot = inst[i].slot
      /\ \A k \in Instances \ {i} : inst'[k] = inst[k]
  BY StatusLocal
<1>2. InstanceCalm(i, o)'
  BY <1>1, NoneAssumption DEF InstanceCalm, HasRow, Calm
<1>3. \A k \in Instances \ {i} : InstanceCalm(k, o)'
  BY <1>1, InstanceSame DEF Calm
<1>4. Kept(o)' \subseteq Kept(o) /\ (st = "purged" => i \notin Kept(o)')
  BY <1>1 DEF Kept, Made, HasRow
<1> QED
  BY <1>2, <1>3, <1>4

\* Starts and stops keep the order calm.
LEMMA StartStopCalm ==
  ASSUME OwnInv, NEW i \in Instances, Start(i) \/ Stop(i),
         NEW o \in Orders, o = inst[i].src, Calm(o), o \notin overlapped'
  PROVE  Calm(o)'
<1>1. /\ HasRow(i) /\ UNCHANGED <<order, job, disowned>> /\ TouchInstance(i)
      /\ UNCHANGED released \/ ReleaseInstance(i)
      /\ \A k \in Instances \ {i} : k \in up' => k \in up
      /\ leftover \ {i} \subseteq leftover'
  BY DEF Start, Stop, TakesDown, rows, StartEnds, notes
<1>2. PICK st \in InstanceStatus \ {"unused", "purged"} : inst' = [inst EXCEPT ![i].st = st]
  <2>1. CASE UNCHANGED inst
    <3>1. /\ inst[i].st \in InstanceStatus \ {"unused", "purged"}
          /\ inst' = [inst EXCEPT ![i].st = inst[i].st]
      BY <1>1, <2>1 DEF OwnInv, RuntimeType, InstRow, HasRow
    <3> QED
      BY <3>1
  <2> QED
    BY <2>1 DEF Start, Stop, StartEnds, InstanceStatus
<1>3. Busy(o) = {}
  BY <1>1, TouchedInstance DEF OwnInv
<1>4. released \subseteq released'
  BY <1>1, ReleaseType
<1>5. i \in up' /\ i \notin disowned => st \in {"running", "expired"} \/ i \in leftover'
  <2>1. inst'[i].st = st
    BY <1>1, <1>2, StatusLocal
  <2>2. i \in up /\ i \notin disowned => inst[i].st \in {"running", "expired"} \/ i \in leftover
    BY DEF Calm, InstanceCalm
  <2>3. CASE Start(i)
    <3>1. \/ inst' = [inst EXCEPT ![i].st = "running"]
          \/ i \in up' => i \in leftover'
      BY <2>3 DEF Start, StartEnds
    <3>2. inst' = [inst EXCEPT ![i].st = "running"] => inst'[i].st = "running"
      BY DEF OwnInv, RuntimeType, InstRow
    <3> QED
      BY <2>1, <3>1, <3>2
  <2>4. CASE Stop(i)
    <3>1. \/ inst[i].st \in {"waiting", "stopped"} /\ UNCHANGED <<inst, up, leftover>>
          \/ i \in up' => i \in leftover'
      BY <2>4 DEF Stop, TakesDown
    <3> QED
      BY <2>1, <2>2, <3>1
  <2> QED
    BY <2>3, <2>4
<1>6. /\ \A k \in Instances : InstanceCalm(k, o)'
      /\ Kept(o)' \subseteq Kept(o)
  BY <1>1, <1>2, <1>4, <1>5, StatusCalm
<1>7. order[o].st = "pending" => order[o].inst = NoInstance
  BY DEF Calm, RowCalm
<1> QED
  BY <1>1, <1>3, <1>6, <1>7, TouchedCalm

\* The end of a schedule, or of an instance, tells the router of the slot.
LEMMA InstanceEndsCalm ==
  ASSUME OwnInv, NEW i \in Instances, NEW b \in BOOLEAN, EndDue(i, b) \/ DeleteInstance(i),
         NEW o \in Orders, o = inst[i].src, Calm(o), o \notin overlapped'
  PROVE  Calm(o)'
<1>1. /\ HasRow(i) /\ UNCHANGED job /\ TouchInstance(i) /\ ReleaseInstance(i)
      /\ leftover \ {i} \subseteq leftover' /\ up' \subseteq up /\ UNCHANGED disowned
      /\ i \in up' => i \in leftover'
  BY DEF EndDue, DeleteInstance, TakesDown, notes
<1>2. PICK st \in InstanceStatus \ {"unused"} :
        inst' = [inst EXCEPT ![i].st = st] /\ (DeleteInstance(i) => st = "purged")
  BY DEF EndDue, DeleteInstance, InstanceStatus
<1>3. Busy(o) = {}
  BY <1>1, TouchedInstance DEF OwnInv
<1>4. released \subseteq released'
  BY <1>1, ReleaseType
<1>5. order[o] \in Row /\ order \in [Orders -> Row]
  BY DEF OwnInv, ClaimInv, RowsType
<1>6. i \notin disowned => /\ Exists(o) /\ order[o].inst = i
                          /\ inst[i].slot \in {NoSlot, order[o].config.slot}
  BY <1>1, <1>3, CalmOwner DEF Kept, Made
<1>7. i \notin disowned /\ inst[i].slot # NoSlot => <<o, inst[i].slot>> \in released'
  BY <1>1, <1>6 DEF ReleaseInstance, Owners
<1>8. PICK row \in Row :
        /\ order'[o] = row /\ row.config = order[o].config
        /\ row.st = "pending" => order[o].st = "pending"
        /\ row.inst = order[o].inst \/ (row.inst = NoInstance /\ DeleteInstance(i) /\ order[o].inst = i)
  <2>1. CASE EndDue(i, b)
    <3>1. order'[o] = IF o \in Owners(i) /\ order[o].st = "materialized"
                      THEN [order[o] EXCEPT !.st = "completed"] ELSE order[o]
      BY <2>1 DEF EndDue
    <3>2. /\ [order[o] EXCEPT !.st = "completed"] \in Row
          /\ [order[o] EXCEPT !.st = "completed"].config = order[o].config
          /\ [order[o] EXCEPT !.st = "completed"].inst = order[o].inst
          /\ [order[o] EXCEPT !.st = "completed"].st = "completed"
      BY <1>5 DEF Row, OrderStatus
    <3> QED
      BY <1>5, <3>1, <3>2
  <2>2. CASE DeleteInstance(i)
    <3>1. order'[o] = IF o \in Owners(i)
                      THEN [order[o] EXCEPT !.st = "cancelled", !.inst = NoInstance]
                      ELSE order[o]
      BY <2>2 DEF DeleteInstance
    <3>2. /\ [order[o] EXCEPT !.st = "cancelled", !.inst = NoInstance] \in Row
          /\ [order[o] EXCEPT !.st = "cancelled", !.inst = NoInstance].config = order[o].config
          /\ [order[o] EXCEPT !.st = "cancelled", !.inst = NoInstance].inst = NoInstance
          /\ [order[o] EXCEPT !.st = "cancelled", !.inst = NoInstance].st = "cancelled"
      BY <1>5 DEF Row, OrderStatus
    <3> QED
      BY <1>5, <2>2, <3>1, <3>2 DEF Owners
  <2> QED
    BY <2>1, <2>2
<1>9. /\ \A k \in Instances : InstanceCalm(k, o)'
      /\ Kept(o)' \subseteq Kept(o) /\ (st = "purged" => i \notin Kept(o)')
  BY <1>1, <1>2, <1>4, <1>7, <1>8, StatusCalm
<1>10. Kept(o) \subseteq {order[o].inst}
  BY <1>3, CalmOwner DEF Kept, Made
<1>11. row.inst = order[o].inst \/ Kept(o)' = {}
  BY <1>2, <1>8, <1>9, <1>10
<1>12. row.st = "pending" => row.inst = NoInstance
  BY <1>8 DEF Calm, RowCalm
<1> QED
  BY <1>1, <1>3, <1>8, <1>9, <1>11, <1>12, TouchedCalm

\* The network is ready: the instance may start, or its time has passed.
LEMMA NetworkReadyCalm ==
  ASSUME OwnInv, NEW o \in Orders, NEW late \in BOOLEAN, NetworkReady(o, late), Calm(o),
         o \notin overlapped'
  PROVE  Calm(o)'
<1>1. /\ UNCHANGED <<released, job, disowned>> /\ Touch(o)
  BY DEF NetworkReady, notes
<1>2. order[o] \in Row /\ order \in [Orders -> Row]
  BY DEF OwnInv, ClaimInv, RowsType
<1>3. Busy(o) = {}
  BY <1>1, Touched DEF OwnInv
<1>4. PICK row : /\ order'[o] = row /\ row.inst = order[o].inst
                 /\ row.config.slot = order[o].config.slot
                 /\ row.st = "pending" => order[o].st = "pending"
  <2> DEFINE row == [order[o] EXCEPT !.rs = "completed",
                       !.config.net = IF order[o].config.net = "none" THEN "none" ELSE "ready"]
  <2>1. /\ row.inst = order[o].inst /\ row.st = order[o].st
        /\ row.config.slot = order[o].config.slot
    BY <1>2 DEF Row, Config
  <2>2. order'[o] \in {row, [row EXCEPT !.st = "failed"], [row EXCEPT !.st = "completed"]}
    BY <1>2 DEF NetworkReady
  <2>3. /\ [row EXCEPT !.st = "failed"].inst = row.inst
        /\ [row EXCEPT !.st = "failed"].config = row.config
        /\ [row EXCEPT !.st = "failed"].st = "failed"
        /\ [row EXCEPT !.st = "completed"].inst = row.inst
        /\ [row EXCEPT !.st = "completed"].config = row.config
        /\ [row EXCEPT !.st = "completed"].st = "completed"
    BY <1>2 DEF Row
  <2> HIDE DEF row
  <2> QED
    BY <2>1, <2>2, <2>3
<1>5. \/ UNCHANGED <<inst, up, leftover>>
      \/ /\ HasRow(order[o].inst)
         /\ leftover \ {order[o].inst} \subseteq leftover'
         /\ \A k \in Instances \ {order[o].inst} : k \in up' => k \in up
         /\ \E st \in InstanceStatus \ {"unused", "purged"} :
              /\ inst' = [inst EXCEPT ![order[o].inst].st = st]
              /\ order[o].inst \in up' => st \in {"running", "expired"} \/ order[o].inst \in leftover'
  <2>1. CASE HasRow(order[o].inst) /\ inst' = [inst EXCEPT ![order[o].inst].st = "expired"]
             /\ UNCHANGED <<up, leftover>>
    BY <2>1 DEF InstanceStatus
  <2>2. CASE HasRow(order[o].inst) /\ StartEnds(order[o].inst)
    BY <2>2 DEF InstanceStatus, StartEnds
  <2> QED
    BY <2>1, <2>2 DEF NetworkReady, runtime
<1>6. HasRow(order[o].inst) => order[o].inst \in Instances /\ inst[order[o].inst].src = o
  BY <1>2 DEF HasRow, OwnInv, Owned, Names, Row
<1>7. /\ \A k \in Instances : InstanceCalm(k, o)'
      /\ Kept(o)' \subseteq Kept(o)
  <2>1. CASE UNCHANGED <<inst, up, leftover>>
    <3>1. \A k \in Instances : InstanceCalm(k, o)'
      BY <1>1, <1>4, <2>1, InstanceSame DEF Calm
    <3> QED
      BY <1>1, <2>1, <3>1 DEF Kept, Made, HasRow
  <2>2. ASSUME NEW i \in Instances, i = order[o].inst, HasRow(i),
               leftover \ {i} \subseteq leftover',
               \A k \in Instances \ {i} : k \in up' => k \in up,
               NEW st \in InstanceStatus \ {"unused", "purged"},
               inst' = [inst EXCEPT ![i].st = st],
               i \in up' => st \in {"running", "expired"} \/ i \in leftover'
        PROVE  (\A k \in Instances : InstanceCalm(k, o)') /\ Kept(o)' \subseteq Kept(o)
    <3>1. o = inst[i].src
      BY <1>6, <2>2
    <3> QED
      BY <1>1, <1>4, <2>2, <3>1, StatusCalm
  <2> QED
    BY <1>5, <1>6, <2>1, <2>2
<1>8. row.st = "pending" => row.inst = NoInstance
  BY <1>4 DEF Calm, RowCalm
<1> QED
  BY <1>1, <1>3, <1>4, <1>7, <1>8, TouchedCalm

\* A clean-up tells the router of the slot when the instance's row goes.
LEMMA CleanUpCalm ==
  ASSUME OwnInv, NEW o \in Orders, NEW b \in BOOLEAN, CleanUp(o, b), Calm(o),
         o \notin overlapped'
  PROVE  Calm(o)'
<1>1. /\ UNCHANGED <<job, disowned>> /\ Touch(o) /\ up' \subseteq up
  BY DEF CleanUp, TakesDown, notes
<1>2. order[o] \in Row /\ order \in [Orders -> Row]
  BY DEF OwnInv, ClaimInv, RowsType
<1>3. Busy(o) = {}
  BY <1>1, Touched DEF OwnInv
<1>4. PICK row : /\ order'[o] = row /\ row.inst = order[o].inst
                 /\ row.config = order[o].config
                 /\ row.st = "pending" => order[o].st = "pending"
  <2>1. \/ order'[o] = order[o]
        \/ order'[o] = [order[o] EXCEPT !.st = IF order[o].st = "materialized"
                                               THEN "completed" ELSE order[o].st]
    BY <1>2 DEF CleanUp
  <2> QED
    BY <1>2, <2>1 DEF Row
<1>5. HasRow(order[o].inst) => order[o].inst \in Instances /\ inst[order[o].inst].src = o
  BY <1>2 DEF HasRow, OwnInv, Owned, Names, Row
<1>6. \/ UNCHANGED <<inst, leftover>> /\ released' = released
      \/ /\ HasRow(order[o].inst) /\ leftover \ {order[o].inst} \subseteq leftover'
         /\ order[o].inst \in up' => order[o].inst \in leftover'
         /\ \E st \in InstanceStatus \ {"unused"} :
              /\ inst' = [inst EXCEPT ![order[o].inst].st = st]
              /\ \/ st # "purged" /\ released' = released
                 \/ Release(o, order[o].config.slot) /\ order[o].inst \notin up'
  <2>1. CASE UNCHANGED inst /\ HasRow(order[o].inst)
    <3>1. inst[order[o].inst].st \in InstanceStatus \ {"unused", "purged"}
      BY <1>5, <2>1 DEF OwnInv, RuntimeType, InstRow, HasRow
    <3>2. inst' = [inst EXCEPT ![order[o].inst].st = inst[order[o].inst].st]
      BY <1>5, <2>1 DEF OwnInv, RuntimeType, InstRow
    <3> QED
      BY <2>1, <3>1, <3>2 DEF CleanUp, TakesDown
  <2>2. CASE UNCHANGED <<inst, leftover, released>>
    BY <2>2
  <2>3. CASE /\ HasRow(order[o].inst) /\ inst' = [inst EXCEPT ![order[o].inst].st = "purged"]
             /\ up' = up \ {order[o].inst} /\ leftover' = leftover \ {order[o].inst}
             /\ Release(o, order[o].config.slot)
    <3>1. "purged" \in InstanceStatus \ {"unused"}
      BY DEF InstanceStatus
    <3> QED
      BY <2>3, <3>1
  <2>4. CASE /\ HasRow(order[o].inst) /\ inst' = [inst EXCEPT ![order[o].inst].st = "stopped"]
             /\ TakesDown(order[o].inst) /\ released' = released
    <3>1. "stopped" \in InstanceStatus \ {"unused"} /\ "stopped" # "purged"
      BY DEF InstanceStatus
    <3>2. /\ leftover \ {order[o].inst} \subseteq leftover'
          /\ order[o].inst \in up' => order[o].inst \in leftover'
      BY <2>4 DEF TakesDown
    <3> QED
      BY <2>4, <3>1, <3>2
  <2> QED
    BY <2>1, <2>2, <2>3, <2>4 DEF CleanUp
<1>7. /\ \A k \in Instances : InstanceCalm(k, o)'
      /\ Kept(o)' \subseteq Kept(o)
  <2>1. CASE UNCHANGED <<inst, leftover>> /\ released' = released
    <3>1. \A k \in Instances : InstanceCalm(k, o)'
      BY <1>1, <1>4, <2>1, InstanceSame DEF Calm
    <3> QED
      BY <1>1, <2>1, <3>1 DEF Kept, Made, HasRow
  <2>2. ASSUME NEW i \in Instances, i = order[o].inst, HasRow(i),
               leftover \ {i} \subseteq leftover', i \in up' => i \in leftover',
               NEW st \in InstanceStatus \ {"unused"},
               inst' = [inst EXCEPT ![i].st = st],
               \/ st # "purged" /\ released' = released
               \/ Release(o, order[o].config.slot) /\ i \notin up'
        PROVE  (\A k \in Instances : InstanceCalm(k, o)') /\ Kept(o)' \subseteq Kept(o)
    <3>1. o = inst[i].src
      BY <1>5, <2>2
    <3>2. i \notin disowned => inst[i].slot \in {NoSlot, order[o].config.slot}
      BY <2>2, <3>1 DEF Calm, InstanceCalm
    <3>3. /\ released \subseteq released'
          /\ st = "purged" /\ i \notin disowned =>
               /\ inst[i].slot # NoSlot => <<o, inst[i].slot>> \in released'
               /\ i \notin up'
      BY <2>2, <3>2 DEF Release
    <3>4. order'[o].config.slot = order[o].config.slot
      BY <1>4
    <3>5. disowned \subseteq disowned' /\ \A k \in Instances \ {i} : k \in up' => k \in up
      BY <1>1
    <3> QED
      BY <2>2, <3>1, <3>3, <3>4, <3>5, StatusCalm
  <2> QED
    BY <1>5, <1>6, <2>1, <2>2
<1>8. row.st = "pending" => row.inst = NoInstance
  BY <1>4 DEF Calm, RowCalm
<1> QED
  BY <1>1, <1>3, <1>4, <1>7, <1>8, TouchedCalm

\* An order whose instance is gone is cancelled in the list.
LEMMA ReconcileCalm ==
  ASSUME OwnInv, Reconcile, NEW o \in Orders, Calm(o), o \notin overlapped'
  PROVE  Calm(o)'
<1>1. /\ UNCHANGED <<inst, up, leftover, released, job, disowned>>
      /\ \/ order'[o] = order[o]
         \/ /\ ~ HasRow(order[o].inst)
            /\ order'[o] = [order[o] EXCEPT !.st = "cancelled", !.inst = NoInstance]
            /\ Busy(o) = {}
  BY ReconcileRows
<1>2. order[o] \in Row
  BY DEF OwnInv, ClaimInv, RowsType
<1>3. Kept(o)' = Kept(o) /\ \A j \in Jobs : On(j, o)' = On(j, o)
  BY <1>1 DEF Kept, Made, HasRow, On
<1>4. CASE order'[o] = order[o]
  <2>1. HandlersCalm(o)' /\ RowCalm(o)'
    BY <1>1, <1>3, <1>4 DEF Calm, HandlersCalm, RowCalm
  <2>2. \A i \in Instances : InstanceCalm(i, o)'
    BY <1>1, <1>4, InstanceSame DEF Calm
  <2> QED
    BY <2>1, <2>2 DEF Calm
<1>5. CASE /\ ~ HasRow(order[o].inst) /\ Busy(o) = {}
           /\ order'[o] = [order[o] EXCEPT !.st = "cancelled", !.inst = NoInstance]
  <2>1. order'[o].st = "cancelled" /\ order'[o].config = order[o].config
    BY <1>2, <1>5 DEF Row
  <2>2. Kept(o) = {}
    BY <1>5, CalmOwner DEF Kept, Made
  <2>3. \A i \in Instances : InstanceCalm(i, o)'
    BY <1>1, <2>1, InstanceSame DEF Calm
  <2>4. Kept(o)' = {} /\ order'[o].st # "pending"
    BY <1>3, <2>1, <2>2
  <2> QED
    BY <1>1, <1>3, <1>5, <2>3, <2>4, TouchedCalm
<1> QED
  BY <1>1, <1>4, <1>5

\* A handler that opens alone has seen the row as it is.
LEMMA OpenCalm ==
  ASSUME OwnInv, NEW j \in Jobs, NEW op \in Operations, NEW o \in Orders, Open(j, op, o),
         Calm(o), o \notin overlapped'
  PROVE  Calm(o)'
<1> DEFINE busy == IF op \in Placers THEN {s \in Slots : ~ SlotFree(o, s)} ELSE {}
           w == [Idle EXCEPT !.op = op, !.o = o, !.seen = order[o], !.mine = Made(o),
                             !.taken = busy]
<1> HIDE DEF busy
<1>1. /\ job'[j] = w /\ \A k \in Jobs \ {j} : job'[k] = job[k]
      /\ UNCHANGED <<order, inst, up, leftover, released, disowned>> /\ Busy(o) = {}
  BY DEF Open, rows, runtime, OwnInv, ClaimInv, JobsType, Touch, busy
<1>2. w.op = op /\ w.o = o /\ w.seen = order[o] /\ w.made = FALSE
  BY DEF Idle
<1> HIDE DEF w
<1>3. Kept(o)' = Kept(o)
  BY <1>1 DEF Kept, Made, HasRow
<1>4. \A k \in Jobs : On(k, o)' => k = j
  BY <1>1 DEF On, Busy
<1>5. Kept(o) \subseteq {order[o].inst} /\ (order[o].st = "pending" => order[o].inst = NoInstance)
  BY <1>1 DEF Calm, RowCalm, On, Busy
<1>6. HandlersCalm(o)'
  BY <1>1, <1>2, <1>3, <1>4 DEF HandlersCalm
<1>7. RowCalm(o)'
  BY <1>1, <1>3, <1>5 DEF RowCalm
<1>8. \A i \in Instances : InstanceCalm(i, o)'
  BY <1>1, InstanceSame DEF Calm
<1> QED
  BY <1>6, <1>7, <1>8 DEF Calm

\* What the only handler of a calm order knows.
LEMMA AloneCalm ==
  ASSUME NEW j \in Jobs, job[j].op # "none", Calm(job[j].o)
  PROVE  /\ job[j].seen = order[job[j].o]
         /\ \A k \in Jobs : On(k, job[j].o) => k = j
         /\ job[j].made => Kept(job[j].o) \subseteq {job[j].inst}
         /\ ~ job[j].made => Kept(job[j].o) \subseteq {order[job[j].o].inst}
         /\ order[job[j].o].st = "pending" => order[job[j].o].inst = NoInstance
<1>1. On(j, job[j].o)
  BY DEF On
<1> QED
  BY <1>1 DEF Calm, HandlersCalm, RowCalm

\* The only handler ends.
LEMMA EndedCalm ==
  ASSUME OwnInv, NEW j \in Jobs, job[j].op # "none", NEW o \in Orders, o = job[j].o,
         Calm(o), End(j), Kept(o)' \subseteq {order'[o].inst},
         order'[o].st = "pending" => order'[o].inst = NoInstance,
         \A i \in Instances : InstanceCalm(i, o)'
  PROVE  Calm(o)'
<1>1. job'[j] = Idle /\ \A k \in Jobs \ {j} : job'[k] = job[k]
  BY DEF End, OwnInv, ClaimInv, JobsType
<1>2. \A k \in Jobs : ~ On(k, o)'
  BY <1>1, AloneCalm DEF On, Idle
<1>3. HandlersCalm(o)'
  BY <1>2 DEF HandlersCalm
<1>4. RowCalm(o)'
  BY DEF RowCalm
<1> QED
  BY <1>3, <1>4 DEF Calm

\* The only handler ends without having written its order.
LEMMA EndCalm ==
  ASSUME OwnInv, NEW j \in Jobs, Refuse(j) \/ AnswerAgain(j) \/ Drop(j),
         NEW o \in Orders, o = job[j].o, Calm(o), o \notin overlapped'
  PROVE  Calm(o)'
<1>1. /\ job[j].op # "none" /\ End(j)
      /\ UNCHANGED <<order, inst, released, disowned>> /\ up' \subseteq up
      /\ leftover \cap up' \subseteq leftover'
      /\ Refuse(j) \/ AnswerAgain(j)
  BY DEF Refuse, AnswerAgain, Drop, rows, runtime, notes, Operations
<1>2. ~ job[j].made
  BY <1>1, JobFacts DEF Refuse, AnswerAgain
<1>3. Kept(o)' = Kept(o)
  BY <1>1 DEF Kept, Made, HasRow
<1>4. Kept(o)' \subseteq {order'[o].inst} /\ (order'[o].st = "pending" => order'[o].inst = NoInstance)
  BY <1>1, <1>2, <1>3, AloneCalm
<1>5. \A i \in Instances : InstanceCalm(i, o)'
  BY <1>1, InstanceSame DEF Calm
<1> QED
  BY <1>1, <1>4, <1>5, EndedCalm

\* The only handler ends with a commit.
LEMMA EndsCalm ==
  ASSUME OwnInv, NEW j \in Jobs,
         \/ LinkResult(j) \/ LinkInstance(j) \/ MaterializeFails(j)
         \/ (\E net \in BOOLEAN : RouteOnly(j, net)) \/ Cancel(j),
         NEW o \in Orders, o = job[j].o, Calm(o)
  PROVE  Calm(o)'
<1>1. /\ job[j].op # "none" /\ End(j) /\ UNCHANGED <<inst, up, leftover, disowned>>
      /\ released \subseteq released'
  BY EndsForm
<1>2. PICK new \in Row, flagged \in SUBSET {"config"} : EndsWith(j, new, flagged)
  BY EndsForm
<1>3. job[j].seen \in Row /\ job[j].seen = order[o]
  BY <1>1, JobFacts, AloneCalm
<1>4. Commits(o, job[j].seen, new, flagged)
  BY <1>2 DEF EndsWith
<1>5. PICK row \in Row : SetsRow(o, row) /\ (job[j].seen = order[o] => row = new)
  BY <1>3, <1>4, MergedRow
<1>6. order'[o] = new
  BY <1>3, <1>5 DEF SetsRow, OwnInv, ClaimInv, RowsType
<1>7. /\ new.st = "pending" => new.inst = NoInstance
      /\ new.config.slot = order[o].config.slot
      /\ new.inst = IF job[j].made THEN job[j].inst ELSE order[o].inst
  BY <1>2, <1>3 DEF EndsWith
<1>8. Kept(o)' = Kept(o)
  BY <1>1 DEF Kept, Made, HasRow
<1>9. Kept(o) \subseteq {new.inst}
  BY <1>1, <1>7, AloneCalm
<1>10. \A i \in Instances : InstanceCalm(i, o)'
  BY <1>1, <1>6, <1>7, InstanceSame DEF Calm
<1> QED
  BY <1>1, <1>6, <1>7, <1>8, <1>9, <1>10, EndedCalm

\* The only handler makes an instance: its order had none.
LEMMA MakesCalm ==
  ASSUME OwnInv, NEW j \in Jobs, NEW i \in Instances, Makes(j, i),
         NEW o \in Orders, o = job[j].o, Calm(o)
  PROVE  Calm(o)'
<1>1. /\ job[j].op \in {"result", "platform", "auto", "materialize"} /\ ~ job[j].made
      /\ job[j].op \in {"result", "platform"} => job[j].seen.inst = NoInstance
  BY MakesForm
<1>2. PICK new \in Row, flagged \in SUBSET {"config"}, net \in BOOLEAN :
        MakesWith(j, i, new, flagged, net)
  BY MakesForm
<1>3. /\ job[j].seen \in Row /\ job[j].seen = order[o] /\ job[j] \in Job
      /\ order[o].st = "pending" => order[o].inst = NoInstance
      /\ \A k \in Jobs : On(k, o) => k = j
  BY <1>1, JobFacts, AloneCalm
<1>4. Made(o) \subseteq disowned'
  <2>1. CASE job[j].op \in {"auto", "materialize"}
    BY <1>2, <2>1 DEF MakesWith, CommitNew
  <2>2. CASE job[j].op \in {"result", "platform"}
    <3>1. Kept(o) \subseteq {NoInstance} /\ Kept(o) \subseteq Instances
      BY <1>1, <1>3, <2>2, AloneCalm DEF Kept, Made
    <3>2. disowned \subseteq disowned'
      BY <1>2 DEF MakesWith, CommitNew
    <3> QED
      BY <3>1, <3>2, NoneAssumption DEF Kept
  <2> QED
    BY <1>1, <2>1, <2>2
<1>5. /\ CommitNew(j, i, new, flagged, net) /\ Commits(o, job[j].seen, new, flagged)
      /\ new.inst = order[o].inst /\ new.st = order[o].st
  BY <1>2, <1>3 DEF MakesWith, CommitNew, Commits
<1>6. order'[o] = new
  <2>1. PICK row \in Row : SetsRow(o, row) /\ (job[j].seen = order[o] => row = new)
    BY <1>3, <1>5, MergedRow
  <2> QED
    BY <1>3, <2>1 DEF SetsRow, OwnInv, ClaimInv, RowsType
<1>7. PICK slot \in {NoSlot, new.config.slot} :
        SetsInst(i, [st |-> "waiting", src |-> o, slot |-> slot])
  BY <1>5 DEF CommitNew, SetsInst
<1>8. /\ UNCHANGED <<up, leftover, released>> /\ inst[i].st = "unused"
      /\ disowned \subseteq disowned'
      /\ \A k \in Instances \ {i} : inst'[k] = inst[k]
      /\ inst'[i].st = "waiting" /\ inst'[i].slot = slot
  BY <1>5, <1>7 DEF CommitNew, SetsInst, OwnInv, RuntimeType
<1>9. /\ job'[j].op = job[j].op /\ job'[j].o = o /\ job'[j].made = TRUE
      /\ job'[j].inst = i /\ job'[j].seen = new
      /\ \A k \in Jobs \ {j} : job'[k] = job[k]
  BY <1>3, <1>5 DEF CommitNew, OwnInv, ClaimInv, JobsType, Job
<1>10. Kept(o)' \subseteq {i}
  BY <1>4, <1>8 DEF Kept, Made, HasRow
<1>11. \A k \in Jobs : On(k, o)' => k = j
  BY <1>3, <1>9 DEF On
<1>12. HandlersCalm(o)'
  BY <1>6, <1>9, <1>10, <1>11 DEF HandlersCalm
<1>13. On(j, o)'
  BY <1>1, <1>9 DEF On
<1>14. RowCalm(o)'
  BY <1>3, <1>5, <1>6, <1>9, <1>13 DEF RowCalm
<1>15. InstanceCalm(i, o)'
  BY <1>6, <1>7, <1>8, NoneAssumption DEF InstanceCalm, HasRow, OwnInv, UpUsed
<1>16. \A k \in Instances \ {i} : InstanceCalm(k, o)'
  BY <1>4, <1>8, InstanceSame DEF Calm
<1> QED
  BY <1>12, <1>14, <1>15, <1>16 DEF Calm

\* An order that is deleted leaves nothing, and tells the router of its slot.
LEMMA DeleteCalm ==
  ASSUME OwnInv, NEW j \in Jobs, Delete(j), NEW o \in Orders, o = job[j].o, Calm(o)
  PROVE  Calm(o)'
<1> DEFINE w == job[j]
           mine == w.mine \cup ({w.seen.inst} \ {NoInstance})
<1>1. /\ w.op = "delete" /\ End(j) /\ Purge(mine) /\ SetsRow(o, Absent)
      /\ Made(o) \subseteq mine /\ up' = CleanedUp(w.seen.inst)
      /\ leftover' = leftover \cap up' /\ UNCHANGED disowned
      /\ Release(o, w.seen.config.slot)
  BY DEF Delete, SetsRow, notes
<1>2. ~ w.made /\ w.seen = order[o] /\ Kept(o) \subseteq {order[o].inst}
  BY <1>1, JobFacts, AloneCalm
<1>3. order'[o] = Absent
  BY <1>1 DEF SetsRow, OwnInv, ClaimInv, RowsType
<1>4. released \subseteq released'
      /\ (order[o].config.slot # NoSlot => <<o, order[o].config.slot>> \in released')
  BY <1>1, <1>2 DEF Release
<1> HIDE DEF mine
<1>5. /\ InstancesKept
      /\ \A k \in Instances : inst'[k] # inst[k] => k \in mine /\ HasRow(k)
      /\ \A k \in Instances : k \in mine /\ HasRow(k) => inst'[k].st = "purged"
  BY <1>1, InstPurge DEF OwnInv
<1>6. Made(o)' = {}
  <2>1. ASSUME NEW k \in Instances, HasRow(k)', inst'[k].src = o PROVE FALSE
    <3>1. inst'[k] = inst[k]
      BY <1>5, <2>1 DEF HasRow
    <3>2. k \in Made(o)
      BY <2>1, <3>1 DEF HasRow, Made
    <3> QED
      BY <1>1, <1>5, <2>1, <3>2 DEF HasRow, Made
  <2> QED
    BY <2>1 DEF Made
<1>7. ASSUME NEW k \in Instances PROVE InstanceCalm(k, o)'
  <2>1. CASE k \in Kept(o)
    <3>1. k = order[o].inst /\ HasRow(k) /\ inst[k].slot \in {NoSlot, order[o].config.slot}
      BY <1>2, <2>1 DEF Calm, InstanceCalm, Kept, Made
    <3>2. inst'[k].st = "purged" /\ inst'[k].slot = inst[k].slot
      BY <1>1, <1>5, <2>1, <3>1 DEF InstancesKept, HasRow, Kept
    <3>3. k \notin up'
      BY <1>1, <1>2, <3>1 DEF CleanedUp
    <3> QED
      BY <1>4, <3>1, <3>2, <3>3 DEF InstanceCalm, HasRow
  <2>2. CASE k \notin Kept(o)
    <3>1. k \in up' => k \in up
      BY <1>1 DEF CleanedUp
    <3>2. inst'[k].src = o /\ k \notin disowned => inst'[k] = inst[k]
      BY <1>5, <2>2 DEF InstancesKept, Kept, Made, HasRow
    <3>3. CASE inst'[k] = inst[k]
      BY <1>1, <1>4, <2>2, <3>1, <3>3, InstanceSame DEF Calm, Kept
    <3>4. CASE inst'[k].src # o \/ k \in disowned
      BY <1>1, <3>4 DEF InstanceCalm
    <3> QED
      BY <3>2, <3>3, <3>4
  <2> QED
    BY <2>1, <2>2
<1>8. Absent.st = "absent"
  BY DEF Absent, Fresh
<1> QED
  BY <1>1, <1>3, <1>6, <1>7, <1>8, EndedCalm DEF Kept

\* An order that is made with its instance had none.
LEMMA PlaceConfirmedCalm ==
  ASSUME OwnInv, NEW j \in Jobs, NEW i \in Instances, NEW s \in Slots, PlaceConfirmed(j, i, s),
         NEW o \in Orders, o = job[j].o, Calm(o)
  PROVE  Calm(o)'
<1> DEFINE row == [Fresh("computing", "deploy") EXCEPT !.config.slot = s]
           w == [job[j] EXCEPT !.op = "platform", !.made = TRUE, !.seen = row, !.inst = i]
<1>1. /\ SetsRow(o, row) /\ SetsJob(j, w)
      /\ SetsInst(i, [st |-> "waiting", src |-> o, slot |-> s])
      /\ job[j].op = "confirm" /\ inst[i].st = "unused" /\ ~ Exists(o)
      /\ UNCHANGED <<up, leftover, released, disowned>>
  BY DEF PlaceConfirmed, SetsRow, SetsJob, SetsInst, notes
<1>2. row.inst = NoInstance /\ row.config.slot = s
  BY DEF Fresh
<1>3. /\ job[j] \in Job /\ ~ job[j].made
      /\ \A k \in Jobs : On(k, o) => k = j
  BY <1>1, JobFacts, AloneCalm
<1> HIDE DEF row
<1>4. Kept(o) = {}
  <2>1. order[o].inst = NoInstance
    BY <1>1 DEF OwnInv, Owned, Absent, Fresh
  <2>2. Kept(o) \subseteq {NoInstance} /\ Kept(o) \subseteq Instances
    BY <1>1, <1>3, <2>1, AloneCalm DEF Kept, Made
  <2> QED
    BY <2>2, NoneAssumption
<1>5. w.o = o /\ w.made = TRUE /\ w.seen = row /\ w.inst = i /\ w.op = "platform"
  BY <1>3 DEF Job
<1> HIDE DEF w
<1>6. order'[o] = row
  BY <1>1 DEF SetsRow, OwnInv, ClaimInv, RowsType
<1>7. /\ \A k \in Instances \ {i} : inst'[k] = inst[k]
      /\ inst'[i].st = "waiting" /\ inst'[i].slot = s
  BY <1>1 DEF SetsInst, OwnInv, RuntimeType
<1>8. job'[j] = w /\ \A k \in Jobs \ {j} : job'[k] = job[k]
  BY <1>1 DEF SetsJob, OwnInv, ClaimInv, JobsType
<1>9. Kept(o)' \subseteq {i}
  BY <1>1, <1>4, <1>7 DEF Kept, Made, HasRow
<1>10. \A k \in Jobs : On(k, o)' <=> k = j
  BY <1>3, <1>5, <1>8 DEF On
<1>11. HandlersCalm(o)'
  BY <1>5, <1>6, <1>8, <1>9, <1>10 DEF HandlersCalm
<1>12. RowCalm(o)'
  BY <1>2, <1>5, <1>6, <1>8, <1>10 DEF RowCalm
<1>13. InstanceCalm(i, o)'
  BY <1>1, <1>2, <1>6, <1>7, NoneAssumption DEF InstanceCalm, HasRow, OwnInv, UpUsed
<1>14. \A k \in Instances \ {i} : InstanceCalm(k, o)'
  BY <1>1, <1>4, <1>7, InstanceSame DEF Calm, Kept
<1> QED
  BY <1>11, <1>12, <1>13, <1>14 DEF Calm

\* The order a handler works on stays calm, or was overlapped.
LEMMA ContinueCalm ==
  ASSUME OwnInv, NEW j \in Jobs, Continue(j), NEW o \in Orders, o = job[j].o, Calm(o),
         o \notin overlapped'
  PROVE  Calm(o)'
<1>1. ASSUME NEW i \in Instances, Makes(j, i) PROVE Calm(o)'
  BY <1>1, MakesCalm
<1>2. CASE \/ LinkResult(j) \/ LinkInstance(j) \/ MaterializeFails(j)
           \/ (\E net \in BOOLEAN : RouteOnly(j, net)) \/ Cancel(j)
  BY <1>2, EndsCalm
<1>3. CASE Refuse(j) \/ AnswerAgain(j) \/ Drop(j)
  BY <1>3, EndCalm
<1>4. CASE Delete(j)
  BY <1>4, DeleteCalm
<1>5. ASSUME NEW i \in Instances, NEW s \in Slots, PlaceConfirmed(j, i, s) PROVE Calm(o)'
  BY <1>5, PlaceConfirmedCalm
<1> QED
  BY <1>1, <1>2, <1>3, <1>4, <1>5 DEF Continue, Makes

\* So does the order of a request.
LEMMA RequestCalm ==
  ASSUME OwnInv, NEW o \in Orders, RouterRequest(o) \/ UserRequest(o), Calm(o),
         o \notin overlapped'
  PROVE  Calm(o)'
<1>1. CASE RouterRequest(o)
  BY <1>1, QueueCalm, NetworkReadyCalm DEF RouterRequest
<1>2. CASE UserRequest(o)
  <2>1. ASSUME NEW j \in Jobs, NEW op \in Handlers, Open(j, op, o) PROVE Calm(o)'
    BY <2>1, OpenCalm, HandlerAssumption
  <2>2. ASSUME NEW b \in BOOLEAN, CleanUp(o, b) PROVE Calm(o)'
    BY <2>2, CleanUpCalm
  <2>3. CASE \/ \E mode \in Modes : Confirm(o, mode)
             \/ CancelConversation(o) \/ Submit(o) \/ EditDraft(o) \/ DeleteConversation(o)
    BY <2>3, QueueCalm
  <2> QED
    BY <1>2, <2>1, <2>2, <2>3 DEF UserRequest
<1> QED
  BY <1>1, <1>2

\* At first nothing is made for anyone.
LEMMA CalmInit == Init => CalmInv
<1> SUFFICES ASSUME Init PROVE CalmInv
  OBVIOUS
<1>1. /\ \A j \in Jobs : job[j].op = "none"
      /\ \A i \in Instances : inst[i].st = "unused" /\ up = {}
  BY DEF Init, Idle
<1>2. \A o \in Orders : Kept(o) = {} /\ order[o].inst = NoInstance
  BY <1>1 DEF Init, Kept, Made, HasRow, Fresh, Absent
<1>3. \A o \in Orders : HandlersCalm(o) /\ RowCalm(o)
  BY <1>1, <1>2 DEF HandlersCalm, RowCalm, On
<1>4. \A o \in Orders, i \in Instances : InstanceCalm(i, o)
  BY <1>1 DEF InstanceCalm, HasRow
<1> QED
  BY <1>3, <1>4, OwnInit DEF CalmInv, Calm

\* Orders stay calm until two of their handlers overlap.
LEMMA CalmNext == CalmInv /\ [Next]_vars => CalmInv'
<1> SUFFICES ASSUME CalmInv, [Next]_vars PROVE CalmInv'
  OBVIOUS
<1>1. OwnInv /\ OwnInv' /\ RuntimeType' /\ InstancesKept
  BY OwnNext, OwnStep DEF CalmInv
<1>2. ASSUME NEW o \in Orders, Local(o), o \notin overlapped' => Calm(o)'
      PROVE  CalmInv'
  <2>1. OnlyOn(o) /\ overlapped \subseteq overlapped'
    BY <1>2 DEF Local, OnlyOn
  <2>2. ASSUME NEW p \in Orders, p \notin overlapped' PROVE Calm(p)'
    <3>1. CASE p = o
      BY <1>2, <2>2, <3>1
    <3>2. CASE p # o
      BY <1>1, <2>1, <2>2, <3>2, CalmKept DEF CalmInv
    <3> QED
      BY <3>1, <3>2
  <2> QED
    BY <1>1, <2>2 DEF CalmInv
<1>3. ASSUME NEW j \in Jobs, Continue(j) PROVE CalmInv'
  <2>1. PICK o \in Orders : o = job[j].o
    BY <1>1, <1>3, ContinueLocal, JobFacts
  <2>2. Local(o) /\ overlapped \subseteq overlapped'
    BY <1>1, <1>3, <2>1, ContinueLocal DEF Local, OnlyOn
  <2>3. o \notin overlapped' => Calm(o)'
    BY <1>1, <1>3, <2>1, <2>2, ContinueCalm DEF CalmInv
  <2> QED
    BY <1>2, <2>2, <2>3
<1>4. ASSUME NEW o \in Orders, RouterRequest(o) \/ UserRequest(o) PROVE CalmInv'
  <2>1. Local(o) /\ overlapped \subseteq overlapped'
    BY <1>1, <1>4, RequestLocal DEF Local, OnlyOn
  <2>2. o \notin overlapped' => Calm(o)'
    BY <1>1, <1>4, <2>1, RequestCalm DEF CalmInv
  <2> QED
    BY <1>2, <2>1, <2>2
<1>5. ASSUME NEW i \in Instances, InstanceRequest(i) PROVE CalmInv'
  <2>1. PICK o \in Orders : o = inst[i].src
    BY <1>1, <1>5, RequestLocal
  <2>2. Local(o) /\ overlapped \subseteq overlapped'
    BY <1>1, <1>5, <2>1, RequestLocal DEF Local, OnlyOn
  <2>3. o \notin overlapped' => Calm(o)'
    BY <1>1, <1>5, <2>1, <2>2, StartStopCalm, InstanceEndsCalm DEF CalmInv, InstanceRequest
  <2> QED
    BY <1>2, <2>2, <2>3
<1>6. CASE Reconcile
  <2>1. overlapped \subseteq overlapped'
    BY <1>1, <1>6, ReconcileRows
  <2> QED
    BY <1>1, <1>6, <2>1, ReconcileCalm DEF CalmInv
<1>7. CASE UNCHANGED vars
  BY <1>1, <1>7 DEF CalmInv, Calm, HandlersCalm, RowCalm, InstanceCalm, Kept, Made, HasRow, On,
     vars, rows, runtime, notes
<1> QED
  BY <1>3, <1>4, <1>5, <1>6, <1>7 DEF Next, Request

\* Whoever writes in whatever order: as long as an order's handlers come one after
\* the other, nothing is made for it but what its row names.
THEOREM NoSecondInstance == Spec => []OneInstance
<1>1. CalmInv => OneInstance
  BY DEF CalmInv, Calm, RowCalm, OneInstance, Busy, On, Kept
<1> QED
  BY <1>1, CalmInit, CalmNext, PTL DEF Spec

\* The row of an instance that was given a slot never goes untold.
LEMMA NoSlotLost == CalmInv => SlotAccounted
  BY DEF CalmInv, OwnInv, RuntimeType, Calm, InstanceCalm, SlotAccounted

-----------------------------------------------------------------------------
(* What the router is told.                                                  *)

\* The guard a handler has passed still holds of its copy.
Admitted(w) ==
  /\ w.op = "cancel" => w.seen.st = "pending"
  /\ w.op = "materialize" => w.seen.st # "cancelled"
  /\ w.op = "auto" => w.o \in Benchmark /\ internalAuto
AdmittedInv == \A j \in Jobs : Admitted(job[j])

\* A handler is as it was, or ends, or begins, or goes on with an instance.
LEMMA JobMoves ==
  ASSUME OwnInv, [Next]_vars, NEW j \in Jobs
  PROVE  \/ job'[j] = job[j] \/ job'[j] = Idle
         \/ \E op \in Operations, o \in Orders :
              /\ Admits(op, o) /\ job[j].op = "none"
              /\ job'[j].op = op /\ job'[j].o = o /\ job'[j].seen = order[o]
         \/ job'[j].op = "platform"
         \/ /\ job[j].op # "none" /\ job'[j].op = job[j].op /\ job'[j].o = job[j].o
            /\ job'[j].seen.st = job[j].seen.st
<1>1. job \in [Jobs -> Job]
  BY DEF OwnInv, ClaimInv, JobsType
<1>2. ASSUME NEW k \in Jobs, End(k) PROVE job'[j] = job[j] \/ job'[j] = Idle
  BY <1>1, <1>2 DEF End
<1>3. ASSUME NEW k \in Jobs, NEW op \in Handlers, NEW o \in Orders, Open(k, op, o)
      PROVE  \/ job'[j] = job[j]
             \/ /\ op \in Operations
                /\ Admits(op, o) /\ job[j].op = "none"
                /\ job'[j].op = op /\ job'[j].o = o /\ job'[j].seen = order[o]
  <2> DEFINE busy == IF op \in Placers THEN {s \in Slots : ~ SlotFree(o, s)} ELSE {}
             w == [Idle EXCEPT !.op = op, !.o = o, !.seen = order[o], !.mine = Made(o),
                               !.taken = busy]
  <2> HIDE DEF busy
  <2>1. w.op = op /\ w.o = o /\ w.seen = order[o]
    BY DEF Idle
  <2>2. job' = [job EXCEPT ![k] = w] /\ Admits(op, o) /\ job[k].op = "none"
    BY <1>3 DEF Open, busy
  <2> HIDE DEF w
  <2> QED
    BY <1>1, <2>1, <2>2, HandlerAssumption
<1>4. ASSUME NEW k \in Jobs, NEW i \in Instances, NEW s \in Slots, PlaceConfirmed(k, i, s)
      PROVE  job'[j] = job[j] \/ job'[j].op = "platform"
  BY <1>1, <1>4 DEF PlaceConfirmed, Job
<1>5. ASSUME NEW k \in Jobs, NEW i \in Instances, Makes(k, i)
      PROVE  \/ job'[j] = job[j]
             \/ /\ job[j].op # "none" /\ job'[j].op = job[j].op /\ job'[j].o = job[j].o
                /\ job'[j].seen.st = job[j].seen.st
  <2>1. PICK new \in Row, flagged \in SUBSET {"config"}, net \in BOOLEAN :
          MakesWith(k, i, new, flagged, net)
    BY <1>5, MakesForm
  <2>2. job[k].op # "none"
    BY <1>5, MakesForm
  <2>3. /\ job' = [job EXCEPT ![k] = [job[k] EXCEPT !.made = TRUE, !.inst = i,
                                                   !.seen = new, !.net = net]]
        /\ new.st = job[k].seen.st
    BY <2>1 DEF MakesWith, CommitNew
  <2> QED
    BY <1>1, <2>2, <2>3 DEF Job
<1>6. ASSUME NEW k \in Jobs, Continue(k)
      PROVE  \/ End(k) \/ \E i \in Instances : Makes(k, i)
             \/ \E i \in Instances, s \in Slots : PlaceConfirmed(k, i, s)
  BY <1>6 DEF Continue, Makes, Refuse, AnswerAgain, LinkResult, LinkInstance,
              MaterializeFails, RouteOnly, Cancel, Delete, Drop
<1>7. ASSUME NEW o \in Orders, RouterRequest(o) PROVE UNCHANGED job
  BY <1>7 DEF RouterRequest, Claim, Requeue, FailRouting, NetworkReady
<1>8. ASSUME NEW o \in Orders, UserRequest(o)
      PROVE  \/ UNCHANGED job
             \/ \E k \in Jobs, op \in Handlers : Open(k, op, o)
  BY <1>8 DEF UserRequest, CleanUp, Confirm, CancelConversation, Submit, EditDraft,
              DeleteConversation
<1>9. ASSUME NEW i \in Instances, InstanceRequest(i) PROVE UNCHANGED job
  BY <1>9 DEF InstanceRequest, Start, Stop, EndDue, DeleteInstance
<1>10. Reconcile \/ UNCHANGED vars => UNCHANGED job
  BY DEF Reconcile, vars
<1>11. CASE \E k \in Jobs : Continue(k)
  BY <1>2, <1>4, <1>5, <1>6, <1>11
<1>12. CASE Request
  BY <1>3, <1>7, <1>8, <1>9, <1>10, <1>12 DEF Request
<1> QED
  BY <1>10, <1>11, <1>12 DEF Next

\* No handler goes on with a copy it should not have accepted.
LEMMA AdmittedStep ==
  ASSUME OwnInv, AdmittedInv, [Next]_vars
  PROVE  AdmittedInv'
<1> SUFFICES ASSUME NEW j \in Jobs PROVE Admitted(job[j])'
  BY DEF AdmittedInv
<1>1. internalAuto' = internalAuto /\ Admitted(job[j])
  BY DEF Next, vars, AdmittedInv
<1>2. CASE job'[j] = job[j] \/ job'[j] = Idle \/ job'[j].op = "platform"
  BY <1>1, <1>2 DEF Admitted, Idle
<1>3. ASSUME NEW op \in Operations, NEW o \in Orders, Admits(op, o),
             job'[j].op = op /\ job'[j].o = o /\ job'[j].seen = order[o]
      PROVE  Admitted(job[j])'
  BY <1>1, <1>3 DEF Admitted, Admits
<1>4. CASE /\ job'[j].op = job[j].op /\ job'[j].o = job[j].o
           /\ job'[j].seen.st = job[j].seen.st
  BY <1>1, <1>4 DEF Admitted
<1> QED
  BY <1>2, <1>3, <1>4, JobMoves

\* At first there is no handler.
LEMMA AdmittedInit == Init => AdmittedInv
  BY DEF Init, AdmittedInv, Admitted, Idle

\* The instance of an order that the router is told about goes with the step, or
\* a call that failed was counted as done.
LEMMA TellsWhenDown ==
  ASSUME OwnInv, AdmittedInv, [Next]_vars, NEW o \in Orders, o \notin overlapped', Calm(o),
         Calm(o)', NEW s \in Slots, <<o, s>> \in released' \ released,
         NEW i \in Instances, i \in Kept(o), i \notin disowned'
  PROVE  i \notin up' \/ i \in leftover'
<1>1. inst[i].src = o /\ HasRow(i)
  BY DEF Kept, Made
<1>2. InstancesKept
  BY OwnStep
<1>3. ASSUME NEW j \in Jobs, Cancel(j) PROVE FALSE
  <2>1. job[j].op = "cancel" /\ job[j].o = o
    <3>1. released' = IF job[j].seen.config.slot = NoSlot THEN released
                      ELSE released \cup {<<job[j].o, job[j].seen.config.slot>>}
      BY <1>3 DEF Cancel, Release
    <3> QED
      BY <1>3, <3>1 DEF Cancel
  <2>2. ~ job[j].made /\ job[j].seen.st = "pending"
    BY <2>1, JobFacts DEF AdmittedInv, Admitted
  <2>3. order[o].inst = NoInstance /\ Kept(o) \subseteq {order[o].inst}
    BY <2>1, <2>2, AloneCalm
  <2> QED
    BY <2>3, NoneAssumption
<1>4. ASSUME NEW j \in Jobs, Delete(j) PROVE i \notin up' \/ i \in leftover'
  <2> DEFINE mine == job[j].mine \cup ({job[j].seen.inst} \ {NoInstance})
  <2>1. job[j].o = o
    <3>1. released' = IF job[j].seen.config.slot = NoSlot THEN released
                      ELSE released \cup {<<job[j].o, job[j].seen.config.slot>>}
      BY <1>4 DEF Delete, Release
    <3> QED
      BY <3>1
  <2>2. Made(o) \subseteq mine /\ Purge(mine)
    BY <1>4, <2>1 DEF Delete
  <2> HIDE DEF mine
  <2>3. inst'[i].st = "purged" /\ inst'[i].src = o
    BY <1>1, <1>2, <2>2, InstPurge DEF OwnInv, InstancesKept, HasRow, Kept
  <2> QED
    BY <2>3 DEF Calm, InstanceCalm, HasRow
<1>5. ASSUME NEW k \in Instances, HasRow(k), ReleaseInstance(k), TouchInstance(k)
      PROVE  i = k
  <2>1. o \in Owners(k)
    BY <1>5 DEF ReleaseInstance
  <2>2. o = inst[k].src /\ order[o].inst = k
    BY <2>1, OwnersOne DEF Owners
  <2>3. Busy(o) = {}
    BY <1>5, <2>2, TouchedInstance DEF OwnInv
  <2> QED
    BY <2>2, <2>3, CalmOwner
<1>6. ASSUME NEW k \in Instances, InstanceRequest(k)
      PROVE  i \notin up' \/ i \in leftover'
  <2>1. ~ Start(k)
    BY DEF Start
  <2>2. CASE Stop(k)
    <3>1. i = k /\ (i \in up => inst[i].st \in {"running", "expired"} \/ i \in leftover)
      BY <1>1, <1>5, <2>2 DEF Stop, Calm, InstanceCalm, Kept
    <3> QED
      BY <2>2, <3>1 DEF Stop, TakesDown
  <2>3. ASSUME NEW b \in BOOLEAN, EndDue(k, b) PROVE i \notin up' \/ i \in leftover'
    BY <1>5, <2>3 DEF EndDue, TakesDown
  <2>4. CASE DeleteInstance(k)
    BY <1>5, <2>4 DEF DeleteInstance, TakesDown
  <2> QED
    BY <1>6, <2>1, <2>2, <2>3, <2>4 DEF InstanceRequest
<1>7. ASSUME NEW p \in Orders, NEW b \in BOOLEAN, CleanUp(p, b) PROVE i \notin up'
  <2>1. Release(p, order[p].config.slot) /\ up' = up \ {order[p].inst} /\ Touch(p)
    BY <1>7 DEF CleanUp
  <2>2. p = o
    BY <2>1 DEF Release
  <2>3. order[o].inst = i
    BY <2>1, <2>2, Touched, CalmOwner DEF OwnInv
  <2> QED
    BY <2>1, <2>2, <2>3
<1>8. ASSUME NEW j \in Jobs, Continue(j)
      PROVE  Cancel(j) \/ Delete(j)
  <2>1. \A k \in Instances, r \in Slots : ~ Makes(j, k) /\ ~ PlaceConfirmed(j, k, r)
    BY DEF Makes, PlaceAuto, PlaceResult, PlaceMaterialized, CommitNew, PlaceConfirmed
  <2> QED
    BY <1>8, <2>1 DEF Continue, Makes, Refuse, AnswerAgain, LinkResult, LinkInstance,
              MaterializeFails, RouteOnly, Drop
<1>9. ASSUME NEW p \in Orders, RouterRequest(p) \/ UserRequest(p)
      PROVE  \E b \in BOOLEAN : CleanUp(p, b)
  BY <1>9 DEF RouterRequest, Claim, Requeue, FailRouting, NetworkReady, UserRequest, Open,
              Confirm, CancelConversation, Submit, EditDraft, DeleteConversation
<1>10. ~ Reconcile /\ ~ UNCHANGED vars
  BY DEF Reconcile, vars
<1> QED
  BY <1>3, <1>4, <1>6, <1>7, <1>8, <1>9, <1>10 DEF Next, Request

\* What is told, put aside or overlapped stays so.
LEMMA Grows ==
  ASSUME OwnInv, [Next]_vars
  PROVE  released \subseteq released' /\ disowned \subseteq disowned' /\ overlapped \subseteq overlapped'
<1>1. ASSUME NEW o, Local(o)
      PROVE  /\ released \subseteq released' /\ disowned \subseteq disowned'
             /\ overlapped \subseteq overlapped'
  BY <1>1 DEF Local, OnlyOn
<1>2. CASE \E j \in Jobs : Continue(j)
  BY <1>1, <1>2, ContinueLocal
<1>3. CASE \E o \in Orders : RouterRequest(o) \/ UserRequest(o)
  BY <1>1, <1>3, RequestLocal
<1>4. CASE \E i \in Instances : InstanceRequest(i)
  BY <1>1, <1>4, RequestLocal
<1>5. CASE Reconcile
  BY <1>5, ReconcileRows
<1>6. CASE UNCHANGED vars
  BY <1>6 DEF vars, notes
<1> QED
  BY <1>2, <1>3, <1>4, <1>5, <1>6 DEF Next, Request

\* The router is never told that a slot is free while a container of the order is
\* up on it, unless a stop or a removal that failed was counted as done, or the
\* instance had been put aside.
THEOREM ToldWhenDown == Spec => ReleasedWhenDown
<1> DEFINE Told == \A i \in Instances \ (leftover' \cup disowned') :
                     /\ inst[i].src \notin overlapped'
                     /\ <<inst[i].src, inst[i].slot>> \in released' \ released
                     => i \notin up'
<1>1. ASSUME CalmInv, AdmittedInv, [Next]_vars PROVE Told
  <2> SUFFICES ASSUME NEW i \in Instances, inst[i].src \notin overlapped',
                      i \notin leftover', i \notin disowned',
                      <<inst[i].src, inst[i].slot>> \in released' \ released, i \in up'
               PROVE  FALSE
    OBVIOUS
  <2>1. CalmInv' /\ OwnInv /\ OwnInv'
    BY <1>1, CalmNext DEF CalmInv
  <2>2. PICK o \in Orders, s \in Slots : o = inst[i].src /\ s = inst[i].slot
    BY <2>1 DEF OwnInv, RuntimeType
  <2>3. overlapped \subseteq overlapped' /\ disowned \subseteq disowned'
    BY <1>1, Grows DEF CalmInv
  <2>4. Calm(o) /\ Calm(o)'
    BY <1>1, <2>1, <2>2, <2>3 DEF CalmInv
  <2>5. HasRow(i)
    <3>1. i \in up \/ HasRow(i)
      BY <1>1, <2>1, UpHasRow
    <3>2. inst[i].st # "unused" /\ i # NoInstance
      BY <2>1, <3>1, NoneAssumption DEF OwnInv, UpUsed, HasRow
    <3>3. inst'[i].src = o /\ (inst[i].st = "purged" => inst'[i].st = "purged")
      BY <1>1, <2>1, <2>2, <3>2, OwnStep DEF InstancesKept
    <3>4. inst'[i].st \in {"running", "expired"}
      BY <2>4, <3>3 DEF Calm, InstanceCalm
    <3> QED
      BY <3>2, <3>3, <3>4 DEF HasRow
  <2>6. i \in Kept(o)
    BY <2>2, <2>3, <2>5 DEF Kept, Made
  <2> QED
    BY <1>1, <2>1, <2>2, <2>4, <2>6, TellsWhenDown
<1> QED
  BY <1>1, CalmInit, CalmNext, AdmittedInit, AdmittedStep, PTL DEF Spec, ReleasedWhenDown, CalmInv

-----------------------------------------------------------------------------
(* What the user is shown.                                                   *)

\* A handler is between its two commits with an instance for the router's answer.
Placing(j, o) == On(j, o) /\ job[j].made /\ job[j].op # "materialize"

\* A conversation knows its order, and shows where it is.
Talks(o) ==
  /\ Exists(o) /\ conv[o].st # "absent" => conv[o].linked
  /\ conv[o].st \in {"awaiting_routing", "ready_to_submit"} => conv[o].linked
  /\ o \notin repeated /\ (\A j \in Jobs : ~ Placing(j, o)) =>
       /\ conv[o].st = "ready_to_submit" => order[o].rs = "network_binding_ready"
       /\ conv[o].st = "awaiting_routing" => order[o].rs \in {"pending", "computing"}
       /\ conv[o].st = "cancelled" => order[o].st \in {"cancelled", "absent"}

TalksInv == \A o \in Chat \ overlapped : Talks(o)

\* No conversation but that of o is written.
TalkOnlyOn(o) ==
  (\A p \in Chat \ {o} : conv'[p] = conv[p]) /\ repeated \subseteq repeated'

\* A step on another order leaves what is shown.
LEMMA TalksKept ==
  ASSUME OwnInv, NEW o, OnlyOn(o), TalkOnlyOn(o), NEW p \in Chat \ {o}, Talks(p)
  PROVE  Talks(p)'
<1>1. /\ order'[p] = order[p] /\ conv'[p] = conv[p] /\ repeated \subseteq repeated'
      /\ \A j \in Jobs : On(j, p) \/ On(j, p)' => job'[j] = job[j]
  BY OrderAssumption DEF OnlyOn, TalkOnlyOn
<1>2. \A j \in Jobs : Placing(j, p)' <=> Placing(j, p)
  BY <1>1 DEF Placing, On
<1> QED
  BY <1>1, <1>2 DEF Talks, Exists

\* What a conversation that is written comes to.
LEMMA Told ==
  ASSUME OwnInv, NEW o \in Chat, NEW c, SetConversation(o, c)
  PROVE  conv'[o] = c /\ \A p \in Chat \ {o} : conv'[p] = conv[p]
  BY DEF SetConversation, OwnInv, TalkType

\* A router's or a user's request that writes no instance.
LEMMA QueueTalks ==
  ASSUME OwnInv, NEW o \in Orders,
         \/ \E r \in Routers : Claim(r, o) \/ Requeue(r, o) \/ FailRouting(r, o)
         \/ \E mode \in Modes : Confirm(o, mode)
         \/ CancelConversation(o) \/ Submit(o) \/ EditDraft(o) \/ DeleteConversation(o)
  PROVE  /\ TalkOnlyOn(o)
         /\ o \in Chat /\ Calm(o) /\ Talks(o) /\ o \notin overlapped' => Talks(o)'
<1>1. UNCHANGED <<job, repeated>> /\ Touch(o)
  BY DEF Claim, Requeue, FailRouting, Confirm, CancelConversation, Submit, EditDraft,
         DeleteConversation
<1>2. order[o] \in Row /\ order \in [Orders -> Row]
  BY DEF OwnInv, ClaimInv, RowsType
<1>3. ASSUME NEW r \in Routers, Claim(r, o) \/ Requeue(r, o) \/ FailRouting(r, o)
      PROVE  /\ TalkOnlyOn(o)
             /\ o \in Chat /\ Talks(o) => Talks(o)'
  <2>1. /\ Exists(o)
        /\ \/ order'[o].rs \in {"pending", "computing"} /\ SyncLinked(o, "awaiting_routing")
           \/ SyncLinked(o, "failed")
    <3>1. /\ Exists(o)
          /\ \/ order'[o] = [order[o] EXCEPT !.rs = "computing"] /\ SyncLinked(o, "awaiting_routing")
             \/ order'[o] = [order[o] EXCEPT !.rs = "pending"] /\ SyncLinked(o, "awaiting_routing")
             \/ SyncLinked(o, "failed")
      BY <1>2, <1>3 DEF Claim, Requeue, FailRouting
    <3> QED
      BY <1>2, <3>1 DEF Row
  <2>2. ASSUME ~ HasConversation(o) PROVE UNCHANGED conv
    BY <2>1, <2>2 DEF SyncLinked
  <2>3. ASSUME HasConversation(o), NEW st \in {"awaiting_routing", "failed"}, SyncLinked(o, st)
        PROVE  TalkOnlyOn(o) /\ conv'[o].st = st /\ conv'[o].linked = conv[o].linked
    <3>1. o \in Chat /\ SetConversation(o, [conv[o] EXCEPT !.st = st]) /\ conv[o] \in ConvRow
      BY <2>3 DEF SyncLinked, HasConversation, OwnInv, TalkType
    <3>2. /\ [conv[o] EXCEPT !.st = st].st = st
          /\ [conv[o] EXCEPT !.st = st].linked = conv[o].linked
      BY <3>1 DEF ConvRow
    <3> QED
      BY <1>1, <3>1, <3>2, Told DEF TalkOnlyOn
  <2>4. CASE ~ HasConversation(o)
    BY <1>1, <2>2, <2>4 DEF TalkOnlyOn, Talks, HasConversation
  <2>5. CASE HasConversation(o)
    BY <2>1, <2>3, <2>5 DEF Talks, HasConversation
  <2> QED
    BY <2>4, <2>5
<1>4. ASSUME NEW mode \in Modes, Confirm(o, mode)
      PROVE  TalkOnlyOn(o) /\ Talks(o)'
  <2>1. o \in Chat /\ order'[o].rs = "pending"
    BY <1>2, <1>4 DEF Confirm, HasConversation, Fresh
  <2>2. SetConversation(o, [st |-> "awaiting_routing", linked |-> TRUE])
    BY <1>4 DEF Confirm
  <2> QED
    BY <1>1, <2>1, <2>2, Told DEF TalkOnlyOn, Talks
<1>5. CASE CancelConversation(o)
  <2>1. /\ o \in Chat /\ conv[o] \in ConvRow
        /\ conv[o].st \in {"awaiting_routing", "ready_to_submit"}
        /\ SetConversation(o, [conv[o] EXCEPT !.st = "cancelled"])
    BY <1>5 DEF CancelConversation, HasConversation, OwnInv, TalkType
  <2>2. /\ [conv[o] EXCEPT !.st = "cancelled"].st = "cancelled"
        /\ [conv[o] EXCEPT !.st = "cancelled"].linked = conv[o].linked
    BY <2>1 DEF ConvRow
  <2>3. /\ TalkOnlyOn(o) /\ conv'[o].st = "cancelled" /\ conv'[o].linked = conv[o].linked
    BY <1>1, <2>1, <2>2, Told DEF TalkOnlyOn
  <2>4. ASSUME Talks(o) PROVE conv[o].linked /\ order'[o].st \in {"cancelled", "absent"}
    <3>1. conv[o].linked
      BY <2>1, <2>4 DEF Talks
    <3>2. order'[o] = IF Exists(o) THEN [order[o] EXCEPT !.st = "cancelled", !.rs = "cancelled"]
                      ELSE order[o]
      BY <1>2, <1>5, <3>1 DEF CancelConversation
    <3> QED
      BY <1>2, <3>1, <3>2 DEF Row, Exists
  <2> QED
    BY <2>3, <2>4 DEF Talks
<1>6. CASE Submit(o) \/ EditDraft(o)
  <2>1. /\ o \in Chat /\ conv[o] \in ConvRow /\ conv[o].st # "absent" /\ order' = order
        /\ \/ SetConversation(o, [conv[o] EXCEPT !.st = "submitted"])
           \/ SetConversation(o, [conv[o] EXCEPT !.st = "drafting"])
    BY <1>6 DEF Submit, EditDraft, HasConversation, OwnInv, TalkType
  <2>2. PICK st \in {"submitted", "drafting"} : SetConversation(o, [conv[o] EXCEPT !.st = st])
    BY <2>1
  <2>3. /\ [conv[o] EXCEPT !.st = st].st = st
        /\ [conv[o] EXCEPT !.st = st].linked = conv[o].linked
    BY <2>1 DEF ConvRow
  <2>4. /\ TalkOnlyOn(o) /\ conv'[o].st \in {"submitted", "drafting"}
        /\ conv'[o].linked = conv[o].linked
    BY <1>1, <2>1, <2>2, <2>3, Told DEF TalkOnlyOn
  <2> QED
    BY <2>1, <2>4 DEF Talks, Exists
<1>7. CASE DeleteConversation(o)
  <2>1. o \in Chat /\ SetConversation(o, [st |-> "absent", linked |-> FALSE])
    BY <1>7 DEF DeleteConversation, HasConversation
  <2> QED
    BY <1>1, <2>1, Told DEF TalkOnlyOn, Talks
<1> QED
  BY <1>3, <1>4, <1>5, <1>6, <1>7

\* The network is ready, and the user sees it.
LEMMA NetworkReadyTalks ==
  ASSUME OwnInv, NEW o \in Orders, NEW late \in BOOLEAN, NetworkReady(o, late)
  PROVE  /\ TalkOnlyOn(o)
         /\ o \in Chat /\ Talks(o) => Talks(o)'
<1>1. /\ UNCHANGED repeated /\ Exists(o)
      /\ HasConversation(o) => SetConversation(o, [conv[o] EXCEPT !.st = "submitted"])
      /\ ~ HasConversation(o) => UNCHANGED conv
  BY DEF NetworkReady
<1>2. CASE ~ HasConversation(o)
  BY <1>1, <1>2 DEF TalkOnlyOn, Talks, HasConversation
<1>3. CASE HasConversation(o)
  <2>1. o \in Chat /\ conv[o] \in ConvRow /\ conv[o].st # "absent"
    BY <1>3 DEF HasConversation, OwnInv, TalkType
  <2>2. /\ [conv[o] EXCEPT !.st = "submitted"].st = "submitted"
        /\ [conv[o] EXCEPT !.st = "submitted"].linked = conv[o].linked
    BY <2>1 DEF ConvRow
  <2>3. /\ TalkOnlyOn(o) /\ conv'[o].st = "submitted" /\ conv'[o].linked = conv[o].linked
    BY <1>1, <1>3, <2>1, <2>2, Told DEF TalkOnlyOn
  <2> QED
    BY <1>1, <2>1, <2>3 DEF Talks
<1> QED
  BY <1>2, <1>3

\* What is shown of an order that nobody is at work on and that keeps its routing.
LEMMA SameTalks ==
  ASSUME OwnInv, NEW o \in Chat, Talks(o), Busy(o) = {}, UNCHANGED <<conv, repeated, job>>,
         order'[o].rs = order[o].rs,
         order'[o].st = "absent" <=> order[o].st = "absent",
         order[o].st = "cancelled" => order'[o].st = "cancelled"
  PROVE  Talks(o)'
<1>1. \A j \in Jobs : ~ Placing(j, o)
  BY DEF Placing, On, Busy
<1> QED
  BY <1>1 DEF Talks, Exists

\* Instances and clean-ups tell the conversation nothing.
LEMMA RuntimeTalks ==
  ASSUME OwnInv, NEW o \in Chat, Talks(o), o \notin overlapped',
         \/ \E b \in BOOLEAN : CleanUp(o, b)
         \/ \E i \in Instances : inst[i].src = o /\ InstanceRequest(i)
         \/ Reconcile /\ Busy(o) = {}
  PROVE  Talks(o)'
<1>1. o \in Orders /\ order[o] \in Row /\ order \in [Orders -> Row]
  BY OrderAssumption DEF OwnInv, ClaimInv, RowsType
<1>2. UNCHANGED <<conv, repeated, job>>
  BY DEF CleanUp, InstanceRequest, Start, Stop, EndDue, DeleteInstance, Reconcile, rows
<1>3. Busy(o) = {}
  <2>1. ASSUME NEW i \in Instances, inst[i].src = o, InstanceRequest(i) PROVE Busy(o) = {}
    <3>1. HasRow(i) /\ TouchInstance(i)
      BY <2>1 DEF InstanceRequest, Start, Stop, EndDue, DeleteInstance
    <3> QED
      BY <2>1, <3>1, TouchedInstance DEF OwnInv
  <2>2. ASSUME NEW b \in BOOLEAN, CleanUp(o, b) PROVE Busy(o) = {}
    BY <1>1, <2>2, Touched DEF CleanUp, OwnInv
  <2> QED
    BY <2>1, <2>2
<1>4. /\ order'[o].rs = order[o].rs
      /\ order'[o].st = "absent" <=> order[o].st = "absent"
      /\ order[o].st = "cancelled" => order'[o].st = "cancelled"
  <2>1. CASE \E b \in BOOLEAN : CleanUp(o, b)
    <3>1. \/ order'[o] = order[o]
          \/ order'[o] = [order[o] EXCEPT !.st = IF order[o].st = "materialized"
                                                 THEN "completed" ELSE order[o].st]
      BY <1>1, <2>1 DEF CleanUp
    <3> QED
      BY <1>1, <3>1 DEF Row
  <2>2. CASE Reconcile
    <3>1. \/ order'[o] = order[o]
          \/ /\ order'[o] = [order[o] EXCEPT !.st = "cancelled", !.inst = NoInstance]
             /\ order[o].st = "materialized"
      BY <1>1, <2>2, ReconcileRows
    <3> QED
      BY <1>1, <3>1 DEF Row
  <2>3. ASSUME NEW i \in Instances, InstanceRequest(i)
        PROVE  /\ order'[o].rs = order[o].rs
               /\ order'[o].st = "absent" <=> order[o].st = "absent"
               /\ order[o].st = "cancelled" => order'[o].st = "cancelled"
    <3>1. CASE Start(i) \/ Stop(i)
      BY <3>1 DEF Start, Stop, rows
    <3>2. ASSUME NEW b \in BOOLEAN, EndDue(i, b) \/ DeleteInstance(i)
          PROVE  \/ order'[o] = order[o]
                 \/ /\ order'[o] = [order[o] EXCEPT !.st = "completed"]
                    /\ order[o].st = "materialized"
                 \/ /\ order'[o] = [order[o] EXCEPT !.st = "cancelled", !.inst = NoInstance]
                    /\ Exists(o)
      BY <1>1, <3>2 DEF EndDue, DeleteInstance, Owners
    <3>3. CASE \E b \in BOOLEAN : EndDue(i, b) \/ DeleteInstance(i)
      BY <1>1, <3>2, <3>3 DEF Row, Exists
    <3> QED
      BY <2>3, <3>1, <3>3 DEF InstanceRequest
  <2> QED
    BY <2>1, <2>2, <2>3
<1> QED
  BY <1>2, <1>3, <1>4, SameTalks

\* What the order's routing writes in its conversation.
LEMMA SyncTells ==
  ASSUME OwnInv, NEW o \in Orders, UNCHANGED repeated \/ repeated' = repeated \cup {o}
  PROVE  /\ \A net \in BOOLEAN : SyncAfterRouting(o, net) =>
              /\ TalkOnlyOn(o)
              /\ o \in Chat => \/ conv'[o].st = "absent"
                               \/ conv'[o].linked /\ conv'[o].st = IF net THEN "ready_to_submit"
                                                                          ELSE "submitted"
         /\ SyncLinked(o, "submitted") =>
              /\ TalkOnlyOn(o)
              /\ o \in Chat => \/ conv'[o].st = "absent"
                               \/ /\ conv'[o].linked = conv[o].linked /\ conv[o].st # "absent"
                                  /\ conv'[o].st = "submitted"
         /\ UNCHANGED conv => TalkOnlyOn(o)
<1>1. ASSUME NEW c, HasConversation(o), SetConversation(o, c)
      PROVE  TalkOnlyOn(o) /\ conv'[o] = c
  BY <1>1, Told DEF TalkOnlyOn, HasConversation
<1>2. ASSUME UNCHANGED conv PROVE TalkOnlyOn(o)
  BY <1>2 DEF TalkOnlyOn
<1>3. o \in Chat /\ ~ HasConversation(o) => conv[o].st = "absent"
  BY DEF HasConversation
<1>4. ASSUME NEW net \in BOOLEAN, SyncAfterRouting(o, net)
      PROVE  /\ TalkOnlyOn(o)
             /\ o \in Chat => \/ conv'[o].st = "absent"
                              \/ conv'[o].linked /\ conv'[o].st = IF net THEN "ready_to_submit"
                                                                         ELSE "submitted"
  <2>1. CASE HasConversation(o)
    BY <1>1, <1>4, <2>1 DEF SyncAfterRouting
  <2>2. CASE ~ HasConversation(o)
    BY <1>2, <1>3, <1>4, <2>2 DEF SyncAfterRouting
  <2> QED
    BY <2>1, <2>2
<1>5. ASSUME SyncLinked(o, "submitted")
      PROVE  /\ TalkOnlyOn(o)
             /\ o \in Chat => \/ conv'[o].st = "absent"
                              \/ /\ conv'[o].linked = conv[o].linked /\ conv[o].st # "absent"
                                 /\ conv'[o].st = "submitted"
  <2>1. CASE HasConversation(o)
    <3>1. SetConversation(o, [conv[o] EXCEPT !.st = "submitted"]) /\ conv[o] \in ConvRow
      BY <1>5, <2>1 DEF SyncLinked, HasConversation, OwnInv, TalkType
    <3>2. /\ [conv[o] EXCEPT !.st = "submitted"].st = "submitted"
          /\ [conv[o] EXCEPT !.st = "submitted"].linked = conv[o].linked
      BY <3>1 DEF ConvRow
    <3> QED
      BY <1>1, <2>1, <3>1, <3>2 DEF HasConversation
  <2>2. CASE ~ HasConversation(o)
    BY <1>2, <1>3, <1>5, <2>2 DEF SyncLinked
  <2> QED
    BY <2>1, <2>2
<1> QED
  BY <1>2, <1>4, <1>5

\* A handler writes no conversation but that of its order.
LEMMA ContinueTalkOnly ==
  ASSUME OwnInv, NEW j \in Jobs, Continue(j), NEW o \in Orders, o = job[j].o
  PROVE  TalkOnlyOn(o)
<1>1. job[j].net \in BOOLEAN
  BY ContinueLocal, JobFacts
<1>2. ASSUME NEW c, HasConversation(o), SetConversation(o, c), UNCHANGED repeated
      PROVE  TalkOnlyOn(o)
  BY <1>2, Told DEF TalkOnlyOn, HasConversation
<1>3. CASE LinkResult(j) \/ AnswerAgain(j) \/ \E net \in BOOLEAN : RouteOnly(j, net)
  <2>1. UNCHANGED repeated \/ repeated' = repeated \cup {o}
    BY <1>3 DEF LinkResult, AnswerAgain, RouteOnly
  <2>2. (\E net \in BOOLEAN : SyncAfterRouting(o, net)) \/ SyncLinked(o, "submitted")
    BY <1>1, <1>3 DEF LinkResult, AnswerAgain, RouteOnly
  <2> QED
    BY <2>1, <2>2, SyncTells
<1>4. CASE Cancel(j)
  BY <1>2, <1>4 DEF Cancel, TalkOnlyOn
<1>5. CASE Delete(j)
  BY <1>2, <1>5 DEF Delete, Detach, TalkOnlyOn
<1>6. CASE UNCHANGED <<conv, repeated>>
  BY <1>6 DEF TalkOnlyOn
<1>7. \A i \in Instances : Makes(j, i) => UNCHANGED <<conv, repeated>>
  BY DEF Makes, PlaceResult, PlaceAuto, PlaceMaterialized, CommitNew
<1>8. Refuse(j) \/ LinkInstance(j) \/ MaterializeFails(j) \/ Drop(j) => UNCHANGED <<conv, repeated>>
  BY DEF Refuse, LinkInstance, MaterializeFails, Drop, rows
<1>9. ASSUME NEW i \in Instances, NEW s \in Slots, PlaceConfirmed(j, i, s) PROVE TalkOnlyOn(o)
  BY <1>2, <1>9 DEF PlaceConfirmed
<1> QED
  BY <1>3, <1>4, <1>5, <1>6, <1>7, <1>8, <1>9 DEF Continue, Makes

\* The only handler of an order commits what it has made of the row.
LEMMA AloneCommits ==
  ASSUME OwnInv, NEW j \in Jobs, job[j].op # "none", NEW o \in Orders, o = job[j].o, Calm(o),
         NEW new \in Row, NEW flagged \in SUBSET {"config"}, Commits(o, job[j].seen, new, flagged)
  PROVE  order'[o] = new
<1>1. job[j].seen \in Row /\ job[j].seen = order[o]
  BY JobFacts, AloneCalm
<1>2. PICK row \in Row : SetsRow(o, row) /\ (job[j].seen = order[o] => row = new)
  BY <1>1, MergedRow
<1> QED
  BY <1>1, <1>2 DEF SetsRow, OwnInv, ClaimInv, RowsType

\* A handler answers, and the conversation shows what it has committed.
LEMMA ContinueTalks ==
  ASSUME OwnInv, AdmittedInv, NEW j \in Jobs, Continue(j), NEW o \in Chat, o = job[j].o,
         Calm(o), o \notin overlapped', Talks(o)
  PROVE  Talks(o)'
<1> DEFINE w == job[j]
<1>1. /\ o \in Orders /\ w.op # "none" /\ w \in Job /\ order[o] \in Row
      /\ w.op # "confirm" => Exists(o)
      /\ w.seen \in Row /\ w.seen = order[o] /\ w.net \in BOOLEAN
      /\ w.inst \in Instances \cup {NoInstance}
      /\ \A k \in Jobs : On(k, o) => k = j
      /\ w.made /\ w.op \in {"result", "platform"} => w.seen.inst = NoInstance
  <2>1. o \in Orders /\ w.op # "none"
    BY ContinueLocal, OrderAssumption
  <2> QED
    BY <2>1, JobFacts, AloneCalm DEF OwnInv, ClaimInv, RowsType, Exists
<1>2. ~ w.made \/ w.op = "materialize" => \A k \in Jobs : ~ Placing(k, o)
  BY <1>1 DEF Placing
<1>3. /\ Admitted(w)
      /\ (\A i \in Instances : Makes(j, i) => Exists(o))
      /\ AnswerAgain(j) \/ LinkResult(j) \/ Cancel(j) => Exists(o)
  <2>1. ASSUME NEW i \in Instances, Makes(j, i) PROVE Exists(o)
    BY <1>1, <2>1, MakesForm
  <2>2. AnswerAgain(j) \/ LinkResult(j) \/ Cancel(j) => Exists(o)
    BY DEF AnswerAgain, LinkResult, Cancel
  <2>3. Admitted(w)
    BY DEF AdmittedInv
  <2> QED
    BY <2>1, <2>2, <2>3
<1>4. CASE Refuse(j)
  BY <1>2, <1>4 DEF Refuse, Talks, Exists, rows
<1>5. CASE AnswerAgain(j)
  <2>1. /\ UNCHANGED order /\ (UNCHANGED repeated \/ repeated' = repeated \cup {o})
        /\ \/ o \in repeated' /\ SyncAfterRouting(o, w.seen.config.net # "none")
           \/ SyncLinked(o, "submitted")
    BY <1>5 DEF AnswerAgain
  <2>2. \/ conv'[o].st = "absent"
        \/ conv'[o].linked /\ o \in repeated'
        \/ /\ conv'[o].linked = conv[o].linked /\ conv'[o].st = "submitted"
           /\ conv[o].st # "absent"
    BY <1>1, <2>1, SyncTells
  <2>3. conv[o].st # "absent" => conv[o].linked
    BY <1>3, <1>5 DEF Talks
  <2>4. conv'[o].st \notin {"absent", "submitted"} => o \in repeated'
    BY <2>2
  <2>5. conv'[o].st # "absent" => conv'[o].linked
    BY <2>2, <2>3
  <2> QED
    BY <2>4, <2>5 DEF Talks
<1>6. CASE Drop(j)
  BY <1>6 DEF Drop
<1>7. ASSUME NEW i \in Instances, Makes(j, i) PROVE Talks(o)'
  <2>1. PICK new \in Row, flagged \in SUBSET {"config"}, net \in BOOLEAN :
          MakesWith(j, i, new, flagged, net)
    BY <1>7, MakesForm
  <2>2. /\ ~ w.made /\ Commits(o, w.seen, new, flagged)
        /\ w.op = "materialize" => new = w.seen
        /\ UNCHANGED <<conv, repeated>>
        /\ job' = [job EXCEPT ![j] = [w EXCEPT !.made = TRUE, !.inst = i, !.seen = new, !.net = net]]
    BY <1>7, <2>1, MakesForm DEF MakesWith, CommitNew, Commits
  <2>3. order'[o] = new
    BY <1>1, <2>2, AloneCommits
  <2>4. job'[j].op = w.op /\ job'[j].o = o /\ job'[j].made = TRUE
    BY <1>1, <2>2 DEF Job, OwnInv, ClaimInv, JobsType
  <2>5. CASE w.op = "materialize"
    BY <1>1, <1>2, <2>2, <2>3, <2>5 DEF Talks, Exists
  <2>6. CASE w.op # "materialize"
    <3>1. Placing(j, o)'
      BY <1>1, <2>4, <2>6 DEF Placing, On
    <3>2. Exists(o)
      BY <1>3, <1>7
    <3> QED
      BY <1>1, <2>2, <3>1, <3>2 DEF Talks
  <2> QED
    BY <2>5, <2>6
<1>8. ASSUME NEW net \in BOOLEAN, UNCHANGED repeated,
             order'[o].rs = (IF net THEN "network_binding_ready" ELSE "completed"),
             SyncAfterRouting(o, net)
      PROVE  Talks(o)'
  <2>1. \/ conv'[o].st = "absent"
        \/ conv'[o].linked /\ conv'[o].st = IF net THEN "ready_to_submit" ELSE "submitted"
    BY <1>1, <1>8, SyncTells
  <2> QED
    BY <1>8, <2>1 DEF Talks
<1>9. CASE LinkResult(j)
  <2> DEFINE new == [w.seen EXCEPT !.inst = w.inst, !.st = "materialized",
                       !.rs = IF w.net THEN "network_binding_ready" ELSE "completed",
                       !.config.net = IF w.net THEN "waiting" ELSE "none"]
  <2>1. new \in Row /\ new.rs = IF w.net THEN "network_binding_ready" ELSE "completed"
    BY <1>1 DEF Row, RoutingStatus, OrderStatus, Config
  <2>2. Commits(o, w.seen, new, {"config"}) /\ SyncAfterRouting(o, w.net) /\ UNCHANGED repeated
    BY <1>9 DEF LinkResult, Commits
  <2> HIDE DEF new
  <2>3. order'[o] = new
    BY <1>1, <2>1, <2>2, AloneCommits
  <2> QED
    BY <1>1, <1>8, <2>1, <2>2, <2>3
<1>10. ASSUME NEW net \in BOOLEAN, RouteOnly(j, net) PROVE Talks(o)'
  <2> DEFINE st == IF w.seen.config.mode = "route_only" THEN "pending" ELSE "completed"
             new == [w.seen EXCEPT !.st = st,
                       !.rs = IF net THEN "network_binding_ready" ELSE "completed",
                       !.config.net = IF net THEN "waiting" ELSE "none"]
  <2>1. Commits(o, w.seen, new, {"config"}) /\ SyncAfterRouting(o, net) /\ UNCHANGED repeated
    BY <1>10 DEF RouteOnly, Commits
  <2>2. new \in Row /\ new.rs = IF net THEN "network_binding_ready" ELSE "completed"
    <3>1. st \in OrderStatus
      BY DEF OrderStatus
    <3> HIDE DEF st
    <3> QED
      BY <1>1, <3>1 DEF Row, RoutingStatus, Config
  <2> HIDE DEF new
  <2>3. order'[o] = new
    BY <1>1, <2>1, <2>2, AloneCommits
  <2> QED
    BY <1>8, <2>1, <2>2, <2>3
<1>11. ASSUME NEW new \in Row, NEW flagged \in SUBSET {"config"}, w.op = "materialize",
              Commits(o, w.seen, new, flagged), new.rs = w.seen.rs, UNCHANGED <<conv, repeated>>
       PROVE  Talks(o)'
  <2>1. order'[o] = new
    BY <1>1, <1>11, AloneCommits
  <2>2. order[o].st # "cancelled" /\ order[o].st # "absent"
    BY <1>1, <1>3, <1>11 DEF Admitted, Exists
  <2> QED
    BY <1>1, <1>2, <1>11, <2>1, <2>2 DEF Talks
<1>12. CASE LinkInstance(j)
  <2> DEFINE new == [w.seen EXCEPT !.inst = w.inst, !.st = "materialized"]
  <2>1. new \in Row /\ new.rs = w.seen.rs
    BY <1>1 DEF Row, OrderStatus
  <2>2. w.op = "materialize"
    BY <1>1, <1>3, <1>12, OrderAssumption DEF LinkInstance, Admitted
  <2>3. Commits(o, w.seen, new, {}) /\ UNCHANGED <<conv, repeated>>
    BY <1>12, <2>2 DEF LinkInstance, Commits
  <2> HIDE DEF new
  <2> QED
    BY <1>11, <2>1, <2>2, <2>3
<1>13. CASE MaterializeFails(j)
  <2> DEFINE new == [w.seen EXCEPT !.st = "failed"]
  <2>1. new \in Row /\ new.rs = w.seen.rs
    BY <1>1 DEF Row, OrderStatus
  <2>2. w.op = "materialize" /\ Commits(o, w.seen, new, {}) /\ UNCHANGED <<conv, repeated>>
    BY <1>13 DEF MaterializeFails, Commits
  <2> HIDE DEF new
  <2> QED
    BY <1>11, <2>1, <2>2
<1>14. CASE Cancel(j)
  <2> DEFINE new == [w.seen EXCEPT !.st = "cancelled", !.rs = "cancelled"]
  <2>1. new \in Row /\ new.st = "cancelled"
    BY <1>1 DEF Row, RoutingStatus, OrderStatus
  <2>2. Commits(o, w.seen, new, {}) /\ UNCHANGED repeated
    BY <1>14 DEF Cancel, Commits
  <2> HIDE DEF new
  <2>3. order'[o] = new
    BY <1>1, <2>1, <2>2, AloneCommits
  <2>4. CASE ~ HasConversation(o)
    BY <1>14, <2>4 DEF Cancel, HasConversation, Talks
  <2>5. CASE HasConversation(o)
    <3>1. conv[o] \in ConvRow /\ conv[o].linked
      BY <1>3, <1>14, <2>5 DEF HasConversation, Talks, OwnInv, TalkType
    <3>2. SetConversation(o, [conv[o] EXCEPT !.st = "cancelled"])
      BY <1>14, <2>5, <3>1 DEF Cancel
    <3>3. conv'[o].st = "cancelled" /\ conv'[o].linked
      BY <3>1, <3>2, Told DEF ConvRow
    <3> QED
      BY <2>1, <2>3, <3>3 DEF Talks
  <2> QED
    BY <2>4, <2>5
<1>15. CASE Delete(j)
  <2>1. order'[o].st = "absent"
    BY <1>1, <1>15 DEF Delete, Absent, Fresh, OwnInv, ClaimInv, RowsType
  <2>2. CASE ~ HasConversation(o)
    BY <1>15, <2>2 DEF Delete, Detach, HasConversation, Talks
  <2>3. CASE HasConversation(o)
    <3>1. SetConversation(o, [st |-> "cancelled", linked |-> FALSE])
      BY <1>15, <2>3 DEF Delete, Detach
    <3> QED
      BY <2>1, <3>1, Told DEF Talks, Exists
  <2> QED
    BY <2>2, <2>3
<1>16. ASSUME NEW i \in Instances, NEW s \in Slots, PlaceConfirmed(j, i, s) PROVE Talks(o)'
  <2> DEFINE row == [Fresh("computing", "deploy") EXCEPT !.config.slot = s]
             v == [w EXCEPT !.op = "platform", !.made = TRUE, !.seen = row, !.inst = i]
  <2>1. /\ HasConversation(o) /\ UNCHANGED repeated /\ job' = [job EXCEPT ![j] = v]
        /\ SetConversation(o, [st |-> "awaiting_routing", linked |-> TRUE])
    BY <1>16 DEF PlaceConfirmed
  <2> HIDE DEF row
  <2>2. v.op = "platform" /\ v.made = TRUE /\ v.o = o
    BY <1>1 DEF Job
  <2> HIDE DEF v
  <2>3. Placing(j, o)'
    BY <2>1, <2>2 DEF Placing, On, OwnInv, ClaimInv, JobsType
  <2>4. conv'[o].st = "awaiting_routing" /\ conv'[o].linked
    BY <2>1, Told DEF HasConversation
  <2> QED
    BY <2>3, <2>4 DEF Talks
<1> QED
  BY <1>4, <1>5, <1>6, <1>7, <1>9, <1>10, <1>12, <1>13, <1>14, <1>15, <1>16 DEF Continue, Makes

\* A handler opens.
LEMMA OpenTalks ==
  ASSUME OwnInv, NEW o \in Orders, NEW j \in Jobs, NEW op \in Handlers, Open(j, op, o)
  PROVE  /\ TalkOnlyOn(o)
         /\ o \in Chat /\ Talks(o) /\ o \notin overlapped' => Talks(o)'
<1>1. /\ UNCHANGED <<order, conv, repeated>> /\ job' = [job EXCEPT ![j] = job'[j]]
      /\ job[j].op = "none" /\ job'[j].made = FALSE
      /\ o \notin overlapped' => Busy(o) = {}
  BY DEF Open, rows, Touch, Idle, OwnInv, ClaimInv, JobsType
<1>2. TalkOnlyOn(o)
  BY <1>1 DEF TalkOnlyOn
<1>3. ASSUME o \in Chat, Talks(o), o \notin overlapped' PROVE Talks(o)'
  BY <1>1, <1>3 DEF Talks, Exists, Placing, On, Busy
<1> QED
  BY <1>2, <1>3

\* At first every conversation is a draft.
LEMMA TalksInit == Init => TalksInv
<1> SUFFICES ASSUME Init, NEW o \in Chat PROVE Talks(o)
  BY DEF TalksInv
<1>1. conv[o].st = "drafting" /\ ~ Exists(o)
  BY OrderAssumption DEF Init, Exists, Absent, Fresh
<1> QED
  BY <1>1 DEF Talks

\* What is shown stays true until handlers overlap or an answer is repeated.
LEMMA TalksNext == CalmInv /\ AdmittedInv /\ TalksInv /\ [Next]_vars => TalksInv'
<1> SUFFICES ASSUME CalmInv, AdmittedInv, TalksInv, [Next]_vars PROVE TalksInv'
  OBVIOUS
<1>1. OwnInv /\ InstancesKept /\ overlapped \subseteq overlapped'
  BY OwnStep, Grows DEF CalmInv
<1>2. ASSUME NEW o \in Orders, Local(o), TalkOnlyOn(o),
             o \in Chat /\ o \notin overlapped' => Talks(o)'
      PROVE  TalksInv'
  <2>1. ASSUME NEW p \in Chat, p \notin overlapped' PROVE Talks(p)'
    <3>1. CASE p = o
      BY <1>2, <2>1, <3>1
    <3>2. CASE p # o
      BY <1>1, <1>2, <2>1, <3>2, TalksKept DEF TalksInv, Local
    <3> QED
      BY <3>1, <3>2
  <2> QED
    BY <2>1 DEF TalksInv
<1>3. ASSUME NEW o \in Chat, o \notin overlapped' PROVE Calm(o) /\ Talks(o)
  BY <1>1, <1>3, OrderAssumption DEF CalmInv, TalksInv
<1>4. ASSUME NEW j \in Jobs, Continue(j) PROVE TalksInv'
  <2>1. PICK o \in Orders : o = job[j].o
    BY <1>1, <1>4, ContinueLocal, JobFacts
  <2>2. Local(o) /\ TalkOnlyOn(o)
    BY <1>1, <1>4, <2>1, ContinueLocal, ContinueTalkOnly
  <2>3. o \in Chat /\ o \notin overlapped' => Talks(o)'
    BY <1>1, <1>3, <1>4, <2>1, ContinueTalks
  <2> QED
    BY <1>2, <2>2, <2>3
<1>5. ASSUME NEW o \in Orders, RouterRequest(o) PROVE TalksInv'
  <2>1. Local(o)
    BY <1>1, <1>5, RequestLocal
  <2>2. TalkOnlyOn(o) /\ (o \in Chat /\ o \notin overlapped' => Talks(o)')
    BY <1>1, <1>3, <1>5, QueueTalks, NetworkReadyTalks DEF RouterRequest
  <2> QED
    BY <1>2, <2>1, <2>2
<1>6. ASSUME NEW o \in Orders, UserRequest(o) PROVE TalksInv'
  <2>1. Local(o)
    BY <1>1, <1>6, RequestLocal
  <2>2. CASE \E b \in BOOLEAN : CleanUp(o, b)
    <3>1. TalkOnlyOn(o)
      BY <2>2 DEF CleanUp, TalkOnlyOn
    <3>2. o \in Chat /\ o \notin overlapped' => Talks(o)'
      BY <1>1, <1>3, <2>2, RuntimeTalks
    <3> QED
      BY <1>2, <2>1, <3>1, <3>2
  <2>3. CASE \E j \in Jobs, op \in Handlers : Open(j, op, o)
    BY <1>1, <1>2, <1>3, <2>1, <2>3, OpenTalks
  <2>4. CASE \/ \E mode \in Modes : Confirm(o, mode)
             \/ CancelConversation(o) \/ Submit(o) \/ EditDraft(o) \/ DeleteConversation(o)
    BY <1>1, <1>2, <1>3, <2>1, <2>4, QueueTalks
  <2> QED
    BY <1>6, <2>2, <2>3, <2>4 DEF UserRequest
<1>7. ASSUME NEW i \in Instances, InstanceRequest(i) PROVE TalksInv'
  <2>1. PICK o \in Orders : o = inst[i].src
    BY <1>1, <1>7, RequestLocal
  <2>2. Local(o)
    BY <1>1, <1>7, <2>1, RequestLocal
  <2>3. TalkOnlyOn(o)
    BY <1>7 DEF InstanceRequest, Start, Stop, EndDue, DeleteInstance, TalkOnlyOn, rows
  <2>4. o \in Chat /\ o \notin overlapped' => Talks(o)'
    BY <1>1, <1>3, <1>7, <2>1, RuntimeTalks
  <2> QED
    BY <1>2, <2>2, <2>3, <2>4
<1>8. CASE Reconcile
  <2>1. ASSUME NEW o \in Chat, o \notin overlapped' PROVE Talks(o)'
    <3>1. /\ o \in Orders /\ UNCHANGED <<conv, repeated, job>>
          /\ order'[o] = order[o] \/ Busy(o) = {}
      BY <1>1, <1>8, <2>1, OrderAssumption, ReconcileRows DEF Reconcile
    <3>2. CASE Busy(o) = {}
      BY <1>1, <1>3, <1>8, <2>1, <3>2, RuntimeTalks
    <3>3. CASE order'[o] = order[o]
      <4>1. \A j \in Jobs : Placing(j, o)' = Placing(j, o)
        BY <3>1 DEF Placing, On
      <4> QED
        BY <1>3, <2>1, <3>1, <3>3, <4>1 DEF Talks, Exists
    <3> QED
      BY <3>1, <3>2, <3>3
  <2> QED
    BY <2>1 DEF TalksInv
<1>9. CASE UNCHANGED vars
  BY <1>9 DEF TalksInv, Talks, Exists, Placing, On, vars, rows
<1> QED
  BY <1>4, <1>5, <1>6, <1>7, <1>8, <1>9 DEF Next, Request

\* What the user is shown agrees with where the order is, as long as its handlers
\* come one after the other and no answer is repeated.
THEOREM ConversationShowsOrder == Spec => []ConversationFollows
<1>1. TalksInv => ConversationFollows
  BY DEF TalksInv, Talks, ConversationFollows, Busy, Placing, On
<1> QED
  BY <1>1, CalmInit, CalmNext, AdmittedInit, AdmittedStep, TalksInit, TalksNext, PTL
  DEF Spec, CalmInv

-----------------------------------------------------------------------------
(* Who has which slot.                                                       *)

\* A handler that looks for a slot is under way.
Placer(j, o) == On(j, o) /\ job[j].op \in Placers

\* An order that holds a slot, and whose handler is not between its commits, shows
\* it: others see it taken.  What POST /materialize makes is on no slot.
Backed(o) ==
  /\ \A j \in Jobs : On(j, o) /\ job[j].made =>
       /\ job[j].op = "auto" => order[o].rs = "completed"
       /\ job[j].op = "materialize" => inst[job[j].inst].slot = NoSlot
  /\ \A s \in Slots : Holds(o, s) /\ o \notin dropped /\ (\A j \in Jobs : ~ Placing(j, o)) =>
       order[o].st = "materialized" /\ order[o].rs \in {"network_binding_ready", "completed"}

BackedInv == \A o \in Orders \ (overlapped \cup restarted) : Backed(o)

\* Two orders whose handlers look for a slot at one time have met.
Together ==
  /\ \A j, k \in Jobs, o, p \in Orders :
       o # p /\ Placer(j, o) /\ Placer(k, p) => <<o, p>> \in met
  /\ \A o, p \in Orders : <<o, p>> \in met => <<p, o>> \in met

Excepted == overlapped \cup restarted \cup dropped
Meets(o, p) == <<o, p>> \in met \/ (internalAuto /\ {o, p} \cap Benchmark # {})

\* A slot that a handler has seen free is held by none but those it has met.
SeenTaken ==
  \A j \in Jobs, o \in Orders, p \in Orders \ Excepted, s \in Slots :
    Placer(j, o) /\ ~ job[j].made /\ p # o /\ Holds(p, s) => s \in job[j].taken \/ Meets(o, p)

\* All that is known of who has which slot.
SlotInv == CalmInv /\ AdmittedInv /\ BackedInv /\ Together /\ SeenTaken /\ SlotExclusive

\* What a step may not do to an order: take a slot.
NotMore(o) == \A s \in Slots : Holds(o, s)' => Holds(o, s)

\* A handler that takes one has seen it free, or the platform routes a benchmark
\* order.
Gains(o) ==
  \/ \E j \in Jobs : /\ Placer(j, o) /\ ~ job[j].made
                     /\ \A s \in Slots : Holds(o, s)' => s \notin job[j].taken
  \/ internalAuto /\ o \in Benchmark
Fits(o) == NotMore(o) \/ Gains(o)

\* What holds a slot for an order that no handler is on is what its row names.
LEMMA HeldByRow ==
  ASSUME OwnInv, NEW o \in Orders, Calm(o), \A j \in Jobs : On(j, o) => ~ job[j].made,
         NEW s \in Slots, Holds(o, s)
  PROVE  LET i == order[o].inst IN
         /\ i \in Kept(o) /\ i \in Instances /\ HasRow(i)
         /\ inst[i].src = o /\ inst[i].slot = s /\ inst[i].st \in {"waiting", "running"}
         /\ order[o].config.slot = s /\ <<o, s>> \notin released /\ Exists(o)
<1>1. PICK i \in Kept(o) : inst[i].slot = s /\ inst[i].st \in {"waiting", "running"}
  BY DEF Holds, Kept
<1>2. i = order[o].inst
  BY <1>1 DEF Calm, RowCalm
<1>3. i \in Instances /\ HasRow(i) /\ inst[i].src = o /\ i \notin disowned
  BY <1>1 DEF Kept, Made
<1>4. order[o].config.slot = s
  BY <1>1, <1>3, NoneAssumption DEF Calm, InstanceCalm
<1>5. Exists(o)
  BY <1>2, <1>3, NoneAssumption DEF OwnInv, Owned, Absent, Fresh
<1> QED
  BY <1>1, <1>2, <1>3, <1>4, <1>5 DEF Holds

\* An order that no handler is on and that names no instance holds nothing.
LEMMA NothingHeld ==
  ASSUME NEW o \in Orders, Calm(o), order[o].inst = NoInstance,
         \A j \in Jobs : On(j, o) => ~ job[j].made
  PROVE  Kept(o) = {} /\ \A s \in Slots : ~ Holds(o, s)
<1>1. Kept(o) \subseteq {NoInstance} /\ Kept(o) \subseteq Instances
  BY DEF Calm, RowCalm, Kept, Made
<1>2. Kept(o) = {}
  BY <1>1, NoneAssumption
<1> QED
  BY <1>2 DEF Holds, Kept

\* Instances that were started again stay in the list of those.
LEMMA RestartedGrows ==
  ASSUME [Next]_vars
  PROVE  restarted \subseteq restarted'
<1>1. \A i \in Instances : Again(i) => restarted \subseteq restarted'
  BY DEF Again
<1>2. ASSUME NEW j \in Jobs, Continue(j) PROVE restarted' = restarted
  BY <1>2 DEF Continue, Refuse, AnswerAgain, PlaceAuto, PlaceResult, PlaceMaterialized, CommitNew,
              PlaceConfirmed, LinkResult, LinkInstance, MaterializeFails, RouteOnly, Cancel, Delete,
              Drop, runtime
<1>3. ASSUME NEW o \in Orders, UserRequest(o) PROVE restarted' = restarted
  BY <1>3 DEF UserRequest, Open, CleanUp, Confirm, CancelConversation, Submit, EditDraft,
              DeleteConversation, runtime
<1>4. ASSUME NEW o \in Orders, RouterRequest(o) PROVE restarted \subseteq restarted'
  BY <1>4 DEF RouterRequest, Claim, Requeue, FailRouting, NetworkReady, Again, runtime
<1>5. ASSUME NEW i \in Instances, InstanceRequest(i) PROVE restarted \subseteq restarted'
  BY <1>1, <1>5 DEF InstanceRequest, Start, Stop, EndDue, DeleteInstance
<1>6. Reconcile \/ UNCHANGED vars => restarted' = restarted
  BY DEF Reconcile, vars, runtime
<1> QED
  BY <1>2, <1>3, <1>4, <1>5, <1>6 DEF Next, Request

\* A step on another order leaves what this one has.
LEMMA BackedKept ==
  ASSUME OwnInv, NEW o, Local(o), NEW p \in Orders \ {o}, dropped \subseteq dropped'
  PROVE  (Backed(p) => Backed(p)') /\ NotMore(p)
<1>1. /\ order'[p] = order[p] /\ released \subseteq released' /\ disowned \subseteq disowned'
      /\ \A j \in Jobs : On(j, p) \/ On(j, p)' => job'[j] = job[j]
      /\ \A i \in Instances : inst'[i].src = p => inst'[i] = inst[i]
  BY DEF Local, OnlyOn
<1>2. \A j \in Jobs : (On(j, p)' <=> On(j, p)) /\ (Placing(j, p)' <=> Placing(j, p))
  BY <1>1 DEF Placing, On
<1>3. NotMore(p)
  BY <1>1 DEF NotMore, Holds, Made, HasRow
<1>4. ASSUME Backed(p), NEW j \in Jobs, On(j, p)', job'[j].made
      PROVE  /\ job'[j].op = "auto" => order'[p].rs = "completed"
             /\ job'[j].op = "materialize" => inst'[job'[j].inst].slot = NoSlot
  <2>1. job'[j] = job[j] /\ On(j, p)
    BY <1>1, <1>2, <1>4
  <2>2. job[j].inst \in Instances /\ inst[job[j].inst].st # "unused"
    BY <1>4, <2>1, JobFacts DEF On, Names
  <2>3. inst'[job[j].inst].slot = inst[job[j].inst].slot
    BY <2>2 DEF Local, InstancesKept
  <2> QED
    BY <1>1, <1>4, <2>1, <2>3 DEF Backed
<1>5. ASSUME Backed(p), NEW s \in Slots, Holds(p, s)', p \notin dropped',
             \A j \in Jobs : ~ Placing(j, p)'
      PROVE  order'[p].st = "materialized"
             /\ order'[p].rs \in {"network_binding_ready", "completed"}
  BY <1>1, <1>2, <1>3, <1>5 DEF Backed, NotMore
<1> QED
  BY <1>3, <1>4, <1>5 DEF Backed

\* What a step does to an order that nobody is at work on: it gives it no slot, and
\* what still holds one is shown as before.
Quiet(o) ==
  /\ Busy(o) = {} /\ UNCHANGED job
  /\ \A s \in Slots : Holds(o, s)' =>
       /\ Holds(o, s)
       /\ o \notin dropped' =>
            order'[o].st = order[o].st /\ order'[o].rs \in {order[o].rs, "completed"}

\* An order no handler is on stays as it is shown.
LEMMA QuietKeeps ==
  ASSUME NEW o \in Orders, Quiet(o), Backed(o), dropped \subseteq dropped'
  PROVE  Backed(o)' /\ NotMore(o)
<1>1. \A j \in Jobs : ~ On(j, o) /\ ~ On(j, o)' /\ ~ Placing(j, o) /\ ~ Placing(j, o)'
  BY DEF Quiet, Busy, On, Placing
<1>2. NotMore(o)
  BY DEF Quiet, NotMore
<1>3. Backed(o)'
  BY <1>1 DEF Backed, Quiet
<1> QED
  BY <1>2, <1>3

\* No handler has made anything for an order that nobody is at work on.
LEMMA NobodyMade ==
  ASSUME NEW o \in Orders, Busy(o) = {}
  PROVE  \A j \in Jobs : ~ On(j, o) /\ (On(j, o) => ~ job[j].made) /\ ~ Placing(j, o)
  BY DEF Busy, On, Placing

\* A router's or a user's request that writes no instance.
LEMMA QueueQuiet ==
  ASSUME OwnInv, NEW o \in Orders, o \notin overlapped', Calm(o), Backed(o),
         dropped \subseteq dropped',
         \/ \E r \in Routers : Claim(r, o) \/ Requeue(r, o) \/ FailRouting(r, o)
         \/ \E mode \in Modes : Confirm(o, mode)
         \/ CancelConversation(o) \/ Submit(o) \/ EditDraft(o) \/ DeleteConversation(o)
  PROVE  Quiet(o)
<1>1. UNCHANGED <<job, inst, released, disowned>> /\ Touch(o)
  BY DEF Claim, Requeue, FailRouting, Confirm, CancelConversation, Submit, EditDraft,
         DeleteConversation, runtime, notes
<1>2. Busy(o) = {}
  BY <1>1, Touched DEF OwnInv
<1>3. \A s \in Slots : Holds(o, s)' <=> Holds(o, s)
  BY <1>1 DEF Holds, Made, HasRow
<1>4. ASSUME NEW s \in Slots, Holds(o, s), o \notin dropped'
      PROVE  order'[o] = order[o]
  <2>1. /\ order[o].st = "materialized" /\ order[o].rs \in {"network_binding_ready", "completed"}
    BY <1>2, <1>4, NobodyMade DEF Backed
  <2>2. Made(o) # {} /\ Exists(o)
    BY <1>4, <2>1 DEF Holds, Exists
  <2>3. ~ CancelConversation(o)
    BY <1>4, <2>2 DEF CancelConversation, Leaves
  <2>4. \A r \in Routers : ~ Claim(r, o) /\ ~ Requeue(r, o) /\ ~ FailRouting(r, o)
    BY <2>1 DEF Claim, Requeue, FailRouting
  <2>5. \A mode \in Modes : ~ Confirm(o, mode)
    BY <2>2 DEF Confirm
  <2> QED
    BY <2>3, <2>4, <2>5 DEF Submit, EditDraft, DeleteConversation
<1> QED
  BY <1>1, <1>2, <1>3, <1>4 DEF Quiet

\* The instance's row gets another status.
LEMMA StatusHolds ==
  ASSUME OwnInv, NEW i \in Instances, HasRow(i), NEW st \in InstanceStatus \ {"unused"},
         inst' = [inst EXCEPT ![i].st = st], disowned \subseteq disowned',
         released \subseteq released', NEW o \in Orders, NEW s \in Slots, Holds(o, s)',
         st \in {"waiting", "running"} => inst[i].st \in {"waiting", "running"}
  PROVE  Holds(o, s)
<1>1. /\ inst'[i].st = st /\ inst'[i].slot = inst[i].slot /\ inst'[i].src = inst[i].src
      /\ \A k \in Instances \ {i} : inst'[k] = inst[k]
  BY StatusLocal
<1>2. PICK k \in Made(o)' \ disowned' : inst'[k].slot = s /\ inst'[k].st \in {"waiting", "running"}
  BY DEF Holds
<1>3. k \in Made(o) \ disowned
  BY <1>1, <1>2 DEF Made, HasRow
<1> QED
  BY <1>1, <1>2, <1>3 DEF Holds

\* Instances that start, stop, end or are deleted.
LEMMA InstanceQuiet ==
  ASSUME OwnInv, NEW i \in Instances, InstanceRequest(i), NEW o \in Orders, o = inst[i].src,
         o \notin overlapped', o \notin restarted', Calm(o)
  PROVE  Quiet(o)
<1>1. HasRow(i) /\ UNCHANGED <<job, disowned>> /\ TouchInstance(i)
  BY DEF InstanceRequest, Start, Stop, EndDue, DeleteInstance, notes
<1>2. Busy(o) = {}
  BY <1>1, TouchedInstance DEF OwnInv
<1>3. CASE Start(i)
  <2>1. PICK st \in {"running", "failed"} : inst' = [inst EXCEPT ![i].st = st]
    BY <1>3 DEF Start, StartEnds
  <2>2. st \in InstanceStatus \ {"unused"}
    BY <2>1 DEF InstanceStatus
  <2>3. UNCHANGED <<order, released>> /\ inst[i].st = "waiting"
    BY <1>3 DEF Start, Again, rows
  <2>4. \A s \in Slots : Holds(o, s)' => Holds(o, s)
    BY <1>1, <2>1, <2>2, <2>3, StatusHolds
  <2> QED
    BY <1>1, <1>2, <2>3, <2>4 DEF Quiet
<1>4. CASE Stop(i)
  <2>1. UNCHANGED order /\ released \subseteq released'
        /\ (UNCHANGED inst \/ inst' = [inst EXCEPT ![i].st = "stopped"])
    BY <1>1, <1>4, ReleaseType DEF Stop, rows
  <2>2. ASSUME NEW s \in Slots, Holds(o, s)', inst' = [inst EXCEPT ![i].st = "stopped"]
        PROVE  Holds(o, s)
    <3>1. "stopped" \in InstanceStatus \ {"unused"}
      BY DEF InstanceStatus
    <3> QED
      BY <1>1, <2>1, <2>2, <3>1, StatusHolds
  <2>3. ASSUME NEW s \in Slots, Holds(o, s)', UNCHANGED inst PROVE Holds(o, s)
    BY <1>1, <2>1, <2>3 DEF Holds, Made, HasRow
  <2> QED
    BY <1>1, <1>2, <2>1, <2>2, <2>3 DEF Quiet
<1>5. ASSUME NEW b \in BOOLEAN, EndDue(i, b) \/ DeleteInstance(i) PROVE Quiet(o)
  <2>1. PICK st \in {"stopped", "waiting", "purged"} :
          /\ inst' = [inst EXCEPT ![i].st = st]
          /\ st = "waiting" => inst[i].st = "waiting"
    BY <1>5 DEF EndDue, DeleteInstance
  <2>2. st \in InstanceStatus \ {"unused"}
    BY <2>1 DEF InstanceStatus
  <2>3. ReleaseInstance(i) /\ released \subseteq released'
    BY <1>1, <1>5, ReleaseType DEF EndDue, DeleteInstance
  <2>4. ASSUME NEW s \in Slots, Holds(o, s)' PROVE Holds(o, s) /\ order'[o] = order[o]
    <3>1. Holds(o, s)
      BY <1>1, <2>1, <2>2, <2>3, <2>4, StatusHolds
    <3>2. Exists(o) /\ order[o].config.slot = s
      BY <1>2, <3>1, HeldByRow, NobodyMade
    <3>3. <<o, s>> \notin released' /\ s # NoSlot
      BY <2>4, NoneAssumption DEF Holds
    <3>4. o \notin Owners(i)
      BY <2>3, <3>2, <3>3 DEF ReleaseInstance
    <3> QED
      BY <1>5, <3>1, <3>4 DEF EndDue, DeleteInstance
  <2> QED
    BY <1>1, <1>2, <2>4 DEF Quiet
<1> QED
  BY <1>3, <1>4, <1>5 DEF InstanceRequest

\* The network is ready, or the runtime is cleaned up.
LEMMA OrderQuiet ==
  ASSUME OwnInv, NEW o \in Orders, NEW b \in BOOLEAN, NetworkReady(o, b) \/ CleanUp(o, b),
         o \notin overlapped', o \notin restarted', Calm(o)
  PROVE  Quiet(o)
<1> DEFINE i == order[o].inst
<1>1. UNCHANGED <<job, disowned>> /\ Touch(o) /\ released \subseteq released'
  BY DEF NetworkReady, CleanUp, Release, notes
<1>2. Busy(o) = {}
  BY <1>1, Touched DEF OwnInv
<1>3. order[o] \in Row /\ order \in [Orders -> Row] /\ i \in Instances \cup {NoInstance}
  BY DEF OwnInv, ClaimInv, RowsType, Row
<1>4. ASSUME NEW s \in Slots, Holds(o, s)
      PROVE  i \in Instances /\ HasRow(i) /\ order[o].config.slot = s /\ i # NoInstance
  BY <1>2, <1>4, HeldByRow, NobodyMade DEF HasRow
<1>5. HasRow(i) => inst[i].src = o
  BY <1>3 DEF HasRow, OwnInv, Owned, Names
<1>6. ASSUME UNCHANGED inst, NEW s \in Slots, Holds(o, s)' PROVE Holds(o, s)
  BY <1>1, <1>6 DEF Holds, Made, HasRow
<1>7. ASSUME HasRow(i), NEW st \in InstanceStatus \ {"unused"}, inst' = [inst EXCEPT ![i].st = st],
             st \in {"waiting", "running"} => inst[i].st \in {"waiting", "running"},
             NEW s \in Slots, Holds(o, s)'
      PROVE  Holds(o, s)
  <2>1. i \in Instances
    BY <1>3, <1>7 DEF HasRow
  <2> QED
    BY <1>1, <1>7, <2>1, StatusHolds
<1>8. CASE NetworkReady(o, b)
  <2> DEFINE row == [order[o] EXCEPT !.rs = "completed",
                       !.config.net = IF order[o].config.net = "none" THEN "none" ELSE "ready"]
  <2>1. row.st = order[o].st /\ row.rs = "completed"
    BY <1>3 DEF Row
  <2>2. ASSUME NEW s \in Slots, Holds(o, s)' PROVE Holds(o, s)
    <3>1. CASE HasRow(i) /\ inst' = [inst EXCEPT ![i].st = "expired"]
      <4>1. "expired" \in InstanceStatus \ {"unused"}
        BY DEF InstanceStatus
      <4> QED
        BY <1>7, <2>2, <3>1, <4>1
    <3>2. CASE HasRow(i) /\ StartEnds(i) /\ Again(i)
      <4>1. PICK st \in {"running", "failed"} : inst' = [inst EXCEPT ![i].st = st]
        BY <3>2 DEF StartEnds
      <4>2. st \in InstanceStatus \ {"unused"} /\ inst[i].st = "waiting"
        BY <1>5, <3>2, <4>1 DEF InstanceStatus, Again
      <4> QED
        BY <1>7, <2>2, <3>2, <4>1, <4>2
    <3>3. CASE UNCHANGED runtime
      BY <1>6, <2>2, <3>3 DEF runtime
    <3> QED
      BY <1>8, <3>1, <3>2, <3>3 DEF NetworkReady
  <2>3. ASSUME NEW s \in Slots, Holds(o, s)' PROVE order'[o] = row
    <3>1. Holds(o, s) /\ HasRow(i) /\ i # NoInstance /\ i \in Instances
      BY <1>4, <2>2, <2>3
    <3>2. ~ b
      <4>1. ASSUME b PROVE FALSE
        <5>1. inst' = [inst EXCEPT ![i].st = "expired"]
          BY <1>8, <3>1, <4>1 DEF NetworkReady
        <5>2. "expired" \in InstanceStatus \ {"unused"}
          BY DEF InstanceStatus
        <5>3. inst'[i].st = "expired" /\ \A k \in Instances \ {i} : inst'[k] = inst[k]
          BY <3>1, <5>1, <5>2, StatusLocal
        <5>4. PICK k \in Made(o)' \ disowned' : inst'[k].st \in {"waiting", "running"}
          BY <2>3 DEF Holds
        <5>5. k \in Kept(o) /\ k # i
          BY <1>1, <5>3, <5>4 DEF Kept, Made, HasRow
        <5> QED
          BY <1>2, <5>5, NobodyMade DEF Calm, RowCalm
      <4> QED
        BY <4>1
    <3> QED
      BY <1>3, <1>8, <3>1, <3>2 DEF NetworkReady
  <2> HIDE DEF row
  <2> QED
    BY <1>1, <1>2, <2>1, <2>2, <2>3 DEF Quiet
<1>9. CASE CleanUp(o, b)
  <2>1. ASSUME NEW s \in Slots, Holds(o, s)' PROVE Holds(o, s)
    <3>1. CASE UNCHANGED inst
      BY <1>6, <2>1, <3>1
    <3>2. ASSUME HasRow(i), NEW st \in {"purged", "stopped"}, inst' = [inst EXCEPT ![i].st = st]
          PROVE  Holds(o, s)
      <4>1. st \in InstanceStatus \ {"unused"} /\ st \notin {"waiting", "running"}
        BY <3>2 DEF InstanceStatus
      <4> QED
        BY <1>7, <2>1, <3>2, <4>1
    <3> QED
      BY <1>9, <3>1, <3>2 DEF CleanUp
  <2>2. ASSUME NEW s \in Slots, Holds(o, s)' PROVE order'[o] = order[o]
    <3>1. HasRow(i) /\ order[o].config.slot = s /\ <<o, s>> \notin released' /\ s # NoSlot
      BY <1>4, <2>1, <2>2, NoneAssumption DEF Holds
    <3>2. ~ Release(o, order[o].config.slot)
      BY <3>1 DEF Release
    <3> QED
      BY <1>9, <3>1, <3>2 DEF CleanUp
  <2> QED
    BY <1>1, <1>2, <2>1, <2>2 DEF Quiet
<1> QED
  BY <1>8, <1>9

\* Orders whose instance is gone are written when they are listed.
LEMMA ReconcileQuiet ==
  ASSUME OwnInv, Reconcile, NEW o \in Orders, o \notin overlapped', Calm(o), Backed(o)
  PROVE  Backed(o)' /\ NotMore(o)
<1>1. /\ UNCHANGED <<inst, released, job, disowned, dropped>>
      /\ \/ order'[o] = order[o]
         \/ ~ HasRow(order[o].inst) /\ Busy(o) = {}
  BY ReconcileRows DEF Reconcile, notes
<1>2. \A s \in Slots : Holds(o, s)' <=> Holds(o, s)
  BY <1>1 DEF Holds, Made, HasRow
<1>3. CASE order'[o] = order[o]
  <2>1. \A j \in Jobs : (On(j, o)' <=> On(j, o)) /\ (Placing(j, o)' <=> Placing(j, o))
    BY <1>1 DEF On, Placing
  <2>2. Backed(o)'
    BY <1>1, <1>2, <1>3, <2>1 DEF Backed
  <2> QED
    BY <1>2, <2>2 DEF NotMore
<1>4. CASE ~ HasRow(order[o].inst) /\ Busy(o) = {}
  <2>1. \A s \in Slots : ~ Holds(o, s)
    BY <1>4, HeldByRow, NobodyMade
  <2>2. Quiet(o)
    BY <1>1, <1>2, <1>4, <2>1 DEF Quiet
  <2> QED
    BY <1>1, <2>2, QuietKeeps
<1> QED
  BY <1>1, <1>3, <1>4

\* The only handler of an order ends: the order holds nothing more, and shows what
\* it holds.
LEMMA EndedKeeps ==
  ASSUME OwnInv, NEW j \in Jobs, job[j].op # "none", NEW o \in Orders, o = job[j].o,
         Calm(o), End(j), UNCHANGED <<inst, disowned>>, released \subseteq released',
         \A s \in Slots : Holds(o, s) /\ o \notin dropped' =>
           /\ order'[o].st = "materialized"
           /\ order'[o].rs \in {"network_binding_ready", "completed"}
  PROVE  Backed(o)' /\ NotMore(o)
<1>1. job'[j] = Idle /\ \A k \in Jobs \ {j} : job'[k] = job[k]
  BY DEF End, OwnInv, ClaimInv, JobsType
<1>2. \A k \in Jobs : On(k, o) => k = j
  BY AloneCalm
<1>3. \A k \in Jobs : ~ On(k, o)'
  BY <1>1, <1>2 DEF On, Idle
<1>4. \A s \in Slots : Holds(o, s)' => Holds(o, s)
  BY DEF Holds, Made, HasRow
<1> QED
  BY <1>3, <1>4 DEF Backed, NotMore

\* A handler that ends gives its order no slot.
LEMMA HandlerKeeps ==
  ASSUME OwnInv, AdmittedInv, NEW j \in Jobs, Continue(j), NEW o \in Orders, o = job[j].o,
         Calm(o), o \notin overlapped', Backed(o), dropped \subseteq dropped',
         \A i \in Instances : ~ Makes(j, i) /\ \A s \in Slots : ~ PlaceConfirmed(j, i, s)
  PROVE  Backed(o)' /\ NotMore(o)
<1> DEFINE w == job[j]
<1>1. /\ w.op # "none" /\ w \in Job /\ order[o] \in Row
      /\ w.seen \in Row /\ w.seen = order[o] /\ w.net \in BOOLEAN
      /\ w.inst \in Instances \cup {NoInstance}
      /\ w.made => w.op \in {"result", "platform", "auto", "materialize"}
      /\ \A k \in Jobs : On(k, o) => k = j
      /\ order[o].st = "pending" => order[o].inst = NoInstance
      /\ w.made => Kept(o) \subseteq {w.inst}
      /\ w.made /\ w.op \in {"result", "platform"} => w.seen.inst = NoInstance
  <2>1. w.op # "none"
    BY ContinueLocal
  <2> QED
    BY <2>1, JobFacts, AloneCalm DEF OwnInv, ClaimInv, RowsType
<1>2. On(j, o)
  BY <1>1 DEF On
<1>3. ~ w.made => \A k \in Jobs : ~ Placing(k, o) /\ (On(k, o) => ~ job[k].made)
  BY <1>1 DEF Placing
<1>4. CASE Refuse(j) \/ AnswerAgain(j)
  <2>1. /\ End(j) /\ UNCHANGED <<order, inst, disowned, released>> /\ ~ w.made
    BY <1>1, <1>4 DEF Refuse, AnswerAgain, rows, runtime, notes
  <2>2. \A s \in Slots : Holds(o, s) /\ o \notin dropped' =>
          /\ order'[o].st = "materialized"
          /\ order'[o].rs \in {"network_binding_ready", "completed"}
    BY <1>3, <2>1 DEF Backed
  <2> QED
    BY <1>1, <2>1, <2>2, EndedKeeps
<1>5. CASE Drop(j)
  BY <1>5 DEF Drop
<1>6. ASSUME \/ LinkResult(j) \/ LinkInstance(j) \/ MaterializeFails(j)
             \/ (\E net \in BOOLEAN : RouteOnly(j, net)) \/ Cancel(j)
      PROVE  End(j) /\ UNCHANGED <<inst, disowned>> /\ released \subseteq released'
  <2>1. End(j) /\ UNCHANGED inst /\ released \subseteq released'
    BY <1>6, EndsForm
  <2>2. UNCHANGED disowned
    BY <1>6 DEF LinkResult, LinkInstance, MaterializeFails, RouteOnly, Cancel, notes
  <2> QED
    BY <2>1, <2>2
<1>7. ASSUME NEW new \in Row, NEW flagged \in SUBSET {"config"}, End(j),
             UNCHANGED <<inst, disowned>>, released \subseteq released',
             Commits(o, w.seen, new, flagged),
             \A s \in Slots : Holds(o, s) /\ o \notin dropped' =>
               new.st = "materialized" /\ new.rs \in {"network_binding_ready", "completed"}
      PROVE  Backed(o)' /\ NotMore(o)
  <2>1. order'[o] = new
    BY <1>1, <1>7, AloneCommits
  <2> QED
    BY <1>1, <1>7, <2>1, EndedKeeps
<1>8. CASE LinkResult(j)
  <2> DEFINE new == [w.seen EXCEPT !.inst = w.inst, !.st = "materialized",
                       !.rs = IF w.net THEN "network_binding_ready" ELSE "completed",
                       !.config.net = IF w.net THEN "waiting" ELSE "none"]
  <2>1. /\ new \in Row /\ new.rs \in {"network_binding_ready", "completed"}
        /\ new.st = "materialized"
    BY <1>1 DEF Row, RoutingStatus, OrderStatus, Config
  <2>2. Commits(o, w.seen, new, {"config"})
    BY <1>8 DEF LinkResult, Commits
  <2> HIDE DEF new
  <2> QED
    BY <1>6, <1>7, <1>8, <2>1, <2>2
<1>9. CASE LinkInstance(j)
  <2> DEFINE new == [w.seen EXCEPT !.inst = w.inst, !.st = "materialized"]
             flagged == IF w.op = "auto" THEN {"config"} ELSE {}
  <2>1. new \in Row /\ new.rs = w.seen.rs /\ new.st = "materialized"
    BY <1>1 DEF Row, OrderStatus
  <2>2. /\ w.made /\ w.op \in {"auto", "materialize"} /\ Commits(o, w.seen, new, flagged)
        /\ flagged \in SUBSET {"config"}
    BY <1>9 DEF LinkInstance, Commits
  <2>3. w.op = "auto" => w.seen.rs = "completed"
    BY <1>1, <1>2, <2>2 DEF Backed
  <2>4. ASSUME w.op = "materialize", NEW s \in Slots PROVE ~ Holds(o, s)
    BY <1>1, <1>2, <2>2, <2>4, NoneAssumption DEF Backed, Holds, Kept
  <2> HIDE DEF new, flagged
  <2> QED
    BY <1>6, <1>7, <1>9, <2>1, <2>2, <2>3, <2>4
<1>10. CASE MaterializeFails(j)
  <2> DEFINE new == [w.seen EXCEPT !.st = "failed"]
  <2>1. new \in Row
    BY <1>1 DEF Row, OrderStatus
  <2>2. Commits(o, w.seen, new, {}) /\ dropped' = dropped \cup Leaves(o)
    BY <1>10 DEF MaterializeFails, Commits
  <2>3. \A s \in Slots : Holds(o, s) => o \in dropped'
    BY <2>2 DEF Holds, Leaves
  <2> HIDE DEF new
  <2> QED
    BY <1>6, <1>7, <1>10, <2>1, <2>2, <2>3
<1>11. ASSUME NEW net \in BOOLEAN, RouteOnly(j, net) PROVE Backed(o)' /\ NotMore(o)
  <2> DEFINE st == IF w.seen.config.mode = "route_only" THEN "pending" ELSE "completed"
             new == [w.seen EXCEPT !.st = st,
                       !.rs = IF net THEN "network_binding_ready" ELSE "completed",
                       !.config.net = IF net THEN "waiting" ELSE "none"]
  <2>1. ~ w.made /\ order[o].inst = NoInstance /\ Commits(o, w.seen, new, {"config"})
    BY <1>1, <1>11 DEF RouteOnly, Commits
  <2>2. new \in Row
    <3>1. st \in OrderStatus
      BY DEF OrderStatus
    <3> HIDE DEF st
    <3> QED
      BY <1>1, <3>1 DEF Row, RoutingStatus, Config
  <2> HIDE DEF new
  <2>3. \A s \in Slots : ~ Holds(o, s)
    BY <1>3, <2>1, NothingHeld
  <2> QED
    BY <1>6, <1>7, <1>11, <2>1, <2>2, <2>3
<1>12. CASE Cancel(j)
  <2> DEFINE new == [w.seen EXCEPT !.st = "cancelled", !.rs = "cancelled"]
  <2>1. new \in Row
    BY <1>1 DEF Row, RoutingStatus, OrderStatus
  <2>2. w.op = "cancel" /\ Commits(o, w.seen, new, {})
    BY <1>12 DEF Cancel, Commits
  <2>3. ~ w.made /\ order[o].inst = NoInstance
    BY <1>1, <2>2 DEF AdmittedInv, Admitted
  <2> HIDE DEF new
  <2>4. \A s \in Slots : ~ Holds(o, s)
    BY <1>3, <2>3, NothingHeld
  <2> QED
    BY <1>6, <1>7, <1>12, <2>1, <2>2, <2>4
<1>13. CASE Delete(j)
  <2> DEFINE gone == w.mine \cup ({w.seen.inst} \ {NoInstance})
  <2>1. /\ Made(o) \subseteq gone /\ Purge(gone) /\ End(j) /\ UNCHANGED disowned
    BY <1>13 DEF Delete, notes
  <2> HIDE DEF gone
  <2>2. ASSUME NEW i \in Instances PROVE i \notin Made(o)'
    <3>1. inst'[i] = IF i \in gone /\ HasRow(i) THEN [inst[i] EXCEPT !.st = "purged"] ELSE inst[i]
      BY <2>1 DEF Purge
    <3>2. inst[i] \in InstRow
      BY DEF OwnInv, RuntimeType
    <3>3. CASE i \in gone /\ HasRow(i)
      BY <3>1, <3>2, <3>3 DEF Made, HasRow, InstRow
    <3>4. CASE ~ (i \in gone /\ HasRow(i))
      BY <2>1, <3>1, <3>4 DEF Made, HasRow
    <3> QED
      BY <3>3, <3>4
  <2>3. \A s \in Slots : ~ Holds(o, s)'
    BY <2>2 DEF Holds, Made
  <2>4. job'[j] = Idle /\ \A k \in Jobs \ {j} : job'[k] = job[k]
    BY <2>1 DEF End, OwnInv, ClaimInv, JobsType
  <2>5. \A k \in Jobs : ~ On(k, o)'
    BY <1>1, <2>4 DEF On, Idle
  <2> QED
    BY <2>3, <2>5 DEF Backed, NotMore
<1> QED
  BY <1>4, <1>5, <1>8, <1>9, <1>10, <1>11, <1>12, <1>13 DEF Continue, Makes

\* A handler that opens alone holds nothing more.
LEMMA OpenKeeps ==
  ASSUME OwnInv, NEW o \in Orders, o \notin overlapped', Backed(o),
         NEW j \in Jobs, NEW op \in Handlers, Open(j, op, o)
  PROVE  Backed(o)' /\ NotMore(o)
<1>1. /\ job' = [job EXCEPT ![j] = job'[j]] /\ job'[j].made = FALSE
      /\ UNCHANGED <<order, inst, released, disowned, dropped>> /\ Busy(o) = {}
  <2>1. job' = [job EXCEPT ![j] = job'[j]] /\ job'[j].made = FALSE
    BY DEF Open, Idle, OwnInv, ClaimInv, JobsType
  <2>2. UNCHANGED <<order, inst, released, disowned, dropped>> /\ Touch(o)
    BY DEF Open, rows, runtime
  <2> QED
    BY <2>1, <2>2 DEF Touch
<1>2. \A s \in Slots : Holds(o, s)' <=> Holds(o, s)
  BY <1>1 DEF Holds, Made, HasRow
<1>3. \A k \in Jobs : On(k, o)' => k = j
  BY <1>1 DEF On, Busy, OwnInv, ClaimInv, JobsType
<1>4. \A k \in Jobs : ~ Placing(k, o)
  BY <1>1, NobodyMade
<1>5. Backed(o)'
  BY <1>1, <1>2, <1>3, <1>4 DEF Backed
<1> QED
  BY <1>2, <1>5 DEF NotMore

\* An order that is given a slot has its handler's instance on it.
LEMMA TakenBacked ==
  ASSUME NEW o \in Orders, NEW j \in Jobs, Placing(j, o)', \A k \in Jobs : On(k, o)' => k = j,
         job'[j].op = "auto" => order'[o].rs = "completed"
  PROVE  Backed(o)'
  BY DEF Backed, Placing

\* What is made for an order that had nothing is all it holds.
LEMMA TakenOnly ==
  ASSUME NEW o \in Orders, NEW i \in Instances, Kept(o) = {}, disowned \subseteq disowned',
         \A k \in Instances \ {i} : inst'[k] = inst[k], NEW t \in Slots, Holds(o, t)'
  PROVE  inst'[i].slot = t
<1>1. PICK k \in Made(o)' \ disowned' : inst'[k].slot = t
  BY DEF Holds
<1>2. k # i => k \in Kept(o)
  BY <1>1 DEF Kept, Made, HasRow
<1> QED
  BY <1>1, <1>2

\* A handler that makes an instance.
LEMMA MakesFits ==
  ASSUME OwnInv, AdmittedInv, NEW j \in Jobs, NEW i \in Instances, Makes(j, i),
         NEW o \in Orders, o = job[j].o, Calm(o), Backed(o)
  PROVE  Backed(o)' /\ Fits(o)
<1>1. job[j].op # "none" /\ ~ job[j].made
  BY MakesForm
<1>2. /\ job[j] \in Job /\ job[j].seen \in Row /\ job[j].seen = order[o]
      /\ \A k \in Jobs : On(k, o) => k = j
  BY <1>1, JobFacts, AloneCalm
<1>3. \A k \in Jobs : On(k, o) => ~ job[k].made
  BY <1>1, <1>2
<1>4. ASSUME NEW new \in Row, NEW flagged \in SUBSET {"config"}, NEW net \in BOOLEAN,
             CommitNew(j, i, new, flagged, net)
      PROVE  /\ order'[o] = new /\ disowned \subseteq disowned'
             /\ job'[j].op = job[j].op /\ job'[j].made = TRUE /\ job'[j].inst = i
             /\ job'[j].o = o
             /\ \A k \in Jobs : On(k, o)' => k = j
             /\ inst'[i].slot = (IF job[j].op = "materialize" THEN NoSlot ELSE new.config.slot)
             /\ \A k \in Instances \ {i} : inst'[k] = inst[k]
  <2>1. Commits(o, job[j].seen, new, flagged)
    BY <1>4 DEF CommitNew, Commits
  <2>2. order'[o] = new
    BY <1>1, <2>1, AloneCommits
  <2>3. /\ job'[j].op = job[j].op /\ job'[j].made = TRUE /\ job'[j].inst = i /\ job'[j].o = o
        /\ \A k \in Jobs \ {j} : job'[k] = job[k]
    BY <1>2, <1>4 DEF CommitNew, OwnInv, ClaimInv, JobsType, Job
  <2>4. PICK slot : /\ SetsInst(i, [st |-> "waiting", src |-> o, slot |-> slot])
                    /\ slot = IF job[j].op = "materialize" THEN NoSlot ELSE new.config.slot
    BY <1>4 DEF CommitNew, SetsInst
  <2>5. /\ inst'[i].slot = slot
        /\ \A k \in Instances \ {i} : inst'[k] = inst[k]
    BY <2>4 DEF SetsInst, OwnInv, RuntimeType
  <2>6. disowned \subseteq disowned'
    BY <1>4 DEF CommitNew
  <2> QED
    BY <1>2, <2>2, <2>3, <2>4, <2>5, <2>6 DEF On
<1>5. ASSUME NEW s \in Slots, NEW net \in BOOLEAN, PlaceResult(j, i, s, net)
      PROVE  Backed(o)' /\ Fits(o)
  <2> DEFINE new == [job[j].seen EXCEPT !.rs = "computing",
                       !.config = [slot |-> s, net |-> "none", mode |-> "deploy"]]
  <2>1. new \in Row /\ new.config.slot = s
    BY <1>2 DEF Row, RoutingStatus, Config
  <2>2. /\ CommitNew(j, i, new, {"config"}, net) /\ job[j].op \in {"result", "platform"}
        /\ s \notin job[j].taken /\ job[j].seen.inst = NoInstance
    BY <1>5 DEF PlaceResult
  <2> HIDE DEF new
  <2>3. Placing(j, o)' /\ job'[j].op # "auto"
    BY <1>4, <2>1, <2>2 DEF Placing, On
  <2>4. Backed(o)'
    BY <1>4, <2>1, <2>2, <2>3, TakenBacked
  <2>5. Kept(o) = {}
    BY <1>2, <1>3, <2>2, NothingHeld
  <2>6. /\ disowned \subseteq disowned' /\ inst'[i].slot = s
        /\ \A k \in Instances \ {i} : inst'[k] = inst[k]
    BY <1>4, <2>1, <2>2
  <2>7. \A t \in Slots : Holds(o, t)' => t = s
    BY <2>5, <2>6, TakenOnly
  <2>8. Placer(j, o)
    BY <1>1, <2>2 DEF Placer, Placers, On
  <2> QED
    BY <1>1, <2>2, <2>4, <2>7, <2>8 DEF Fits, Gains
<1>6. ASSUME NEW s \in Slots, PlaceAuto(j, i, s)
      PROVE  Backed(o)' /\ Fits(o)
  <2> DEFINE new == [job[j].seen EXCEPT !.rs = "completed", !.config.slot = s,
                       !.config.net = "none"]
  <2>1. new \in Row /\ new.rs = "completed"
    BY <1>2 DEF Row, RoutingStatus, Config
  <2>2. CommitNew(j, i, new, {"config"}, FALSE) /\ job[j].op = "auto"
    BY <1>6 DEF PlaceAuto
  <2> HIDE DEF new
  <2>3. Placing(j, o)'
    BY <1>4, <2>1, <2>2 DEF Placing, On
  <2>4. Backed(o)'
    BY <1>4, <2>1, <2>2, <2>3, TakenBacked
  <2>5. internalAuto /\ o \in Benchmark
    BY <2>2 DEF AdmittedInv, Admitted
  <2> QED
    BY <2>4, <2>5 DEF Fits, Gains
<1>7. CASE PlaceMaterialized(j, i)
  <2>1. CommitNew(j, i, job[j].seen, {}, FALSE) /\ job[j].op = "materialize"
        /\ disowned' = disowned \cup Made(o)
    BY <1>7 DEF PlaceMaterialized, CommitNew
  <2>2. /\ job'[j].op = "materialize" /\ job'[j].inst = i /\ inst'[i].slot = NoSlot
        /\ \A k \in Jobs : On(k, o)' => k = j
        /\ \A k \in Instances \ {i} : inst'[k] = inst[k]
    BY <1>2, <1>4, <2>1
  <2>3. \A s \in Slots : ~ Holds(o, s)'
    BY <2>1, <2>2, NoneAssumption DEF Holds, Made, HasRow
  <2> QED
    BY <2>2, <2>3 DEF Backed, Fits, NotMore
<1> QED
  BY <1>5, <1>6, <1>7 DEF Makes

\* A conversation makes an order with its slot and its instance.
LEMMA PlaceConfirmedFits ==
  ASSUME OwnInv, NEW j \in Jobs, NEW i \in Instances, NEW s \in Slots, PlaceConfirmed(j, i, s),
         NEW o \in Orders, o = job[j].o, Calm(o)
  PROVE  Backed(o)' /\ Fits(o)
<1> DEFINE row == [Fresh("computing", "deploy") EXCEPT !.config.slot = s]
           w == [job[j] EXCEPT !.op = "platform", !.made = TRUE, !.seen = row, !.inst = i]
<1>1. /\ SetsJob(j, w) /\ SetsInst(i, [st |-> "waiting", src |-> o, slot |-> s])
      /\ job[j].op = "confirm" /\ ~ Exists(o) /\ s \notin job[j].taken /\ UNCHANGED disowned
  BY DEF PlaceConfirmed, SetsJob, SetsInst, notes
<1> HIDE DEF row
<1>2. /\ job[j] \in Job /\ ~ job[j].made
      /\ \A k \in Jobs : On(k, o) => k = j
  BY <1>1, JobFacts, AloneCalm
<1>3. w.o = o /\ w.made = TRUE /\ w.op = "platform"
  BY <1>2 DEF Job
<1> HIDE DEF w
<1>4. job'[j] = w /\ \A k \in Jobs \ {j} : job'[k] = job[k]
  BY <1>1 DEF SetsJob, OwnInv, ClaimInv, JobsType
<1>5. Placing(j, o)' /\ job'[j].op # "auto" /\ \A k \in Jobs : On(k, o)' => k = j
  BY <1>2, <1>3, <1>4 DEF Placing, On
<1>6. Backed(o)'
  BY <1>5, TakenBacked
<1>7. order[o].inst = NoInstance
  BY <1>1 DEF OwnInv, Owned, Absent, Fresh
<1>8. Kept(o) = {}
  BY <1>2, <1>7, NothingHeld
<1>9. inst'[i].slot = s /\ \A k \in Instances \ {i} : inst'[k] = inst[k]
  BY <1>1 DEF SetsInst, OwnInv, RuntimeType
<1>10. \A t \in Slots : Holds(o, t)' => t = s
  BY <1>1, <1>8, <1>9, TakenOnly
<1>11. Placer(j, o)
  BY <1>1 DEF Placer, Placers, On
<1> QED
  BY <1>1, <1>2, <1>6, <1>10, <1>11 DEF Fits, Gains

\* The look at who has the slot finds whoever holds it and has no handler between
\* its commits.
LEMMA FreeSlot ==
  ASSUME OwnInv, NEW o \in Orders, NEW p \in Orders \ {o}, NEW s \in Slots, Calm(p), Backed(p),
         p \notin dropped, \A j \in Jobs : On(j, p) => ~ job[j].made, Holds(p, s)
  PROVE  ~ SlotFree(o, s)
<1>1. \A j \in Jobs : ~ Placing(j, p)
  BY DEF Placing
<1>2. order[p].st = "materialized" /\ order[p].rs \in {"network_binding_ready", "completed"}
  BY <1>1 DEF Backed
<1>3. /\ order[p].inst # NoInstance /\ inst[order[p].inst].st \in {"waiting", "running"}
      /\ order[p].config.slot = s
  BY HeldByRow, NoneAssumption
<1> QED
  BY <1>2, <1>3 DEF SlotFree

\* A handler is as it was, or is over, or has made its instance, or opens.
LEMMA PlacerMoves ==
  ASSUME OwnInv, [Next]_vars, NEW j \in Jobs
  PROVE  \/ job'[j] = job[j] \/ job'[j] = Idle
         \/ /\ job[j].op # "none" /\ job'[j].o = job[j].o /\ job'[j].made
            /\ job'[j].op \in Placers => job[j].op \in Placers
         \/ \E op \in Handlers, o \in Orders : Open(j, op, o)
<1>1. job \in [Jobs -> Job]
  BY DEF OwnInv, ClaimInv, JobsType
<1>2. ASSUME NEW k \in Jobs, End(k) PROVE job'[j] = job[j] \/ job'[j] = Idle
  BY <1>1, <1>2 DEF End
<1>3. ASSUME NEW k \in Jobs, NEW op \in Handlers, NEW o \in Orders, Open(k, op, o), k # j
      PROVE  job'[j] = job[j]
  <2>1. job' = [job EXCEPT ![k] = job'[k]]
    BY <1>1, <1>3 DEF Open
  <2> QED
    BY <1>1, <1>3, <2>1
<1>4. ASSUME NEW k \in Jobs, NEW i \in Instances, NEW s \in Slots, PlaceConfirmed(k, i, s)
      PROVE  \/ job'[j] = job[j]
             \/ job[j].op = "confirm" /\ job'[j].o = job[j].o /\ job'[j].made
  BY <1>1, <1>4 DEF PlaceConfirmed, Job
<1>5. ASSUME NEW k \in Jobs, NEW i \in Instances, Makes(k, i)
      PROVE  \/ job'[j] = job[j]
             \/ /\ job[j].op # "none" /\ job'[j].o = job[j].o /\ job'[j].made
                /\ job'[j].op = job[j].op
  <2>1. PICK new \in Row, flagged \in SUBSET {"config"}, net \in BOOLEAN :
          MakesWith(k, i, new, flagged, net)
    BY <1>5, MakesForm
  <2>2. job[k].op # "none"
    BY <1>5, MakesForm
  <2>3. job' = [job EXCEPT ![k] = [job[k] EXCEPT !.made = TRUE, !.inst = i,
                                                 !.seen = new, !.net = net]]
    BY <2>1 DEF MakesWith, CommitNew
  <2> QED
    BY <1>1, <2>2, <2>3 DEF Job
<1>6. ASSUME NEW k \in Jobs, Continue(k)
      PROVE  \/ End(k) \/ \E i \in Instances : Makes(k, i)
             \/ \E i \in Instances, s \in Slots : PlaceConfirmed(k, i, s)
  BY <1>6 DEF Continue, Makes, Refuse, AnswerAgain, LinkResult, LinkInstance,
              MaterializeFails, RouteOnly, Cancel, Delete, Drop
<1>7. ASSUME NEW o \in Orders, RouterRequest(o) PROVE UNCHANGED job
  BY <1>7 DEF RouterRequest, Claim, Requeue, FailRouting, NetworkReady
<1>8. ASSUME NEW o \in Orders, UserRequest(o)
      PROVE  \/ UNCHANGED job
             \/ \E k \in Jobs, op \in Handlers : Open(k, op, o)
  BY <1>8 DEF UserRequest, CleanUp, Confirm, CancelConversation, Submit, EditDraft,
              DeleteConversation
<1>9. ASSUME NEW i \in Instances, InstanceRequest(i) PROVE UNCHANGED job
  BY <1>9 DEF InstanceRequest, Start, Stop, EndDue, DeleteInstance
<1>10. Reconcile \/ UNCHANGED vars => UNCHANGED job
  BY DEF Reconcile, vars
<1>11. CASE \E k \in Jobs : Continue(k)
  <2>1. "confirm" \in Placers /\ "none" \notin Placers
    BY DEF Placers
  <2> QED
    BY <1>2, <1>4, <1>5, <1>6, <1>11, <2>1
<1>12. CASE Request
  BY <1>3, <1>7, <1>8, <1>9, <1>10, <1>12 DEF Request
<1> QED
  BY <1>10, <1>11, <1>12 DEF Next

\* What a handler that opens knows.
LEMMA Opened ==
  ASSUME OwnInv, NEW j \in Jobs, NEW op \in Handlers, NEW o \in Orders, Open(j, op, o)
  PROVE  /\ job'[j].op = op /\ job'[j].o = o
         /\ op \in Placers =>
              /\ job'[j].taken = {s \in Slots : ~ SlotFree(o, s)}
              /\ met' = met \cup ({o} \X Beside(o)) \cup (Beside(o) \X {o})
         /\ op \notin Placers => met' = met
         /\ \A k \in Jobs \ {j} : job'[k] = job[k]
         /\ UNCHANGED <<inst, released, disowned>>
<1> DEFINE busy == IF op \in Placers THEN {s \in Slots : ~ SlotFree(o, s)} ELSE {}
           w == [Idle EXCEPT !.op = op, !.o = o, !.seen = order[o], !.mine = Made(o),
                             !.taken = busy]
<1>1. op \in Placers => busy = {s \in Slots : ~ SlotFree(o, s)}
  OBVIOUS
<1>2. /\ job' = [job EXCEPT ![j] = w] /\ UNCHANGED <<inst, released, disowned>>
      /\ op \in Placers => met' = met \cup ({o} \X Beside(o)) \cup (Beside(o) \X {o})
      /\ op \notin Placers => met' = met
  BY DEF Open, runtime
<1> HIDE DEF busy
<1>3. w.op = op /\ w.o = o /\ w.taken = busy
  BY DEF Idle
<1> HIDE DEF w
<1>4. job'[j] = w /\ \A k \in Jobs \ {j} : job'[k] = job[k]
  BY <1>2 DEF OwnInv, ClaimInv, JobsType
<1> QED
  BY <1>1, <1>2, <1>3, <1>4

\* A handler that opens has seen what is held, or has met its holder.
LEMMA OpenSees ==
  ASSUME CalmInv, AdmittedInv, BackedInv, NEW j \in Jobs, NEW op \in Handlers, NEW o \in Orders,
         Open(j, op, o), op \in Placers, NEW p \in Orders \ Excepted, p # o, NEW s \in Slots,
         Holds(p, s)
  PROVE  s \in job'[j].taken \/ <<o, p>> \in met' \/ (internalAuto /\ p \in Benchmark)
<1>1. OwnInv /\ Calm(p) /\ Backed(p) /\ p \notin dropped
  BY DEF CalmInv, BackedInv, Excepted
<1>2. CASE \A k \in Jobs : On(k, p) => ~ job[k].made
  <2>1. ~ SlotFree(o, s)
    BY <1>1, <1>2, FreeSlot
  <2> QED
    BY <1>1, <2>1, Opened
<1>3. ASSUME NEW k \in Jobs, On(k, p), job[k].made
      PROVE  <<o, p>> \in met' \/ (internalAuto /\ p \in Benchmark)
  <2>1. /\ job[k].op \in {"result", "platform", "auto", "materialize"} /\ job[k].o = p
        /\ job[k].op # "none" /\ Kept(p) \subseteq {job[k].inst}
    BY <1>1, <1>3, JobFacts, AloneCalm DEF On
  <2>2. CASE job[k].op = "materialize"
    BY <1>1, <1>3, <2>1, <2>2, NoneAssumption DEF Backed, Holds, Kept
  <2>3. CASE job[k].op = "auto"
    BY <2>1, <2>3 DEF AdmittedInv, Admitted
  <2>4. CASE job[k].op \in {"result", "platform"}
    <3>1. p \in Beside(o)
      BY <2>1, <2>4 DEF Beside, Busy, Placers
    <3> QED
      BY <1>1, <3>1, Opened
  <2> QED
    BY <2>1, <2>2, <2>3, <2>4
<1> QED
  BY <1>2, <1>3

\* Only a handler that opens meets others.
LEMMA MetMoves ==
  ASSUME [Next]_vars
  PROVE  met' = met \/ \E j \in Jobs, op \in Handlers, o \in Orders : Open(j, op, o)
<1>1. ASSUME NEW j \in Jobs, Continue(j) PROVE met' = met
  BY <1>1 DEF Continue, Refuse, AnswerAgain, PlaceAuto, PlaceResult, PlaceMaterialized, CommitNew,
              PlaceConfirmed, LinkResult, LinkInstance, MaterializeFails, RouteOnly, Cancel, Delete,
              Drop, notes
<1>2. ASSUME NEW o \in Orders, UserRequest(o)
      PROVE  met' = met \/ \E j \in Jobs, op \in Handlers : Open(j, op, o)
  BY <1>2 DEF UserRequest, CleanUp, Confirm, CancelConversation, Submit, EditDraft,
              DeleteConversation, notes
<1>3. ASSUME NEW o \in Orders, RouterRequest(o) PROVE met' = met
  BY <1>3 DEF RouterRequest, Claim, Requeue, FailRouting, NetworkReady, notes
<1>4. ASSUME NEW i \in Instances, InstanceRequest(i) PROVE met' = met
  BY <1>4 DEF InstanceRequest, Start, Stop, EndDue, DeleteInstance, notes
<1>5. Reconcile \/ UNCHANGED vars => met' = met
  BY DEF Reconcile, vars, notes
<1> QED
  BY <1>1, <1>2, <1>3, <1>4, <1>5 DEF Next, Request

\* Handlers that open beside each other have met.
LEMMA TogetherStep ==
  ASSUME OwnInv, Together, [Next]_vars
  PROVE  Together'
<1>1. met \subseteq met'
  BY MetStep
<1>2. ASSUME NEW j \in Jobs, NEW o \in Orders, Placer(j, o)',
             \A op \in Handlers : ~ Open(j, op, o)
      PROVE  Placer(j, o)
  <2>1. "none" \notin Placers
    BY DEF Placers
  <2>2. ASSUME NEW op \in Handlers, NEW q \in Orders, Open(j, op, q) PROVE FALSE
    BY <1>2, <2>2, Opened DEF Placer, On
  <2> QED
    BY <1>2, <2>1, <2>2, PlacerMoves DEF Placer, On, Idle
<1>3. ASSUME NEW j \in Jobs, NEW k \in Jobs, NEW o \in Orders, NEW p \in Orders, o # p,
             Placer(j, o)', Placer(k, p)', NEW op \in Handlers, Open(j, op, o)
      PROVE  <<o, p>> \in met' /\ <<p, o>> \in met'
  <2>1. k # j /\ op \in Placers /\ job'[k] = job[k]
    BY <1>3, Opened DEF Placer, On
  <2>2. p \in Beside(o)
    BY <1>3, <2>1 DEF Beside, Busy, Placer, On
  <2> QED
    BY <1>3, <2>1, <2>2, Opened
<1>4. ASSUME NEW j \in Jobs, NEW k \in Jobs, NEW o \in Orders, NEW p \in Orders, o # p,
             Placer(j, o)', Placer(k, p)'
      PROVE  <<o, p>> \in met'
  <2>1. CASE \E op \in Handlers : Open(j, op, o) \/ Open(k, op, p)
    BY <1>3, <1>4, <2>1
  <2>2. CASE \A op \in Handlers : ~ Open(j, op, o) /\ ~ Open(k, op, p)
    BY <1>1, <1>2, <1>4, <2>2 DEF Together
  <2> QED
    BY <2>1, <2>2
<1>5. ASSUME NEW o \in Orders, NEW p \in Orders, <<o, p>> \in met' PROVE <<p, o>> \in met'
  <2>1. ASSUME NEW j \in Jobs, NEW op \in Handlers, NEW q \in Orders, Open(j, op, q)
        PROVE  <<p, o>> \in met'
    <3>1. \/ met' = met
          \/ met' = met \cup ({q} \X Beside(q)) \cup (Beside(q) \X {q})
      BY <2>1, Opened
    <3> QED
      BY <1>5, <3>1 DEF Together
  <2>2. CASE met' = met
    BY <1>5, <2>2 DEF Together
  <2> QED
    BY <2>1, <2>2, MetMoves
<1> QED
  BY <1>4, <1>5 DEF Together

\* A step on one order that keeps what this order shows and gives it no slot it has
\* not seen free, is no more to any order.
LEMMA OneKeeps ==
  ASSUME OwnInv, BackedInv, [Next]_vars, NEW o \in Orders, Local(o),
         o \notin overlapped' /\ o \notin restarted' => Backed(o)' /\ Fits(o),
         NEW p \in Orders, p \notin overlapped', p \notin restarted'
  PROVE  Backed(p)' /\ Fits(p)
<1>1. CASE p = o
  BY <1>1
<1>2. CASE p # o
  <2>1. Backed(p)
    BY Grows, RestartedGrows DEF BackedInv
  <2>2. Backed(p)' /\ NotMore(p)
    BY <1>2, <2>1, MetStep, BackedKept
  <2> QED
    BY <2>2 DEF Fits
<1> QED
  BY <1>1, <1>2

\* Every step keeps what an order shows that holds a slot, and gives it none that
\* its handler has not seen free.
LEMMA StepKeeps ==
  ASSUME SlotInv, [Next]_vars, NEW p \in Orders, p \notin overlapped', p \notin restarted'
  PROVE  Backed(p)' /\ Fits(p)
<1>1. /\ OwnInv /\ CalmInv /\ AdmittedInv /\ BackedInv
      /\ overlapped \subseteq overlapped' /\ restarted \subseteq restarted'
      /\ dropped \subseteq dropped'
  BY Grows, RestartedGrows, MetStep DEF SlotInv, CalmInv
<1>2. ASSUME NEW o \in Orders, o \notin overlapped', o \notin restarted'
      PROVE  Calm(o) /\ Backed(o)
  BY <1>1, <1>2 DEF CalmInv, BackedInv
<1>3. ASSUME NEW o \in Orders, o \notin overlapped', o \notin restarted', Quiet(o)
      PROVE  Backed(o)' /\ Fits(o)
  BY <1>1, <1>2, <1>3, QuietKeeps DEF Fits
<1>4. ASSUME NEW j \in Jobs, Continue(j) PROVE Backed(p)' /\ Fits(p)
  <2>1. PICK o \in Orders : o = job[j].o
    BY <1>1, <1>4, ContinueLocal, JobFacts
  <2>2. Local(o)
    BY <1>1, <1>4, <2>1, ContinueLocal
  <2>3. ASSUME o \notin overlapped', o \notin restarted' PROVE Backed(o)' /\ Fits(o)
    <3>1. Calm(o) /\ Backed(o)
      BY <1>2, <2>3
    <3>2. ASSUME NEW i \in Instances, Makes(j, i) PROVE Backed(o)' /\ Fits(o)
      BY <1>1, <2>1, <3>1, <3>2, MakesFits
    <3>3. ASSUME NEW i \in Instances, NEW s \in Slots, PlaceConfirmed(j, i, s)
          PROVE  Backed(o)' /\ Fits(o)
      BY <1>1, <2>1, <3>1, <3>3, PlaceConfirmedFits
    <3>4. CASE \A i \in Instances : ~ Makes(j, i) /\ \A s \in Slots : ~ PlaceConfirmed(j, i, s)
      BY <1>1, <1>4, <2>1, <2>3, <3>1, <3>4, HandlerKeeps DEF Fits
    <3> QED
      BY <3>2, <3>3, <3>4
  <2> QED
    BY <1>1, <2>2, <2>3, OneKeeps
<1>5. ASSUME NEW o \in Orders, RouterRequest(o) PROVE Backed(p)' /\ Fits(p)
  <2>1. Local(o)
    BY <1>1, <1>5, RequestLocal
  <2>2. o \notin overlapped' /\ o \notin restarted' => Quiet(o)
    BY <1>1, <1>2, <1>5, QueueQuiet, OrderQuiet DEF RouterRequest
  <2> QED
    BY <1>1, <1>3, <2>1, <2>2, OneKeeps
<1>6. ASSUME NEW o \in Orders, UserRequest(o) PROVE Backed(p)' /\ Fits(p)
  <2>1. Local(o)
    BY <1>1, <1>6, RequestLocal
  <2>2. ASSUME o \notin overlapped', o \notin restarted' PROVE Backed(o)' /\ Fits(o)
    <3>1. CASE \/ \E b \in BOOLEAN : CleanUp(o, b)
               \/ \E mode \in Modes : Confirm(o, mode)
               \/ CancelConversation(o) \/ Submit(o) \/ EditDraft(o) \/ DeleteConversation(o)
      <4>1. Quiet(o)
        BY <1>1, <1>2, <2>2, <3>1, QueueQuiet, OrderQuiet
      <4> QED
        BY <1>3, <2>2, <4>1
    <3>2. ASSUME NEW j \in Jobs, NEW op \in Handlers, Open(j, op, o)
          PROVE  Backed(o)' /\ Fits(o)
      BY <1>1, <1>2, <2>2, <3>2, OpenKeeps DEF Fits
    <3> QED
      BY <1>6, <3>1, <3>2 DEF UserRequest
  <2> QED
    BY <1>1, <2>1, <2>2, OneKeeps
<1>7. ASSUME NEW i \in Instances, InstanceRequest(i) PROVE Backed(p)' /\ Fits(p)
  <2>1. PICK o \in Orders : o = inst[i].src
    BY <1>1, <1>7, RequestLocal
  <2>2. Local(o)
    BY <1>1, <1>7, <2>1, RequestLocal
  <2>3. o \notin overlapped' /\ o \notin restarted' => Quiet(o)
    BY <1>1, <1>2, <1>7, <2>1, InstanceQuiet
  <2> QED
    BY <1>1, <1>3, <2>2, <2>3, OneKeeps
<1>8. CASE Reconcile
  BY <1>1, <1>2, <1>8, ReconcileQuiet DEF Fits
<1>9. CASE UNCHANGED vars
  <2>1. UNCHANGED <<order, inst, job, released, disowned, dropped>>
    BY <1>9 DEF vars, rows, runtime, notes
  <2>2. \A s \in Slots : Holds(p, s)' <=> Holds(p, s)
    BY <2>1 DEF Holds, Made, HasRow
  <2>3. \A j \in Jobs : (On(j, p)' <=> On(j, p)) /\ (Placing(j, p)' <=> Placing(j, p))
    BY <2>1 DEF On, Placing
  <2>4. Backed(p)'
    BY <1>2, <2>1, <2>2, <2>3 DEF Backed
  <2> QED
    BY <2>2, <2>4 DEF Fits, NotMore
<1> QED
  BY <1>4, <1>5, <1>6, <1>7, <1>8, <1>9 DEF Next, Request

\* Whoever gains a slot while a handler of another order looks for one has met that
\* order.
LEMMA GainMeets ==
  ASSUME Together, NEW j \in Jobs, NEW o \in Orders, NEW p \in Orders \ {o}, Placer(j, o), Gains(p)
  PROVE  Meets(o, p)
  BY DEF Gains, Together, Meets

\* A handler still knows all slots that others hold.
LEMMA SeenStep ==
  ASSUME SlotInv, [Next]_vars
  PROVE  SeenTaken'
<1>1. /\ OwnInv /\ CalmInv /\ AdmittedInv /\ BackedInv /\ Together /\ SeenTaken
      /\ met \subseteq met' /\ Excepted \subseteq Excepted' /\ internalAuto' = internalAuto
  BY Grows, RestartedGrows, MetStep DEF SlotInv, CalmInv, Excepted, Next, vars
<1> SUFFICES ASSUME NEW j \in Jobs, NEW o \in Orders, NEW p \in Orders, p \notin Excepted',
                    NEW s \in Slots, Placer(j, o)', ~ job'[j].made, p # o, Holds(p, s)'
             PROVE  s \in job'[j].taken \/ Meets(o, p)'
  BY DEF SeenTaken
<1>2. Meets(o, p) => Meets(o, p)'
  BY <1>1 DEF Meets
<1>3. Fits(p) /\ p \notin Excepted
  BY <1>1, StepKeeps DEF Excepted
<1>4. "none" \notin Placers
  BY DEF Placers
<1>5. CASE job'[j] = job[j]
  <2>1. Placer(j, o) /\ ~ job[j].made
    BY <1>5 DEF Placer, On
  <2>2. CASE NotMore(p)
    BY <1>1, <1>2, <1>3, <1>5, <2>1, <2>2 DEF NotMore, SeenTaken
  <2>3. CASE Gains(p)
    BY <1>1, <1>2, <2>1, <2>3, GainMeets
  <2> QED
    BY <1>3, <2>2, <2>3 DEF Fits
<1>6. ASSUME NEW op \in Handlers, NEW q \in Orders, Open(j, op, q)
      PROVE  s \in job'[j].taken \/ Meets(o, p)'
  <2>1. q = o /\ op \in Placers /\ UNCHANGED <<inst, released, disowned>>
    BY <1>1, <1>6, Opened DEF Placer, On
  <2>2. Holds(p, s)
    BY <2>1 DEF Holds, Made, HasRow
  <2>3. s \in job'[j].taken \/ <<o, p>> \in met' \/ (internalAuto /\ p \in Benchmark)
    BY <1>1, <1>3, <1>6, <2>1, <2>2, OpenSees
  <2> QED
    BY <1>1, <2>3 DEF Meets
<1> QED
  BY <1>1, <1>4, <1>5, <1>6, PlacerMoves DEF Placer, On, Idle

\* Two orders come to hold one slot only if they have met.
LEMMA ExclusiveStep ==
  ASSUME SlotInv, [Next]_vars
  PROVE  SlotExclusive'
<1>1. /\ OwnInv /\ Together /\ SeenTaken /\ SlotExclusive
      /\ met \subseteq met' /\ Excepted \subseteq Excepted' /\ internalAuto' = internalAuto
  BY Grows, RestartedGrows, MetStep DEF SlotInv, CalmInv, Excepted, Next, vars
<1> SUFFICES ASSUME NEW o \in Orders, NEW p \in Orders, o \notin Excepted', p \notin Excepted',
                    NEW s \in Slots, Holds(o, s)', Holds(p, s)', o # p
             PROVE  Meets(o, p)'
  BY DEF SlotExclusive, Meets, Excepted
<1>2. Meets(o, p) => Meets(o, p)'
  BY <1>1 DEF Meets
<1>3. ASSUME NEW a \in Orders, NEW b \in Orders, a # b, b \notin Excepted', Holds(a, s)',
             Holds(b, s)', Gains(a), Fits(b)
      PROVE  Meets(a, b)
  <2>1. b \notin Excepted
    BY <1>1, <1>3
  <2>2. CASE internalAuto /\ a \in Benchmark
    BY <2>2 DEF Meets
  <2>3. ASSUME NEW j \in Jobs, Placer(j, a), ~ job[j].made, s \notin job[j].taken
        PROVE  Meets(a, b)
    <3>1. CASE NotMore(b)
      BY <1>1, <1>3, <2>1, <2>3, <3>1 DEF NotMore, SeenTaken
    <3>2. CASE Gains(b)
      BY <1>1, <1>3, <2>3, <3>2, GainMeets
    <3> QED
      BY <1>3, <3>1, <3>2 DEF Fits
  <2> QED
    BY <1>3, <2>2, <2>3 DEF Gains
<1>4. Meets(p, o) => Meets(o, p)
  BY <1>1 DEF Meets, Together
<1>5. Fits(o) /\ Fits(p)
  BY StepKeeps DEF Excepted
<1>6. CASE NotMore(o) /\ NotMore(p)
  BY <1>1, <1>2, <1>6 DEF NotMore, SlotExclusive, Meets, Excepted
<1>7. CASE Gains(o) \/ Gains(p)
  BY <1>2, <1>3, <1>4, <1>5, <1>7
<1> QED
  BY <1>5, <1>6, <1>7 DEF Fits

\* At first nothing is held, and nobody looks for a slot.
LEMMA SlotInit == Init => SlotInv
<1> SUFFICES ASSUME Init PROVE SlotInv
  OBVIOUS
<1>1. /\ \A i \in Instances : inst[i].st = "unused"
      /\ \A j \in Jobs : job[j].op = "none"
      /\ met = {}
  BY DEF Init, Idle
<1>2. \A o \in Orders, s \in Slots : ~ Holds(o, s)
  BY <1>1 DEF Holds, Made, HasRow
<1>3. \A j \in Jobs, o \in Orders : ~ On(j, o)
  BY <1>1 DEF On
<1>4. BackedInv /\ Together /\ SeenTaken /\ SlotExclusive
  BY <1>1, <1>2, <1>3 DEF BackedInv, Backed, Together, SeenTaken, Placer, SlotExclusive
<1> QED
  BY <1>4, CalmInit, AdmittedInit DEF SlotInv

\* What is known of the slots survives every step.
LEMMA SlotNext == SlotInv /\ [Next]_vars => SlotInv'
<1> SUFFICES ASSUME SlotInv, [Next]_vars PROVE SlotInv'
  OBVIOUS
<1>1. CalmInv' /\ AdmittedInv' /\ Together'
  BY CalmNext, AdmittedStep, TogetherStep DEF SlotInv, CalmInv
<1>2. BackedInv'
  BY StepKeeps DEF BackedInv
<1> QED
  BY <1>1, <1>2, SeenStep, ExclusiveStep DEF SlotInv

\* Of two orders accepted for one slot only one can hold it, and no slot is lost to
\* the router.  The handler that takes a slot has seen it free in its session's
\* snapshot; so two orders whose placing handlers were under way at one time are
\* excepted, and so is what the code does not check: an order cancelled or failed
\* with its instance there, an instance started again, the automatic routing.
THEOREM SlotsOfOrders == Spec => []SlotsHold
<1>1. SlotInv => SlotsHold
  BY NoSlotLost DEF SlotInv, SlotsHold
<1> QED
  BY <1>1, SlotInit, SlotNext, PTL DEF Spec

=============================================================================
