------------------------- MODULE TaskPipelineProofs -------------------------
(***************************************************************************)
(* Proofs about the workers of one order (TaskPipeline), for any job, any   *)
(* number of runs, any latencies and any part of the environment.          *)
(*                                                                         *)
(* PipeInv is the inductive invariant: the control of the workers and who  *)
(* holds a result (Control, Flow), the measurement (Measuring), honesty of *)
(* every result there is, in a worker, in a handler or in a row (Carried), *)
(* the evidence behind each of them (Filed), what the receiver keeps and   *)
(* who is waiting for it (Keeping, Lengths), and the metric row behind all *)
(* who are done (Announced).  The values come from the quantile of sorted  *)
(* samples: that they can be sorted is proved by well-founded descent.     *)
(***************************************************************************)
EXTENDS TaskPipeline, FiniteSetTheorems, WellFoundedInduction, TLAPS

(***************************************************************************)
(* The shape of the state.                                                 *)
(***************************************************************************)
SourceAt == {"down", "wait", "post", "serve", "failed"}
ComputeAt == {"down", "ready", "wait", "download", "run", "progress", "progressing", "archive",
              "deliver", "report", "reporting", "callback", "calling", "told", "idle", "failed"}
SinkAt == {"down", "wait", "upload", "report", "reporting", "idle", "failed"}

Bodies == {"none", "ready", "job", "result"}
Results == [run : Runs, value : Nat, backend : Backends, samples : Seq(Sample), uris : SUBSET Keys]
Finals == [status : {"completed"}, frames : Seq(Frames), run : Runs]
Partials == [status : {"running"}, frames : Seq(Frames), run : {0}]
Requests == [status : {"running"}, frame : Frames] \cup Finals
Kept == {None} \cup Partials \cup Finals
Measures_ == [at : Nat \ {0}, samples : Seq(Sample), backend : Backends]
Receivers == [up : BOOLEAN, memory : Kept, file : Kept \cup {Torn}, writing : BOOLEAN,
              waiting : SUBSET Requests]

\* A handler in flight carries a result of the run it was asked about.
Carries(c, r) == c.phase = "begun" => c.result \in Results /\ c.result.run = r

Fixed == kind \in Kinds /\ direct \in BOOLEAN /\ formal \in BOOLEAN

Control ==
  /\ run \in Runs /\ started \in BOOLEAN /\ attempts \in 0..3
  /\ pc \in [Workers -> Places]
  /\ pc["source"] \in SourceAt /\ pc["compute"] \in ComputeAt /\ pc["sink"] \in SinkAt
  /\ slot \in [Workers -> Bodies]
  /\ slot["sink"] \in {"none", "result"}

Handlers ==
  /\ metrics \subseteq Results
  /\ DOMAIN call = Runs
  /\ \A r \in Runs : Carries(call[r], r)

\* A result there is: after the archive, at the sink that has received it.
Passed == {"deliver", "report", "reporting", "callback", "calling", "told", "idle"}
Flow ==
  /\ pc["compute"] \in Passed => result \in Results
  /\ slot["sink"] = "result" => result \in Results
  /\ pc["sink"] \in {"upload", "report", "reporting", "idle"} => result \in Results
  /\ ~ started => pc = Down /\ slot = Empty /\ result = None /\ attempts = 0
  /\ direct => pc["sink"] = "down" /\ pc["compute"] # "deliver"
  /\ ~ direct => pc["compute"] \notin {"report", "reporting", "callback", "calling", "told"}
  /\ pc[Reporter] = "report" => attempts <= 2
  /\ pc[Reporter] \notin {"report", "reporting", "failed"} => attempts = 0

(***************************************************************************)
(* The measurement.                                                        *)
(***************************************************************************)
\* A position and as many samples as go with it, and the GPU only for what ran there.
Fine(m) ==
  /\ IF kind = "matmul" THEN m.at = Len(m.samples) + 1 /\ Len(m.samples) <= MaxSamples
     ELSE /\ m.at <= Wanted + 1
          /\ Len(m.samples) = IF m.at <= WarmupFrames THEN 0 ELSE m.at - WarmupFrames - 1
          /\ \A i \in DOMAIN m.samples : m.samples[i].frame = FrameAt(kind, WarmupFrames + i)
  /\ m.backend = "gpu" => \A i \in DOMAIN m.samples : m.samples[i].on = "gpu"
Measuring ==
  /\ Fine(meas)
  /\ pc["compute"] \in {"progress", "progressing"} => kind = "video" /\ meas.samples # <<>>
  /\ pc["compute"] = "archive" => Finished

\* A result of the model: MetricHonest of one of them, and as long as its job.
Honest(m) ==
  /\ IsQuantile(kind, m.samples, m.value)
  /\ m.backend = "gpu" => \A i \in DOMAIN m.samples : m.samples[i].on = "gpu"
  /\ kind # "matmul" =>
       /\ Len(m.samples) = MeasuredFrames
       /\ \A i \in DOMAIN m.samples : m.samples[i].frame = FrameAt(kind, WarmupFrames + i)
  /\ kind = "matmul" => Len(m.samples) <= MaxSamples
HonestInv ==
  /\ result \in Results => Honest(result)
  /\ \A r \in Runs : call[r].phase = "begun" => Honest(call[r].result)
  /\ \A m \in metrics : Honest(m)

(***************************************************************************)
(* The evidence.                                                           *)
(***************************************************************************)
Backed(m) == kind # "matmul" => \A k \in m.uris : objects[k] >= m.run
Evidence ==
  /\ \A k \in Keys : objects[k] <= run
  /\ result \in Results => Backed(result)
  /\ \A r \in Runs : call[r].phase = "begun" => Backed(call[r].result)
  /\ \A m \in metrics : Backed(m)

(***************************************************************************)
(* What is announced.                                                      *)
(***************************************************************************)
Stored(r) == \E m \in metrics : m.run = r
Announced ==
  /\ \A r \in Runs : call[r].phase = "stored" => Stored(r)
  /\ pc[Reporter] \in {"callback", "calling", "told", "idle"} => Stored(run)
  /\ \A q \in receiver.waiting : q.status = "completed" => Stored(q.run)
  /\ receiver.memory.status = "completed" => Stored(receiver.memory.run)
  /\ receiver.file.status = "completed" => Stored(receiver.file.run)

(***************************************************************************)
(* What the receiver keeps.                                                *)
(***************************************************************************)
Distinct(frames) == \A i, j \in DOMAIN frames : frames[i] = frames[j] => i = j
Once(record) == record.status = "running" => Distinct(record.frames)
Told == receiver.file = Torn \/ receiver.file.status = "completed"
Keeping ==
  /\ receiver.file = Torn => receiver.memory = None
  /\ receiver.writing => receiver.memory # None
  /\ ~ receiver.writing => receiver.memory = None \/ receiver.memory = receiver.file
  /\ receiver.file.status = "completed" =>
       receiver.memory = None \/ receiver.memory.status = "completed"
  /\ Once(receiver.memory) /\ Once(receiver.file)
  /\ pc["compute"] = "calling" =>
       \/ Final \in receiver.waiting
       \/ receiver.memory.status = "completed"
       \/ receiver.memory = None /\ Told
  /\ pc["compute"] = "told" => Told
Lengths ==
  /\ \A q \in receiver.waiting : q.status = "completed" => Len(q.frames) <= Wanted + MaxSamples
  /\ receiver.memory.status = "completed" => Len(receiver.memory.frames) <= Wanted + MaxSamples
  /\ receiver.file.status = "completed" => Len(receiver.file.frames) <= Wanted + MaxSamples

(***************************************************************************)
(* A step, by what it may change.                                          *)
(***************************************************************************)
Moving == UNCHANGED <<fixed, receiver, backend, run, started, meas, result, objects>>
Sampling == UNCHANGED <<fixed, receiver, backend, run, started, slot, result, objects, attempts>>
Quiet == UNCHANGED <<fixed, workers, receiver, metrics, call>>
Receiving == Call \/ Put \/ PutWritten \/ ReceiverCrashes \/ ReceiverRestarts
Filing == ArchivePut \/ SinkUploads

\* Every step of Next is of one of these sorts.
LEMMA StepSorts ==
  ASSUME Next
  PROVE  \/ Moving \/ Sampling \/ Quiet \/ Receiving \/ Filing
         \/ ArchiveEnds \/ ReportBegins \/ StopRun \/ StartRun
         \/ \E r \in Runs : HandlerStep(r)
<1>1. ASSUME NEW w \in Workers, Launch(w) \/ Expire(w) PROVE Moving
  BY <1>1 DEF Launch, Expire, Moving
<1>2. ASSUME SourceStep PROVE Moving
  BY <1>2 DEF SourceStep, Receive, Post, Moving
<1>3. ASSUME ComputeReady \/ GetJob \/ Download \/ MeasureEnds \/ ArchiveFails \/ Deliver PROVE Moving
  BY <1>3 DEF ComputeReady, GetJob, Download, MeasureEnds, ArchiveFails, Deliver, Post, Moving
<1>4. ASSUME SinkGets \/ ReportAnswered \/ CallAnswered \/ GiveUp PROVE Moving
  BY <1>4 DEF SinkGets, ReportAnswered, CallAnswered, GiveUp, Moving
<1>5. ASSUME NEW lat, Frame(lat) \/ FrameFallsBack(lat) \/ Window(lat) PROVE Sampling
  BY <1>5 DEF Frame, FrameFallsBack, Window, Measures, Sampling
<1>6. ASSUME StartOnCpu \/ Surrogate \/ MeasureFails PROVE Sampling
  BY <1>6 DEF StartOnCpu, Surrogate, MeasureFails, Measures, Sampling
<1>7. ASSUME (BaselineStep \/ ReevaluateRead \/ ReevaluateWrite) /\ UNCHANGED <<fixed, workers, receiver>>
      PROVE  Quiet
  BY <1>7 DEF BaselineStep, BenchmarkBegins, BenchmarkFails, BenchmarkStored, BaselineCreated,
     BaselineDeleted, ReevaluateRead, ReevaluateWrite, Quiet
<1>8. ASSUME ComputeStep
      PROVE  Moving \/ Sampling \/ ArchivePut \/ ArchiveEnds
  BY <1>3, <1>5, <1>6, <1>8 DEF ComputeStep
<1>. QED BY <1>1, <1>2, <1>4, <1>7, <1>8 DEF Next, SinkStep, ReportStep, CallbackStep, Receiving, Filing

(***************************************************************************)
(* Control.                                                                *)
(***************************************************************************)
At(w) == CASE w = "source" -> SourceAt [] w = "compute" -> ComputeAt [] w = "sink" -> SinkAt

\* A worker that goes to a place of its own keeps every worker at one.
LEMMA GoesTo ==
  ASSUME Control, NEW w \in Workers, NEW place \in At(w), pc' = [pc EXCEPT ![w] = place]
  PROVE  /\ pc' \in [Workers -> Places]
         /\ pc'["source"] \in SourceAt /\ pc'["compute"] \in ComputeAt /\ pc'["sink"] \in SinkAt
<1>1. At(w) \subseteq Places
  BY DEF Workers, At, SourceAt, ComputeAt, SinkAt, Places
<1>2. pc \in [Workers -> Places] BY DEF Control
<1>3. pc' \in [Workers -> Places] BY <1>1, <1>2
<1>4. \A v \in Workers : pc'[v] = IF v = w THEN place ELSE pc[v] BY <1>2
<1>5. \A v \in Workers : pc[v] \in At(v) BY DEF Control, At, Workers
<1>6. \A v \in Workers : pc'[v] \in At(v) BY <1>4, <1>5
<1>. QED BY <1>3, <1>6 DEF At, Workers

\* A step that only moves a worker keeps Control.
LEMMA MoveControl ==
  ASSUME Control, NEW w \in Workers, NEW place \in At(w), pc' = [pc EXCEPT ![w] = place],
         UNCHANGED <<run, started, slot>>, attempts' \in 0..3
  PROVE  Control'
BY GoesTo DEF Control

\* So does one that puts a message into a slot, or takes it out.
LEMMA SlotControl ==
  ASSUME Control, NEW w \in Workers, NEW place \in At(w), pc' = [pc EXCEPT ![w] = place] \/ UNCHANGED pc,
         NEW v \in Workers, NEW body \in Bodies, slot' = [slot EXCEPT ![v] = body] \/ UNCHANGED slot,
         v = "sink" => body \in {"none", "result"},
         UNCHANGED <<run, started, attempts>>
  PROVE  Control'
<1>1. /\ pc' \in [Workers -> Places]
      /\ pc'["source"] \in SourceAt /\ pc'["compute"] \in ComputeAt /\ pc'["sink"] \in SinkAt
  BY GoesTo DEF Control
<1>2. slot' \in [Workers -> Bodies] /\ slot'["sink"] \in {"none", "result"}
  BY DEF Control, Workers
<1>. QED BY <1>1, <1>2 DEF Control

\* The tail of Post: the caller goes on to a place of its own, or tries again.
LEMMA PostControl ==
  ASSUME Control, NEW w \in Workers, NEW next \in At(w), NEW v \in Workers, NEW body \in Bodies,
         v = "sink" => body = "result", Post(w, v, body, next)
  PROVE  Control'
<1>1. pc' = [pc EXCEPT ![w] = next] \/ UNCHANGED pc BY DEF Post, Goto
<1>2. slot' = [slot EXCEPT ![v] = body] \/ UNCHANGED slot BY DEF Post
<1>3. UNCHANGED <<run, started, attempts>> BY DEF Post
<1>. QED BY <1>1, <1>2, <1>3, SlotControl

\* The places of Control are where the steps go; the attempts are counted to three.
LEMMA ControlStep ==
  ASSUME Fixed, Control, Flow, Next
  PROVE  Control'
<1>. USE DEF Goto
<1>1. ASSUME NEW w \in Workers, Launch(w) PROVE Control'
  <2>1. (CASE w = "source" -> IF SourceWaits THEN "wait" ELSE "post"
           [] w = "compute" -> IF KnowsSource THEN "ready" ELSE "wait"
           [] w = "sink" -> "wait") \in At(w)
    BY DEF Workers, At, SourceAt, ComputeAt, SinkAt
  <2>2. UNCHANGED <<run, started, slot, attempts>> BY <1>1 DEF Launch
  <2>3. attempts' \in 0..3 BY <2>2 DEF Control
  <2>. QED BY <1>1, <2>1, <2>2, <2>3, MoveControl DEF Launch
<1>2. ASSUME NEW w \in Workers, Expire(w) PROVE Control'
  <2>1. "failed" \in At(w) BY DEF Workers, At, SourceAt, ComputeAt, SinkAt
  <2>2. UNCHANGED <<run, started, slot, attempts>> BY <1>2 DEF Expire
  <2>3. attempts' \in 0..3 BY <2>2 DEF Control
  <2>. QED BY <1>2, <2>1, <2>2, <2>3, MoveControl DEF Expire
<1>3. ASSUME SourceStep PROVE Control'
  <2>1. "post" \in At("source") /\ "serve" \in At("source") BY DEF At, SourceAt
  <2>2. "source" \in Workers /\ "compute" \in Workers /\ "job" \in Bodies /\ "none" \in Bodies
    BY DEF Workers, Bodies
  <2>3. CASE Receive("source", "post") /\ UNCHANGED <<run, started, attempts>>
    <3>1. pc' = [pc EXCEPT !["source"] = "post"] /\ slot' = [slot EXCEPT !["source"] = "none"]
      BY <2>3 DEF Receive
    <3>. QED BY <2>1, <2>2, <2>3, <3>1, SlotControl
  <2>4. CASE Post("source", "compute", "job", "serve")
    BY <2>1, <2>2, <2>4, PostControl
  <2>. QED BY <1>3, <2>3, <2>4 DEF SourceStep
<1>4. ASSUME ComputeReady \/ Deliver PROVE Control'
  <2>1. "wait" \in At("compute") /\ "idle" \in At("compute") BY DEF At, ComputeAt
  <2>2. Workers = {"source", "compute", "sink"} /\ {"ready", "result"} \subseteq Bodies
    BY DEF Workers, Bodies
  <2>. QED BY <1>4, <2>1, <2>2, PostControl DEF ComputeReady, Deliver
<1>5. ASSUME GetJob PROVE Control'
  <2>1. "download" \in At("compute") /\ "run" \in At("compute") BY DEF At, ComputeAt
  <2>2. "compute" \in Workers /\ "none" \in Bodies BY DEF Workers, Bodies
  <2>. QED BY <1>5, <2>1, <2>2, SlotControl DEF GetJob, Receive
<1>6. ASSUME SinkGets PROVE Control'
  <2>1. "upload" \in At("sink") /\ "report" \in At("sink") BY DEF At, SinkAt
  <2>2. "sink" \in Workers /\ "none" \in Bodies BY DEF Workers, Bodies
  <2>. QED BY <1>6, <2>1, <2>2, SlotControl DEF SinkGets, Receive
<1>7. ASSUME Download \/ MeasureEnds \/ ArchiveFails \/ ArchiveEnds PROVE Control'
  <2>1. {"run", "archive", "failed", "report", "deliver"} \subseteq At("compute") BY DEF At, ComputeAt
  <2>2. \E place \in At("compute") : pc' = [pc EXCEPT !["compute"] = place]
    BY <1>7, <2>1 DEF Download, MeasureEnds, ArchiveFails, ArchiveEnds
  <2>3. UNCHANGED <<run, started, slot, attempts>>
    BY <1>7 DEF Download, MeasureEnds, ArchiveFails, ArchiveEnds
  <2>4. "compute" \in Workers /\ attempts' \in 0..3 BY <2>3 DEF Workers, Control
  <2>. QED BY <2>2, <2>3, <2>4, MoveControl
<1>8. ASSUME (\E lat : Frame(lat) \/ FrameFallsBack(lat) \/ Window(lat))
             \/ StartOnCpu \/ Surrogate \/ MeasureFails
      PROVE  Control'
  <2>1. {"run", "progress", "failed"} \subseteq At("compute") BY DEF At, ComputeAt
  <2>2. \E place \in At("compute") : pc' = [pc EXCEPT !["compute"] = place]
    BY <1>8, <2>1 DEF Frame, FrameFallsBack, Window, StartOnCpu, Surrogate, MeasureFails, Measures, AfterFrame
  <2>3. UNCHANGED <<run, started, slot, attempts>>
    BY <1>8 DEF Frame, FrameFallsBack, Window, StartOnCpu, Surrogate, MeasureFails, Measures
  <2>4. "compute" \in Workers /\ attempts' \in 0..3 BY <2>3 DEF Workers, Control
  <2>. QED BY <2>2, <2>3, <2>4, MoveControl
<1>9. ASSUME ArchivePut PROVE Control'
  BY <1>9 DEF ArchivePut, Control
<1>10. ASSUME SinkUploads PROVE Control'
  <2>1. "report" \in At("sink") /\ "sink" \in Workers BY DEF At, SinkAt, Workers
  <2>2. UNCHANGED <<run, started, slot, attempts>> /\ attempts' \in 0..3 BY <1>10 DEF SinkUploads, Control
  <2>. QED BY <1>10, <2>1, <2>2, MoveControl DEF SinkUploads
<1>11. ASSUME ReportBegins \/ ReportAnswered PROVE Control'
  <2>1. /\ {"report", "reporting", "callback", "failed"} \subseteq At("compute")
        /\ {"report", "reporting", "idle", "failed"} \subseteq At("sink")
        /\ {"compute", "sink"} \subseteq Workers
    BY DEF At, ComputeAt, SinkAt, Workers
  <2>2. \E place \in At(Reporter) : pc' = [pc EXCEPT ![Reporter] = place]
    BY <1>11, <2>1 DEF ReportBegins, ReportAnswered, Reporter, AfterReport
  <2>3. UNCHANGED <<run, started, slot>> BY <1>11 DEF ReportBegins, ReportAnswered
  <2>4. attempts' \in 0..3
    <3>1. CASE ReportBegins
      <4>1. attempts <= 2 BY <3>1 DEF ReportBegins, Flow
      <4>2. attempts \in 0..3 /\ attempts' = attempts + 1 BY <3>1 DEF ReportBegins, Control
      <4>. QED BY <4>1, <4>2
    <3>2. CASE ReportAnswered BY <3>2 DEF ReportAnswered, Control
    <3>. QED BY <1>11, <3>1, <3>2
  <2>5. Reporter \in Workers BY <2>1 DEF Reporter
  <2>. QED BY <2>2, <2>3, <2>4, <2>5, MoveControl
<1>12. ASSUME Call \/ CallAnswered \/ GiveUp \/ ReceiverCrashes PROVE Control'
  <2>1. {"run", "progress", "progressing", "callback", "calling", "told", "idle"} \subseteq At("compute")
    BY DEF At, ComputeAt
  <2>2. pc["compute"] \in At("compute") BY DEF Control, At
  <2>3. \E place \in At("compute") : pc' = [pc EXCEPT !["compute"] = place]
    BY <1>12, <2>1, <2>2 DEF Call, CallAnswered, GiveUp, ReceiverCrashes
  <2>4. UNCHANGED <<run, started, slot, attempts>>
    BY <1>12 DEF Call, CallAnswered, GiveUp, ReceiverCrashes
  <2>5. "compute" \in Workers /\ attempts' \in 0..3 BY <2>4 DEF Workers, Control
  <2>. QED BY <2>3, <2>4, <2>5, MoveControl
<1>13. ASSUME UNCHANGED workers PROVE Control'
  BY <1>13 DEF workers, Control
<1>14. ASSUME StopRun \/ StartRun PROVE Control'
  <2>1. /\ Down \in [Workers -> Places]
        /\ \A w \in Workers : Down[w] = "down"
    BY DEF Down, Places
  <2>a. /\ Empty \in [Workers -> Bodies]
        /\ \A w \in Workers : Empty[w] = "none"
    BY DEF Empty, Bodies
  <2>b. "source" \in Workers /\ "compute" \in Workers /\ "sink" \in Workers BY DEF Workers
  <2>c. "down" \in SourceAt /\ "down" \in ComputeAt /\ "down" \in SinkAt
    BY DEF SourceAt, ComputeAt, SinkAt
  <2>2. CASE StopRun
    <3>1. pc' = Down /\ slot' = Empty /\ attempts' = 0 /\ started' = FALSE /\ run' = run
      BY <2>2 DEF StopRun
    <3>2. pc' \in [Workers -> Places] /\ \A w \in Workers : pc'[w] = "down"
      BY <2>1, <3>1
    <3>3. slot' \in [Workers -> Bodies] /\ \A w \in Workers : slot'[w] = "none"
      BY <2>a, <3>1
    <3>4. pc'["source"] \in SourceAt /\ pc'["compute"] \in ComputeAt /\ pc'["sink"] \in SinkAt
      BY <2>b, <2>c, <3>2
    <3>5. slot'["sink"] \in {"none", "result"}
      BY <2>b, <3>3
    <3>6. run' \in Runs
      BY <3>1 DEF Control
    <3>7. started' \in BOOLEAN BY <3>1
    <3>8. attempts' = 0 BY <3>1
    <3>9. attempts' \in 0..3 BY <3>8
    <3>. QED BY <3>2, <3>3, <3>4, <3>5, <3>6, <3>7, <3>9 DEF Control
  <2>3. CASE StartRun BY <2>3 DEF StartRun, Control
  <2>. QED BY <1>14, <2>2, <2>3
<1>15. ASSUME Put \/ PutWritten \/ ReceiverRestarts \/ \E r \in Runs : HandlerStep(r)
       PROVE  UNCHANGED workers
  BY <1>15 DEF Put, PutWritten, ReceiverRestarts, HandlerStep
<1>. QED BY <1>1, <1>2, <1>3, <1>4, <1>5, <1>6, <1>7, <1>8, <1>9, <1>10, <1>11, <1>12, <1>13, <1>14, <1>15
     DEF Next, ComputeStep, SinkStep, ReportStep, CallbackStep

(***************************************************************************)
(* Sorting a list of natural numbers, by induction on its length: of the   *)
(* lengths with a counterexample there would be a least one.               *)
(***************************************************************************)
\* A set of natural numbers has a least element, as the library's WFMin states it.
LEMMA MinimalOf ==
  ASSUME NEW R, IsWellFoundedOn(R, Nat), NEW T, T \subseteq Nat, T # {}
  PROVE  \E x \in T : \A y \in T : ~ (<<y, x>> \in R)
BY ONLY IsWellFoundedOn(R, Nat), T \subseteq Nat, T # {}, WFMin, Zenon

\* The same with the order of the numbers.
LEMMA LeastOf ==
  ASSUME NEW T, T \subseteq Nat, T # {}
  PROVE  \E x \in T : \A y \in T : x <= y
<1>. DEFINE R == {ss \in Nat \X Nat : ss[1] < ss[2]}
<1>1. OpToRel(<, Nat) = R BY DEF OpToRel
<1>2. IsWellFoundedOn(R, Nat) BY <1>1, NatLessThanWellFounded
<1>3. PICK x \in T : \A y \in T : ~ (<<y, x>> \in R)
  <2>. HIDE DEF R
  <2>. QED BY <1>2, MinimalOf
<1>4. ASSUME NEW y \in T PROVE x <= y
  <2>1. x \in Nat /\ y \in Nat OBVIOUS
  <2>2. ~ (y < x) BY <1>3, <2>1
  <2>. QED BY <2>1, <2>2
<1>. QED BY <1>4

IsTop(f, n, m) == \A i \in 1..n : f[i] <= f[m]

\* A list that is not empty has a largest member.
LEMMA LargestAt ==
  ASSUME NEW n \in Nat \ {0}, NEW f \in [1..n -> Nat]
  PROVE  \E m \in 1..n : IsTop(f, n, m)
<1>. DEFINE T == {k \in Nat : k # 0 /\ \E g \in [1..k -> Nat] : ~ \E m \in 1..k : IsTop(g, k, m)}
<1>1. SUFFICES T = {} OBVIOUS
<1>2. SUFFICES ASSUME T # {} PROVE FALSE OBVIOUS
<1>3. PICK k \in T : \A j \in T : k <= j
  <2>1. T \subseteq Nat OBVIOUS
  <2>. HIDE DEF T
  <2>. QED BY <1>2, <2>1, LeastOf
<1>4. k \in Nat /\ k # 0 OBVIOUS
<1>5. PICK g \in [1..k -> Nat] : ~ \E m \in 1..k : IsTop(g, k, m) OBVIOUS
<1>6. k # 1 BY <1>5 DEF IsTop
<1>7. (k - 1) \notin T
  <2>. HIDE DEF T
  <2>. QED BY <1>3, <1>4
<1>. DEFINE h == [i \in 1..(k - 1) |-> g[i]]
<1>8. PICK m \in 1..(k - 1) : IsTop(h, k - 1, m)
  <2>1. h \in [1..(k - 1) -> Nat] BY <1>4
  <2>2. (k - 1) \in Nat /\ k - 1 # 0 BY <1>4, <1>6
  <2>. QED BY <1>7, <2>1, <2>2
<1>9. \A i \in 1..(k - 1) : g[i] <= g[m] BY <1>4, <1>8 DEF IsTop
<1>10. g[m] \in Nat /\ g[k] \in Nat /\ m \in 1..k /\ k \in 1..k BY <1>4
<1>11. CASE g[k] <= g[m]
  <2>1. IsTop(g, k, m) BY <1>4, <1>9, <1>10, <1>11 DEF IsTop
  <2>. QED BY <1>5, <1>10, <2>1
<1>12. CASE g[m] <= g[k]
  <2>1. ASSUME NEW i \in 1..k PROVE g[i] <= g[k]
    <3>1. g[i] \in Nat OBVIOUS
    <3>2. i = k \/ i \in 1..(k - 1) BY <1>4
    <3>. QED BY <1>9, <1>10, <1>12, <3>1, <3>2
  <2>2. IsTop(g, k, k) BY <2>1 DEF IsTop
  <2>. QED BY <1>5, <1>10, <2>2
<1>. QED BY <1>10, <1>11, <1>12

Sorts(f, n, p) ==
  /\ \A i, j \in 1..n : p[i] = p[j] => i = j
  /\ \A i, j \in 1..n : i <= j => f[p[i]] <= f[p[j]]

\* A list can be sorted.
LEMMA SortExists ==
  ASSUME NEW n \in Nat, NEW f \in [1..n -> Nat]
  PROVE  \E p \in [1..n -> 1..n] : Sorts(f, n, p)
<1>. DEFINE T == {k \in Nat : \E g \in [1..k -> Nat] : ~ \E p \in [1..k -> 1..k] : Sorts(g, k, p)}
<1>1. SUFFICES T = {} OBVIOUS
<1>2. SUFFICES ASSUME T # {} PROVE FALSE OBVIOUS
<1>3. PICK k \in T : \A j \in T : k <= j
  <2>1. T \subseteq Nat OBVIOUS
  <2>. HIDE DEF T
  <2>. QED BY <1>2, <2>1, LeastOf
<1>4. k \in Nat OBVIOUS
<1>5. PICK g \in [1..k -> Nat] : ~ \E p \in [1..k -> 1..k] : Sorts(g, k, p) OBVIOUS
<1>6. k # 0
  <2>1. SUFFICES ASSUME k = 0 PROVE FALSE OBVIOUS
  <2>2. [i \in 1..k |-> i] \in [1..k -> 1..k] OBVIOUS
  <2>3. Sorts(g, k, [i \in 1..k |-> i]) BY <2>1 DEF Sorts
  <2>. QED BY <1>5, <2>2, <2>3
<1>7. (k - 1) \notin T
  <2>. HIDE DEF T
  <2>. QED BY <1>3, <1>4
<1>8. PICK m \in 1..k : IsTop(g, k, m) BY <1>4, <1>6, LargestAt
<1>. DEFINE h == [i \in 1..(k - 1) |-> IF i = m THEN g[k] ELSE g[i]]
<1>9. PICK p \in [1..(k - 1) -> 1..(k - 1)] : Sorts(h, k - 1, p)
  <2>1. h \in [1..(k - 1) -> Nat] BY <1>4, <1>6
  <2>2. (k - 1) \in Nat BY <1>4, <1>6
  <2>. QED BY <1>7, <2>1, <2>2
<1>. DEFINE swap(i) == IF i = m THEN k ELSE i
            q == [i \in 1..k |-> IF i = k THEN m ELSE swap(p[i])]
<1>10. q \in [1..k -> 1..k]
  <2>. SUFFICES ASSUME NEW i \in 1..k PROVE q[i] \in 1..k OBVIOUS
  <2>1. CASE i = k BY <1>4, <2>1
  <2>2. CASE i # k
    <3>1. i \in 1..(k - 1) BY <1>4, <2>2
    <3>2. p[i] \in 1..(k - 1) BY <3>1
    <3>3. k \in 1..k /\ p[i] \in 1..k BY <1>4, <1>6, <3>2
    <3>. QED BY <2>2, <3>3
  <2>. QED BY <2>1, <2>2
<1>11. ASSUME NEW i \in 1..(k - 1)
       PROVE  /\ i \in 1..k /\ i # k /\ p[i] \in 1..(k - 1) /\ p[i] # k
              /\ q[i] = swap(p[i]) /\ q[i] # m
              /\ g[q[i]] = h[p[i]]
  <2>1. i \in 1..k /\ i # k BY <1>4
  <2>2. p[i] \in 1..(k - 1) /\ p[i] # k BY <1>4
  <2>3. q[i] = swap(p[i]) BY <2>1
  <2>4. h[p[i]] = IF p[i] = m THEN g[k] ELSE g[p[i]] BY <2>2
  <2>. HIDE DEF q, h
  <2>5. q[i] # m BY <2>2, <2>3
  <2>6. g[q[i]] = h[p[i]]
    <3>1. CASE p[i] = m BY <2>3, <2>4, <3>1
    <3>2. CASE p[i] # m
      <4>1. q[i] = p[i] BY <2>3, <3>2
      <4>2. h[p[i]] = g[p[i]] BY <2>4, <3>2
      <4>. QED BY <4>1, <4>2
    <3>. QED BY <3>1, <3>2
  <2>. QED BY <2>1, <2>2, <2>3, <2>5, <2>6
<1>12. q[k] = m /\ \A i \in 1..k : g[q[i]] \in Nat /\ g[q[i]] <= g[m]
  <2>. HIDE DEF q
  <2>1. \A i \in 1..k : q[i] \in 1..k BY <1>10
  <2>2. q[k] = m BY <1>4, <1>6 DEF q
  <2>. QED BY <1>8, <2>1, <2>2 DEF IsTop
<1>13. \A i, j \in 1..k : q[i] = q[j] => i = j
  <2>. SUFFICES ASSUME NEW i \in 1..k, NEW j \in 1..k, q[i] = q[j] PROVE i = j OBVIOUS
  <2>1. CASE i = k \/ j = k
    <3>1. \A l \in 1..k : l = k \/ l \in 1..(k - 1) BY <1>4
    <3>3. q[k] = m BY <1>12
    <3>. HIDE DEF q
    <3>2. ASSUME NEW l \in 1..k, l # k PROVE q[l] # m
      <4>1. l \in 1..(k - 1) BY <3>1, <3>2
      <4>. QED BY <1>11, <4>1
    <3>. QED BY <2>1, <3>2, <3>3
  <2>2. CASE i # k /\ j # k
    <3>1. i \in 1..(k - 1) /\ j \in 1..(k - 1) BY <1>4, <2>2
    <3>2. p[i] = p[j]
      <4>1. q[i] = swap(p[i]) /\ q[j] = swap(p[j]) /\ p[i] # k /\ p[j] # k BY <1>11, <3>1
      <4>. HIDE DEF q
      <4>. QED BY <4>1
    <3>. QED BY <1>9, <3>1, <3>2 DEF Sorts
  <2>. QED BY <2>1, <2>2
<1>14. \A i, j \in 1..k : i <= j => g[q[i]] <= g[q[j]]
  <2>. SUFFICES ASSUME NEW i \in 1..k, NEW j \in 1..k, i <= j PROVE g[q[i]] <= g[q[j]] OBVIOUS
  <2>. HIDE DEF q
  <2>1. CASE j = k BY <1>12, <2>1
  <2>2. CASE j # k
    <3>1. i \in 1..(k - 1) /\ j \in 1..(k - 1) BY <1>4, <2>2
    <3>2. h[p[i]] <= h[p[j]]
      <4>. HIDE DEF h
      <4>. QED BY <1>9, <3>1 DEF Sorts
    <3>3. g[q[i]] = h[p[i]] /\ g[q[j]] = h[p[j]] BY <1>11, <3>1
    <3>. QED BY <3>2, <3>3
  <2>. QED BY <2>1, <2>2
<1>15. Sorts(g, k, q)
  <2>. HIDE DEF q
  <2>. QED BY <1>13, <1>14 DEF Sorts
<1>. QED BY <1>5, <1>10, <1>15

(***************************************************************************)
(* The value of a result is the quantile it claims to be.                  *)
(***************************************************************************)
Lats(samples) == [i \in DOMAIN samples |-> samples[i].lat]

\* What a sample took is a number.
LEMMA LatOf ==
  ASSUME NEW samples \in Seq(Sample), NEW i \in 1..Len(samples)
  PROVE  samples[i] \in Sample /\ samples[i].lat \in Nat
<1>1. samples[i] \in Sample OBVIOUS
<1>2. samples[i].lat \in Latencies BY <1>1 DEF Sample
<1>3. Latencies \subseteq Nat BY JobAssumption
<1>. QED BY <1>1, <1>2, <1>3

\* Ranking, a CHOOSE, finds the permutation that sorts the samples.
LEMMA Ranked ==
  ASSUME NEW samples \in Seq(Sample)
  PROVE  LET n == Len(samples)
             p == Ranking(samples)
         IN  p \in [1..n -> 1..n] /\ Sorts(Lats(samples), n, p)
<1>. DEFINE n == Len(samples)
<1>1. n \in Nat /\ DOMAIN samples = 1..n OBVIOUS
<1>3. \A i \in 1..n : samples[i].lat \in Nat BY LatOf
<1>4. Lats(samples) \in [1..n -> Nat] BY <1>1, <1>3 DEF Lats
<1>5. PICK q \in [1..n -> 1..n] : Sorts(Lats(samples), n, q) BY <1>1, <1>4, SortExists
<1>6. \A r \in [1..n -> 1..n] :
        Sorts(Lats(samples), n, r) <=>
          /\ \A i, j \in 1..n : r[i] = r[j] => i = j
          /\ \A i, j \in 1..n : i <= j => samples[r[i]].lat <= samples[r[j]].lat
  BY <1>1 DEF Sorts, Lats
<1>. DEFINE p == Ranking(samples)
<1>7. p = CHOOSE r \in [1..n -> 1..n] :
            /\ \A i, j \in 1..n : r[i] = r[j] => i = j
            /\ \A i, j \in 1..n : i <= j => samples[r[i]].lat <= samples[r[j]].lat
  BY <1>1 DEF Ranking
<1>. HIDE DEF p, n
<1>8. /\ p \in [1..n -> 1..n]
      /\ \A i, j \in 1..n : p[i] = p[j] => i = j
      /\ \A i, j \in 1..n : i <= j => samples[p[i]].lat <= samples[p[j]].lat
  BY <1>5, <1>6, <1>7
<1>9. Sorts(Lats(samples), n, p) BY <1>6, <1>8
<1>. QED BY <1>8, <1>9 DEF n, p

\* Where a permutation takes the positions from a to b, that many samples are.
LEMMA CountTaken ==
  ASSUME NEW n \in Nat, NEW p \in [1..n -> 1..n], \A i, j \in 1..n : p[i] = p[j] => i = j,
         NEW S, S \subseteq 1..n, NEW a \in 1..n, NEW b \in 1..n, a <= b, \A j \in a..b : p[j] \in S
  PROVE  Cardinality(S) \in Nat /\ Cardinality(S) >= b - a + 1
<1>1. IsFiniteSet(1..n) BY FS_Interval
<1>2. IsFiniteSet(S) /\ Cardinality(S) \in Nat BY <1>1, FS_Subset, FS_CardinalityType
<1>. DEFINE g == [j \in a..b |-> p[j]]
<1>3. g \in [a..b -> S] OBVIOUS
<1>4. \A i, j \in a..b : g[i] = g[j] => i = j OBVIOUS
<1>5. g \in Injection(a..b, S)
  <2>. HIDE DEF g
  <2>. QED BY <1>3, <1>4 DEF Injection, IsInjective
<1>6. Cardinality(a..b) <= Cardinality(S) BY <1>2, <1>5, FS_Injection
<1>7. Cardinality(a..b) = b - a + 1 BY FS_Interval
<1>. QED BY <1>2, <1>6, <1>7

\* So many samples are at or below a value that is not below the k-th in order.
LEMMA ManyBelow ==
  ASSUME NEW samples \in Seq(Sample), NEW k \in 1..Len(samples), NEW v \in Nat,
         10 * Ordered(samples)[k] <= v
  PROVE  AtMost(samples, v) \in Nat /\ AtMost(samples, v) >= k
<1>. DEFINE n == Len(samples)
            p == Ranking(samples)
            S == {i \in DOMAIN samples : 10 * samples[i].lat <= v}
<1>1. n \in Nat /\ DOMAIN samples = 1..n OBVIOUS
<1>2. p \in [1..n -> 1..n] /\ Sorts(Lats(samples), n, p) BY Ranked
<1>3. \A i \in 1..n : samples[i].lat \in Nat BY LatOf
<1>4. Ordered(samples)[k] = samples[p[k]].lat BY <1>1 DEF Ordered
<1>. HIDE DEF p
<1>5. ASSUME NEW j \in 1..k PROVE p[j] \in S
  <2>1. j \in 1..n /\ j <= k /\ k \in 1..n BY <1>1
  <2>2. p[j] \in 1..n /\ p[k] \in 1..n BY <1>2, <2>1
  <2>3. samples[p[j]].lat <= samples[p[k]].lat BY <1>1, <1>2, <2>1, <2>2 DEF Sorts, Lats
  <2>4. 10 * samples[p[j]].lat <= v BY <1>3, <1>4, <2>2, <2>3
  <2>. QED BY <1>1, <2>2, <2>4
<1>6. \A i, j \in 1..n : p[i] = p[j] => i = j BY <1>2 DEF Sorts
<1>7. S \subseteq 1..n BY <1>1
<1>8. 1 \in 1..n /\ 1 <= k /\ k \in 1..n BY <1>1
<1>. HIDE DEF S, n
<1>9. Cardinality(S) \in Nat /\ Cardinality(S) >= k - 1 + 1 BY <1>1, <1>2, <1>5, <1>6, <1>7, <1>8, CountTaken
<1>10. AtMost(samples, v) = Cardinality(S) BY DEF AtMost, S
<1>. QED BY <1>9, <1>10

\* And so many at or above a value that is not above it.
LEMMA ManyAbove ==
  ASSUME NEW samples \in Seq(Sample), NEW k \in 1..Len(samples), NEW v \in Nat,
         v <= 10 * Ordered(samples)[k]
  PROVE  AtLeast(samples, v) \in Nat /\ AtLeast(samples, v) >= Len(samples) - k + 1
<1>. DEFINE n == Len(samples)
            p == Ranking(samples)
            S == {i \in DOMAIN samples : 10 * samples[i].lat >= v}
<1>1. n \in Nat /\ DOMAIN samples = 1..n OBVIOUS
<1>2. p \in [1..n -> 1..n] /\ Sorts(Lats(samples), n, p) BY Ranked
<1>3. \A i \in 1..n : samples[i].lat \in Nat BY LatOf
<1>4. Ordered(samples)[k] = samples[p[k]].lat BY <1>1 DEF Ordered
<1>. HIDE DEF p
<1>5. ASSUME NEW j \in k..n PROVE p[j] \in S
  <2>1. j \in 1..n /\ k <= j /\ k \in 1..n BY <1>1
  <2>2. p[j] \in 1..n /\ p[k] \in 1..n BY <1>2, <2>1
  <2>3. samples[p[k]].lat <= samples[p[j]].lat BY <1>1, <1>2, <2>1, <2>2 DEF Sorts, Lats
  <2>4. 10 * samples[p[j]].lat >= v BY <1>3, <1>4, <2>2, <2>3
  <2>. QED BY <1>1, <2>2, <2>4
<1>6. \A i, j \in 1..n : p[i] = p[j] => i = j BY <1>2 DEF Sorts
<1>7. S \subseteq 1..n BY <1>1
<1>8. k \in 1..n /\ n \in 1..n /\ k <= n BY <1>1
<1>. HIDE DEF S, n
<1>9. Cardinality(S) \in Nat /\ Cardinality(S) >= n - k + 1 BY <1>1, <1>2, <1>5, <1>6, <1>7, <1>8, CountTaken
<1>10. AtLeast(samples, v) = Cardinality(S) BY DEF AtLeast, S
<1>. QED BY <1>9, <1>10 DEF n

\* The order statistics are numbers, and in order.
LEMMA OrderedType ==
  ASSUME NEW samples \in Seq(Sample)
  PROVE  LET n == Len(samples)
             o == Ordered(samples)
         IN  /\ \A i \in 1..n : o[i] \in Nat
             /\ \A i, j \in 1..n : i <= j => o[i] <= o[j]
<1>. DEFINE n == Len(samples)
            p == Ranking(samples)
            o == Ordered(samples)
<1>1. n \in Nat /\ DOMAIN samples = 1..n OBVIOUS
<1>2. p \in [1..n -> 1..n] /\ Sorts(Lats(samples), n, p) BY Ranked
<1>3. \A i \in 1..n : samples[i].lat \in Nat BY LatOf
<1>4. \A i \in 1..n : o[i] = samples[p[i]].lat BY <1>1 DEF Ordered
<1>5. \A i \in 1..n : p[i] \in 1..n BY <1>2
<1>6. \A i, j \in 1..n : i <= j => samples[p[i]].lat <= samples[p[j]].lat
  BY <1>1, <1>2, <1>5 DEF Sorts, Lats
<1>. HIDE DEF p, o, n
<1>7. (\A i \in 1..n : o[i] \in Nat) /\ \A i, j \in 1..n : i <= j => o[i] <= o[j]
  BY <1>3, <1>4, <1>5, <1>6
<1>. QED BY <1>7 DEF n, o

\* percentile(values, 0.90) of any samples, however many: a natural number (scaled)
\* that as many samples are at or below, and at or above, as its rank says.
THEOREM PercentileIsQuantile ==
  ASSUME NEW samples \in Seq(Sample), samples # <<>>, kind # "matmul"
  PROVE  /\ Percentile90(samples) \in Nat
         /\ IsQuantile(kind, samples, Percentile90(samples))
<1>. DEFINE n == Len(samples)
            o == Ordered(samples)
            rank == (n - 1) * 9
            lower == rank \div 10
            upper == (rank + 9) \div 10
            weight == rank % 10
            v == o[lower + 1] * (10 - weight) + o[upper + 1] * weight
<1>1. n \in Nat /\ n >= 1 OBVIOUS
<1>2. rank \in Nat /\ lower \in Nat /\ upper \in Nat /\ weight \in 0..9 BY <1>1
<1>3. lower + 1 \in 1..n /\ upper + 1 \in 1..n /\ lower <= upper /\ upper <= lower + 1 BY <1>1
<1>4. (\A i \in 1..n : o[i] \in Nat) /\ \A i, j \in 1..n : i <= j => o[i] <= o[j] BY OrderedType
<1>5. Percentile90(samples) = v BY DEF Percentile90
<1>. HIDE DEF o
<1>6. v \in Nat /\ 10 * o[lower + 1] <= v /\ v <= 10 * o[upper + 1]
  <2>. DEFINE lo == o[lower + 1]
              hi == o[upper + 1]
  <2>1. lo \in Nat /\ hi \in Nat /\ lo <= hi BY <1>3, <1>4
  <2>2. weight \in 0..9 BY <1>2
  <2>3. v = lo * (10 - weight) + hi * weight OBVIOUS
  <2>. HIDE DEF lo, hi, weight, v, rank, lower, upper
  <2>4. \A w \in 0..9, x, y \in Nat :
          x <= y => /\ x * (10 - w) + y * w \in Nat
                    /\ 10 * x <= x * (10 - w) + y * w
                    /\ x * (10 - w) + y * w <= 10 * y
    <3>. SUFFICES ASSUME NEW w \in 0..9, NEW x \in Nat, NEW y \in Nat, x <= y
                  PROVE  /\ x * (10 - w) + y * w \in Nat
                         /\ 10 * x <= x * (10 - w) + y * w
                         /\ x * (10 - w) + y * w <= 10 * y
      OBVIOUS
    <3>1. CASE w = 0 BY <3>1
    <3>2. CASE w = 1 BY <3>2
    <3>3. CASE w = 2 BY <3>3
    <3>4. CASE w = 3 BY <3>4
    <3>5. CASE w = 4 BY <3>5
    <3>6. CASE w = 5 BY <3>6
    <3>7. CASE w = 6 BY <3>7
    <3>8. CASE w = 7 BY <3>8
    <3>9. CASE w = 8 BY <3>9
    <3>10. CASE w = 9 BY <3>10
    <3>. QED BY <3>1, <3>2, <3>3, <3>4, <3>5, <3>6, <3>7, <3>8, <3>9, <3>10
  <2>5. v \in Nat /\ 10 * lo <= v /\ v <= 10 * hi BY <2>1, <2>2, <2>3, <2>4
  <2>. QED BY <2>5 DEF lo, hi
<1>. HIDE DEF v, lower, upper
<1>7. AtMost(samples, v) \in Nat /\ AtMost(samples, v) >= lower + 1 BY <1>3, <1>6, ManyBelow DEF o
<1>8. AtLeast(samples, v) \in Nat /\ AtLeast(samples, v) >= n - (upper + 1) + 1
  BY <1>3, <1>6, ManyAbove DEF o
<1>9. n - AtLeast(samples, v) <= lower + 1 BY <1>1, <1>2, <1>3, <1>8
<1>10. lower = ((n - 1) * 9) \div 10 BY DEF lower
<1>. HIDE DEF n
<1>11. IsQuantile(kind, samples, v)
  <2>1. lower + 1 = 1 + ((n - 1) * 9) \div 10 BY <1>2, <1>10
  <2>. QED BY <1>7, <1>9, <2>1 DEF IsQuantile, n
<1>. QED BY <1>5, <1>6, <1>11

\* statistics.median of the window's samples: half are at or below it, half at or above.
THEOREM MedianIsQuantile ==
  ASSUME NEW samples \in Seq(Sample), samples # <<>>, kind = "matmul"
  PROVE  Median(samples) \in Nat /\ IsQuantile(kind, samples, Median(samples))
<1>. DEFINE n == Len(samples)
            o == Ordered(samples)
            v == Median(samples)
<1>1. n \in Nat /\ n >= 1 OBVIOUS
<1>2. (\A i \in 1..n : o[i] \in Nat) /\ \A i, j \in 1..n : i <= j => o[i] <= o[j] BY OrderedType
<1>3. \E a, b \in 1..n : /\ 2 * a >= n /\ 2 * (n - b + 1) >= n
                         /\ v \in Nat /\ 10 * o[a] <= v /\ v <= 10 * o[b]
  <2>1. CASE n % 2 = 1
    <3>. DEFINE a == (n + 1) \div 2
    <3>1. a \in 1..n /\ 2 * a = n + 1 BY <1>1, <2>1
    <3>2. v = 10 * o[a] BY <2>1 DEF Median
    <3>. HIDE DEF o, v, a
    <3>3. o[a] \in Nat BY <1>2, <3>1
    <3>. QED BY <1>1, <3>1, <3>2, <3>3
  <2>2. CASE n % 2 # 1
    <3>. DEFINE a == n \div 2
    <3>1. a \in 1..n /\ a + 1 \in 1..n /\ 2 * a = n BY <1>1, <2>2
    <3>2. v = 5 * (o[a] + o[a + 1]) BY <2>2 DEF Median
    <3>. HIDE DEF o, v, a
    <3>3. o[a] \in Nat /\ o[a + 1] \in Nat /\ o[a] <= o[a + 1] BY <1>2, <3>1
    <3>4. v \in Nat /\ 10 * o[a] <= v /\ v <= 10 * o[a + 1] BY <3>2, <3>3
    <3>. QED BY <1>1, <3>1, <3>4
  <2>. QED BY <2>1, <2>2
<1>4. PICK a \in 1..n, b \in 1..n : /\ 2 * a >= n /\ 2 * (n - b + 1) >= n
                                    /\ v \in Nat /\ 10 * o[a] <= v /\ v <= 10 * o[b]
  BY <1>3
<1>. HIDE DEF v
<1>5. AtMost(samples, v) \in Nat /\ AtMost(samples, v) >= a BY <1>4, ManyBelow
<1>6. AtLeast(samples, v) \in Nat /\ AtLeast(samples, v) >= n - b + 1 BY <1>4, ManyAbove
<1>7. 2 * AtMost(samples, v) >= n /\ 2 * AtLeast(samples, v) >= n BY <1>1, <1>4, <1>5, <1>6
<1>8. IsQuantile(kind, samples, v) BY <1>7 DEF IsQuantile
<1>. QED BY <1>4, <1>8 DEF v

(***************************************************************************)
(* The measurement.                                                        *)
(***************************************************************************)
\* The frames of a job are multiples of its stride, up to the number it wants.
LEMMA FrameAtType ==
  ASSUME NEW k \in Kinds, NEW i \in 1..Wanted
  PROVE  FrameAt(k, i) \in Frames
<1>1. /\ WarmupFrames \in Nat /\ FrameCount \in Nat \ {0} /\ FrameStride \in Nat \ {0}
      /\ MeasuredFrames \in Nat \ {0} /\ Readable \in Nat \ {0}
  BY JobAssumption
<1>2. Wanted \in Nat /\ Wanted >= 1 BY <1>1 DEF Wanted
<1>3. ASSUME NEW j \in 1..Wanted PROVE (j - 1) * FrameStride \in Frames
  <2>1. j - 1 \in 0..(WarmupFrames + MeasuredFrames) BY <1>1, <1>2 DEF Wanted
  <2>. QED BY <2>1 DEF Frames
<1>4. VideoFrames[i] = (i - 1) * FrameStride
  <2>. DEFINE ranged == (Most(FrameCount, 1) + FrameStride - 1) \div FrameStride
  <2>1. ranged \in Int
    <3>1. Most(FrameCount, 1) + FrameStride - 1 \in Int BY <1>1 DEF Most
    <3>. QED BY <1>1, <3>1
  <2>. HIDE DEF ranged
  <2>2. i \in 1..Most(ranged, Wanted) BY <1>2, <2>1 DEF Most
  <2>3. VideoFrames = [j \in 1..Most(ranged, Wanted) |-> (j - 1) * FrameStride] BY DEF VideoFrames, ranged
  <2>. QED BY <2>2, <2>3
<1>5. FusionFrames[i] \in Frames
  <2>. DEFINE strides == (Least(FrameCount, Readable) + FrameStride - 1) \div FrameStride
              m == Least(Wanted, strides)
  <2>1. strides \in Nat /\ strides >= 1
    <3>. DEFINE l == Least(FrameCount, Readable)
    <3>1. l \in Nat /\ l >= 1 BY <1>1 DEF Least
    <3>2. l + FrameStride - 1 \in Nat /\ l + FrameStride - 1 >= FrameStride BY <1>1, <3>1
    <3>. HIDE DEF l
    <3>3. \A x \in Nat, y \in Nat \ {0} : x >= y => x \div y \in Nat /\ x \div y >= 1 OBVIOUS
    <3>4. (l + FrameStride - 1) \div FrameStride \in Nat /\ (l + FrameStride - 1) \div FrameStride >= 1
      BY <1>1, <3>2, <3>3
    <3>. QED BY <3>4 DEF l
  <2>. HIDE DEF strides
  <2>2. m \in 1..Wanted BY <1>2, <2>1 DEF Least
  <2>3. PairsRead = [j \in 1..m |-> (j - 1) * FrameStride] BY DEF PairsRead, strides
  <2>. HIDE DEF m
  <2>4. Len(PairsRead) = m /\ PairsRead[1] = 0 * FrameStride BY <2>2, <2>3
  <2>5. FusionFrames[i] = IF i <= m THEN PairsRead[i] ELSE PairsRead[1] BY <2>4 DEF FusionFrames
  <2>6. CASE i <= m
    <3>1. i \in 1..m BY <2>2, <2>6
    <3>2. FusionFrames[i] = (i - 1) * FrameStride BY <2>3, <2>5, <2>6, <3>1
    <3>. QED BY <1>3, <3>2
  <2>7. CASE ~ (i <= m)
    <3>1. PairsRead[1] = (1 - 1) * FrameStride BY <2>2, <2>3
    <3>2. FusionFrames[i] = PairsRead[1] BY <2>5, <2>7
    <3>. QED BY <1>2, <1>3, <3>1, <3>2
  <2>. QED BY <2>6, <2>7
<1>. QED BY <1>3, <1>4, <1>5 DEF FrameAt

\* The fields of the job.
LEMMA JobTypes ==
  /\ WarmupFrames \in Nat /\ MeasuredFrames \in Nat /\ MeasuredFrames >= 1
  /\ MaxSamples \in Nat /\ MaxSamples >= 1
  /\ Wanted \in Nat /\ Wanted = WarmupFrames + MeasuredFrames
BY JobAssumption DEF Wanted

\* A fresh measurement has taken nothing.
LEMMA FreshMeasure ==
  ASSUME NEW b \in Backends
  PROVE  /\ Fresh(b) \in Measures_
         /\ Fresh(b).at = 1 /\ Fresh(b).samples = <<>> /\ Fresh(b).backend = b
BY DEF Fresh, Measures_

\* A fresh one is fine.
LEMMA FreshFine ==
  ASSUME NEW b \in Backends PROVE Fine(Fresh(b))
<1>1. /\ Fresh(b).at = 1 /\ Fresh(b).samples = <<>> /\ Len(Fresh(b).samples) = 0
      /\ DOMAIN Fresh(b).samples = {}
  BY FreshMeasure
<1>. HIDE DEF Fresh
<1>2. 1 <= Wanted + 1 /\ 1 = 0 + 1 /\ 0 <= MaxSamples
      /\ 0 = IF 1 <= WarmupFrames THEN 0 ELSE 1 - WarmupFrames - 1
  BY JobTypes
<1>. QED BY <1>1, <1>2 DEF Fine

\* One frame: a position further, and the sample of its frame once the warm-up is over.
LEMMA TookFine ==
  ASSUME kind \in Kinds, kind # "matmul", NEW m \in Measures_, Fine(m), ~ AllFrames(m),
         NEW lat \in Latencies, NEW on \in Backends
  PROVE  LET t == Took(kind, m, lat, on)
         IN  /\ t \in Measures_
             /\ t.backend = m.backend
             /\ on = m.backend => Fine(t)
             /\ Fine([t EXCEPT !.backend = "cpu"])
             /\ ~ Warming(m) => t.samples # <<>>
<1>. DEFINE t == Took(kind, m, lat, on)
            s == [frame |-> FrameAt(kind, m.at), lat |-> lat, on |-> on]
            n == Len(m.samples)
<1>1. m.at \in Nat /\ m.at >= 1 /\ m.at <= Wanted /\ m.samples \in Seq(Sample) /\ m.backend \in Backends
  BY JobTypes DEF Measures_, AllFrames
<1>2. s \in Sample
  <2>1. FrameAt(kind, m.at) \in Frames BY <1>1, FrameAtType, JobTypes
  <2>. QED BY <2>1 DEF Sample
<1>3. n \in Nat /\ DOMAIN m.samples = 1..n BY <1>1
<1>4. /\ n = IF m.at <= WarmupFrames THEN 0 ELSE m.at - WarmupFrames - 1
      /\ \A i \in 1..n : m.samples[i].frame = FrameAt(kind, WarmupFrames + i)
      /\ m.backend = "gpu" => \A i \in 1..n : m.samples[i].on = "gpu"
  BY <1>3 DEF Fine
<1>5. s.frame = FrameAt(kind, m.at) /\ s.on = on OBVIOUS
<1>. HIDE DEF s
<1>6. /\ t.at = m.at + 1 /\ t.backend = m.backend
      /\ t.samples = IF Warming(m) THEN m.samples ELSE Append(m.samples, s)
      /\ t \in Measures_
  <2>1. Append(m.samples, s) \in Seq(Sample) BY <1>1, <1>2
  <2>2. t = [m EXCEPT !.at = @ + 1,
                      !.samples = IF Warming(m) THEN @ ELSE Append(@, s)]
    BY DEF Took, s
  <2>3. (IF Warming(m) THEN m.samples ELSE Append(m.samples, s)) \in Seq(Sample) BY <1>1, <2>1
  <2>4. m.at + 1 \in Nat \ {0} BY <1>1
  <2>. HIDE DEF t
  <2>5. t = [at |-> m.at + 1, samples |-> IF Warming(m) THEN m.samples ELSE Append(m.samples, s),
             backend |-> m.backend]
    BY <2>2 DEF Measures_
  <2>. QED BY <1>1, <2>3, <2>4, <2>5 DEF Measures_
<1>. HIDE DEF t
<1>. DEFINE c == [t EXCEPT !.backend = "cpu"]
<1>7. c.at = t.at /\ c.samples = t.samples /\ c.backend = "cpu" BY <1>6 DEF Measures_
<1>. HIDE DEF c
<1>8. CASE Warming(m)
  <2>1. m.at <= WarmupFrames BY <1>8 DEF Warming
  <2>2. t.samples = m.samples /\ n = 0 BY <1>4, <1>6, <1>8, <2>1
  <2>3. t.at <= Wanted + 1 /\ 0 = IF t.at <= WarmupFrames THEN 0 ELSE t.at - WarmupFrames - 1
    BY <1>1, <1>6, <2>1, JobTypes
  <2>4. \A i \in DOMAIN t.samples : FALSE BY <1>3, <2>2
  <2>5. Len(t.samples) = 0 BY <2>2
  <2>6. Fine(t) /\ Fine(c) BY <1>7, <2>3, <2>4, <2>5 DEF Fine
  <2>. QED BY <1>6, <1>8, <2>6 DEF t, c
<1>9. CASE ~ Warming(m)
  <2>1. m.at > WarmupFrames BY <1>1, <1>9, JobTypes DEF Warming
  <2>2. n = m.at - WarmupFrames - 1 BY <1>1, <1>4, <2>1, JobTypes
  <2>3. t.samples = Append(m.samples, s) BY <1>6, <1>9
  <2>4. /\ Len(t.samples) = n + 1 /\ DOMAIN t.samples = 1..(n + 1)
        /\ \A i \in 1..(n + 1) : t.samples[i] = IF i = n + 1 THEN s ELSE m.samples[i]
    BY <1>1, <1>2, <1>3, <2>3
  <2>5. WarmupFrames + (n + 1) = m.at BY <1>1, <2>2, JobTypes
  <2>6. \A i \in 1..(n + 1) : t.samples[i].frame = FrameAt(kind, WarmupFrames + i)
    <3>. SUFFICES ASSUME NEW i \in 1..(n + 1) PROVE t.samples[i].frame = FrameAt(kind, WarmupFrames + i)
      OBVIOUS
    <3>1. CASE i = n + 1 BY <1>5, <2>4, <2>5, <3>1
    <3>2. CASE i # n + 1
      <4>1. i \in 1..n BY <1>3, <3>2
      <4>. QED BY <1>4, <2>4, <3>2, <4>1
    <3>. QED BY <3>1, <3>2
  <2>7. t.at <= Wanted + 1 /\ n + 1 = IF t.at <= WarmupFrames THEN 0 ELSE t.at - WarmupFrames - 1
    BY <1>1, <1>6, <2>1, <2>2, JobTypes
  <2>8. on = "gpu" /\ m.backend = "gpu" => \A i \in 1..(n + 1) : t.samples[i].on = "gpu"
    <3>. SUFFICES ASSUME on = "gpu", m.backend = "gpu", NEW i \in 1..(n + 1) PROVE t.samples[i].on = "gpu"
      OBVIOUS
    <3>1. CASE i = n + 1 BY <1>5, <2>4, <3>1
    <3>2. CASE i # n + 1
      <4>1. i \in 1..n BY <1>3, <3>2
      <4>. QED BY <1>4, <2>4, <3>2, <4>1
    <3>. QED BY <3>1, <3>2
  <2>9. Fine(c) BY <1>7, <2>4, <2>6, <2>7 DEF Fine
  <2>10. on = m.backend => Fine(t) BY <1>6, <2>4, <2>6, <2>7, <2>8 DEF Fine
  <2>11. t.samples # <<>> BY <1>3, <2>4
  <2>. QED BY <1>6, <2>9, <2>10, <2>11 DEF t, c
<1>. QED BY <1>8, <1>9

\* One turn of the observation window.
LEMMA SampledFine ==
  ASSUME kind = "matmul", NEW m \in Measures_, Fine(m), Len(m.samples) < MaxSamples, NEW lat \in Latencies
  PROVE  Sampled(m, lat) \in Measures_ /\ Fine(Sampled(m, lat))
<1>. DEFINE t == Sampled(m, lat)
            s == [frame |-> 0, lat |-> lat, on |-> m.backend]
            n == Len(m.samples)
<1>1. m.at \in Nat /\ m.at >= 1 /\ m.samples \in Seq(Sample) /\ m.backend \in Backends BY DEF Measures_
<1>2. s \in Sample
  <2>1. 0 \in 0..(WarmupFrames + MeasuredFrames) BY JobTypes
  <2>2. 0 * FrameStride = 0 BY JobAssumption
  <2>3. 0 \in Frames BY <2>1, <2>2 DEF Frames
  <2>. QED BY <1>1, <2>3 DEF Sample
<1>3. s.on = m.backend OBVIOUS
<1>. HIDE DEF s
<1>a. t = [m EXCEPT !.at = @ + 1, !.samples = Append(@, s)] BY DEF Sampled, s
<1>. HIDE DEF t
<1>4. t = [at |-> m.at + 1, samples |-> Append(m.samples, s), backend |-> m.backend]
  BY <1>a DEF Measures_
<1>5. Append(m.samples, s) \in Seq(Sample) BY <1>1, <1>2
<1>6. t \in Measures_ BY <1>1, <1>4, <1>5 DEF Measures_
<1>7. /\ t.at = m.at + 1 /\ t.backend = m.backend /\ t.samples = Append(m.samples, s) BY <1>4
<1>8. /\ n \in Nat /\ Len(t.samples) = n + 1 /\ DOMAIN t.samples = 1..(n + 1)
      /\ \A i \in 1..(n + 1) : t.samples[i] = IF i = n + 1 THEN s ELSE m.samples[i]
  BY <1>1, <1>2, <1>7
<1>9. m.at = n + 1 /\ (m.backend = "gpu" => \A i \in 1..n : m.samples[i].on = "gpu") /\ n < MaxSamples
  BY <1>1 DEF Fine
<1>10. m.backend = "gpu" => \A i \in 1..(n + 1) : t.samples[i].on = "gpu"
  <2>. SUFFICES ASSUME m.backend = "gpu", NEW i \in 1..(n + 1) PROVE t.samples[i].on = "gpu"
    OBVIOUS
  <2>1. CASE i = n + 1 BY <1>3, <1>8, <2>1
  <2>2. CASE i # n + 1
    <3>1. i \in 1..n BY <1>8, <2>2
    <3>. QED BY <1>8, <1>9, <2>2, <3>1
  <2>. QED BY <2>1, <2>2
<1>11. t.at = n + 2 /\ n + 1 <= MaxSamples
  <2>1. t.at = (n + 1) + 1 BY <1>7, <1>9
  <2>2. n + 1 <= MaxSamples BY <1>8, <1>9, JobTypes
  <2>. QED BY <1>8, <2>1, <2>2
<1>12. t.at = Len(t.samples) + 1 /\ Len(t.samples) <= MaxSamples BY <1>8, <1>11
<1>13. Fine(t) BY <1>7, <1>8, <1>10, <1>12 DEF Fine
<1>. QED BY <1>6, <1>13 DEF t

\* A Goto changes one place.
LEMMA GotoPlace ==
  ASSUME Control, NEW w \in Workers, NEW place, Goto(w, place), NEW v \in Workers
  PROVE  pc'[v] = IF v = w THEN place ELSE pc[v]
BY DEF Goto, Control

\* Measuring needs the measurement, and who is in the middle of it or past it.
LEMMA SameMeasuring ==
  ASSUME Measuring, UNCHANGED <<kind, meas>>,
         pc'["compute"] \in {"progress", "progressing"} => pc["compute"] \in {"progress", "progressing"},
         pc'["compute"] = "archive" => pc["compute"] = "archive" \/ Finished
  PROVE  Measuring'
<1>1. Fine(meas)' BY DEF Measuring, Fine
<1>2. Finished' <=> Finished BY DEF Finished, AllFrames
<1>3. /\ pc'["compute"] \in {"progress", "progressing"} => kind' = "video" /\ meas'.samples # <<>>
      /\ pc'["compute"] = "archive" => Finished'
  BY <1>2 DEF Measuring
<1>. QED BY <1>1, <1>3 DEF Measuring

\* A frame or a turn of the window leaves the measurement as it should be.
LEMMA MeasuresStep ==
  ASSUME Fixed, Control, meas \in Measures_, Measuring,
         \/ \E lat \in Latencies : Frame(lat) \/ FrameFallsBack(lat) \/ Window(lat)
         \/ StartOnCpu \/ Surrogate \/ MeasureFails
  PROVE  meas' \in Measures_ /\ Measuring'
<1>0. "compute" \in Workers /\ Backends = {"gpu", "cpu", "surrogate"} BY DEF Workers, Backends
<1>1. Fine(meas) /\ kind \in Kinds BY DEF Measuring, Fixed
<1>2. meas.backend \in Backends BY DEF Measures_
<1>r. ASSUME Fine(meas)', UNCHANGED kind,
             \/ pc'["compute"] \in {"run", "failed"}
             \/ pc'["compute"] = "progress" /\ kind = "video" /\ meas'.samples # <<>>
      PROVE  Measuring'
  BY <1>r DEF Measuring
<1>f. ASSUME UNCHANGED kind, NEW m, m = meas', Fine(m) PROVE Fine(meas)'
  BY <1>f DEF Fine
<1>3. ASSUME NEW lat \in Latencies, Frame(lat) PROVE meas' \in Measures_ /\ Measuring'
  <2>. DEFINE t == Took(kind, meas, lat, meas.backend)
  <2>1. kind # "matmul" /\ ~ AllFrames(meas) /\ UNCHANGED kind /\ meas' = t
        /\ pc' = [pc EXCEPT !["compute"] = AfterFrame]
    BY <1>3 DEF Frame, Measures, Goto, fixed
  <2>2. t \in Measures_ /\ Fine(t) /\ (~ Warming(meas) => t.samples # <<>>)
    BY <1>1, <1>2, <2>1, TookFine
  <2>. HIDE DEF t
  <2>3. Fine(meas)' BY <1>f, <2>1, <2>2
  <2>4. pc'["compute"] = AfterFrame BY <1>0, <2>1 DEF Control
  <2>5. \/ AfterFrame = "run"
        \/ AfterFrame = "progress" /\ kind = "video" /\ ~ Warming(meas)
    BY DEF AfterFrame
  <2>. QED BY <1>r, <2>1, <2>2, <2>3, <2>4, <2>5
<1>4. ASSUME NEW lat \in Latencies, FrameFallsBack(lat) PROVE meas' \in Measures_ /\ Measuring'
  <2>. DEFINE t == Took(kind, meas, lat, "cpu")
              c == [t EXCEPT !.backend = "cpu"]
  <2>1. kind = "video" /\ ~ AllFrames(meas) /\ UNCHANGED kind /\ meas' = c
        /\ pc' = [pc EXCEPT !["compute"] = AfterFrame]
    BY <1>4 DEF FrameFallsBack, Measures, Goto, fixed, OnCpu
  <2>2. kind # "matmul" /\ "cpu" \in Backends BY <1>0, <2>1
  <2>3. t \in Measures_ /\ Fine(c) /\ (~ Warming(meas) => t.samples # <<>>)
    BY <1>1, <2>1, <2>2, TookFine
  <2>. HIDE DEF t
  <2>4. c \in Measures_ /\ c.samples = t.samples BY <1>0, <2>3 DEF Measures_
  <2>. HIDE DEF c
  <2>5. Fine(meas)' BY <1>f, <2>1, <2>3
  <2>6. pc'["compute"] = AfterFrame BY <1>0, <2>1 DEF Control
  <2>7. \/ AfterFrame = "run"
        \/ AfterFrame = "progress" /\ kind = "video" /\ ~ Warming(meas)
    BY DEF AfterFrame
  <2>. QED BY <1>r, <2>1, <2>3, <2>4, <2>5, <2>6, <2>7
<1>5. ASSUME NEW lat \in Latencies, Window(lat) PROVE meas' \in Measures_ /\ Measuring'
  <2>. DEFINE t == Sampled(meas, lat)
  <2>1. kind = "matmul" /\ Len(meas.samples) < MaxSamples /\ UNCHANGED kind /\ meas' = t
        /\ pc' = [pc EXCEPT !["compute"] = "run"]
    BY <1>5 DEF Window, Measures, Goto, fixed
  <2>2. t \in Measures_ /\ Fine(t) BY <1>1, <2>1, SampledFine
  <2>. HIDE DEF t
  <2>3. Fine(meas)' BY <1>f, <2>1, <2>2
  <2>4. pc'["compute"] = "run" BY <1>0, <2>1 DEF Control
  <2>. QED BY <1>r, <2>1, <2>2, <2>3, <2>4
<1>6. ASSUME NEW b \in Backends, kind = "video", Measures(Fresh(b), "run") PROVE meas' \in Measures_ /\ Measuring'
  <2>1. UNCHANGED kind /\ meas' = Fresh(b) /\ pc' = [pc EXCEPT !["compute"] = "run"]
    BY <1>6 DEF Measures, Goto, fixed
  <2>2. Fresh(b) \in Measures_ /\ Fine(Fresh(b)) BY FreshMeasure, FreshFine
  <2>3. Fine(meas)' BY <1>f, <2>1, <2>2
  <2>4. pc'["compute"] = "run" BY <1>0, <2>1 DEF Control
  <2>. QED BY <1>r, <2>1, <2>2, <2>3, <2>4
<1>7. ASSUME MeasureFails PROVE meas' \in Measures_ /\ Measuring'
  <2>1. UNCHANGED kind /\ meas' = meas /\ pc' = [pc EXCEPT !["compute"] = "failed"]
    BY <1>7 DEF MeasureFails, Measures, Goto, fixed
  <2>2. Fine(meas)' BY <1>f, <1>1, <2>1
  <2>3. pc'["compute"] = "failed" BY <1>0, <2>1 DEF Control
  <2>. QED BY <1>r, <2>1, <2>2, <2>3
<1>. QED BY <1>0, <1>3, <1>4, <1>5, <1>6, <1>7 DEF StartOnCpu, Surrogate

\* Every step.
LEMMA MeasuringStep ==
  ASSUME Fixed, Control, meas \in Measures_, Measuring, Next
  PROVE  meas' \in Measures_ /\ Measuring'
<1>. DEFINE Ok == /\ UNCHANGED <<kind, meas>>
                  /\ pc'["compute"] \in {"progress", "progressing"} =>
                       pc["compute"] \in {"progress", "progressing"}
                  /\ pc'["compute"] = "archive" => pc["compute"] = "archive" \/ Finished
<1>o. ASSUME Ok PROVE meas' \in Measures_ /\ Measuring'
  BY <1>o, SameMeasuring
<1>. HIDE DEF Ok
<1>. USE GotoPlace DEF fixed
<1>0. Workers = {"source", "compute", "sink"} BY DEF Workers
<1>r. ASSUME UNCHANGED <<kind, meas>>, pc'["compute"] \notin {"progress", "progressing", "archive"} PROVE Ok
  BY <1>r DEF Ok
<1>s. ASSUME UNCHANGED <<kind, meas>>, pc'["compute"] = pc["compute"] PROVE Ok BY <1>s DEF Ok
<1>1. ASSUME NEW w \in Workers, Launch(w) \/ Expire(w) PROVE Ok
  <2>1. UNCHANGED <<kind, meas>> BY <1>1 DEF Launch, Expire
  <2>2. pc'["compute"] \in {pc["compute"], "ready", "wait", "failed"} BY <1>0, <1>1 DEF Launch, Expire
  <2>. QED BY <1>r, <1>s, <2>1, <2>2
<1>2. ASSUME SourceStep PROVE Ok
  <2>1. UNCHANGED <<kind, meas>> BY <1>2 DEF SourceStep, Post
  <2>2. pc'["compute"] = pc["compute"] BY <1>0, <1>2 DEF SourceStep, Receive, Post
  <2>. QED BY <1>s, <2>1, <2>2
<1>3. ASSUME ComputeReady \/ Deliver PROVE Ok
  <2>1. UNCHANGED <<kind, meas>> BY <1>3 DEF ComputeReady, Deliver, Post
  <2>2. pc'["compute"] \in {pc["compute"], "wait", "idle"} BY <1>0, <1>3 DEF ComputeReady, Deliver, Post
  <2>. QED BY <1>r, <1>s, <2>1, <2>2
<1>4. ASSUME GetJob \/ Download \/ ArchiveFails \/ ArchiveEnds PROVE Ok
  <2>1. UNCHANGED <<kind, meas>> BY <1>4 DEF GetJob, Download, ArchiveFails, ArchiveEnds
  <2>2. pc'["compute"] \in {"download", "run", "failed", "report", "deliver"}
    BY <1>0, <1>4 DEF GetJob, Receive, Download, ArchiveFails, ArchiveEnds
  <2>. QED BY <1>r, <2>1, <2>2
<1>5. ASSUME MeasureEnds PROVE Ok
  <2>1. UNCHANGED <<kind, meas>> /\ pc'["compute"] = "archive" /\ Finished BY <1>0, <1>5 DEF MeasureEnds
  <2>. QED BY <2>1 DEF Ok
<1>6. ASSUME SinkGets \/ SinkUploads PROVE Ok
  <2>1. UNCHANGED <<kind, meas>> BY <1>6 DEF SinkGets, SinkUploads
  <2>2. pc'["compute"] = pc["compute"] BY <1>0, <1>6 DEF SinkGets, Receive, SinkUploads
  <2>. QED BY <1>s, <2>1, <2>2
<1>7. ASSUME ReportBegins \/ ReportAnswered PROVE Ok
  <2>1. UNCHANGED <<kind, meas>> BY <1>7 DEF ReportBegins, ReportAnswered
  <2>2. pc'["compute"] \in {pc["compute"], "reporting", "callback", "report", "failed", "idle"}
    BY <1>0, <1>7 DEF ReportBegins, ReportAnswered, Reporter, AfterReport
  <2>. QED BY <1>r, <1>s, <2>1, <2>2
<1>8. ASSUME Call \/ CallAnswered \/ GiveUp \/ ReceiverCrashes PROVE Ok
  <2>1. UNCHANGED <<kind, meas>> BY <1>8 DEF Call, CallAnswered, GiveUp, ReceiverCrashes
  <2>2. \/ pc'["compute"] \in {"run", "idle", "told", "calling", "callback"}
        \/ pc'["compute"] = pc["compute"]
        \/ pc["compute"] \in {"progress", "progressing"} /\ pc'["compute"] \in {"progress", "progressing"}
    BY <1>0, <1>8 DEF Call, CallAnswered, GiveUp, ReceiverCrashes
  <2>. QED BY <1>r, <1>s, <2>1, <2>2 DEF Ok
<1>9. ASSUME ArchivePut \/ Put \/ PutWritten \/ ReceiverRestarts \/ StartRun PROVE Ok
  <2>1. UNCHANGED <<kind, meas, pc>> BY <1>9 DEF ArchivePut, Put, PutWritten, ReceiverRestarts, StartRun, workers
  <2>. QED BY <1>s, <2>1
<1>10. ASSUME UNCHANGED <<fixed, workers>> PROVE Ok
  BY <1>s, <1>10 DEF workers
<1>11. ASSUME StopRun PROVE meas' \in Measures_ /\ Measuring'
  <2>1. UNCHANGED kind /\ meas' = Fresh("gpu") /\ pc' = Down BY <1>11 DEF StopRun
  <2>2. pc'["compute"] = "down" BY <1>0, <2>1 DEF Down
  <2>3. "gpu" \in Backends BY DEF Backends
  <2>4. Fresh("gpu") \in Measures_ /\ Fine(Fresh("gpu")) BY <2>3, FreshMeasure, FreshFine
  <2>5. Fine(meas)' BY <2>1, <2>4 DEF Fine
  <2>. QED BY <2>1, <2>2, <2>4, <2>5 DEF Measuring
<1>12. ASSUME ComputeStep PROVE meas' \in Measures_ /\ Measuring'
  <2>1. CASE ComputeReady \/ Deliver BY <1>3, <1>o, <2>1
  <2>2. CASE GetJob \/ Download \/ ArchiveFails \/ ArchiveEnds BY <1>4, <1>o, <2>2
  <2>3. CASE MeasureEnds BY <1>5, <1>o, <2>3
  <2>4. CASE ArchivePut BY <1>9, <1>o, <2>4
  <2>5. CASE \/ \E lat \in Latencies : Frame(lat) \/ FrameFallsBack(lat) \/ Window(lat)
             \/ StartOnCpu \/ Surrogate \/ MeasureFails
    BY <2>5, MeasuresStep
  <2>. QED BY <1>12, <2>1, <2>2, <2>3, <2>4, <2>5 DEF ComputeStep
<1>13. ASSUME \E r \in Runs : HandlerStep(r) PROVE Ok
  BY <1>10, <1>13 DEF HandlerStep
<1>. QED BY <1>1, <1>2, <1>6, <1>7, <1>8, <1>9, <1>10, <1>11, <1>12, <1>13, <1>o
     DEF Next, SinkStep, ReportStep, CallbackStep

(***************************************************************************)
(* The result, and who carries it.                                         *)
(***************************************************************************)
\* The names of a result are keys.
LEMMA NamedKeys ==
  ASSUME kind \in Kinds
  PROVE  Named \subseteq Keys
<1>1. CASE kind = "matmul" BY <1>1 DEF Named, Keys
<1>2. CASE kind = "video"
  <2>1. Archive = <<"frames", "manifest">> BY <1>2 DEF Archive
  <2>2. DOMAIN Archive = 1..2 BY <2>1
  <2>3. \A i \in 1..2 : Archive[i] \in Keys BY <2>1 DEF Keys
  <2>. QED BY <1>2, <2>2, <2>3 DEF Named
<1>3. CASE kind = "fusion"
  <2>1. Archive = <<"video", "preview", "result">> BY <1>3 DEF Archive
  <2>2. DOMAIN Archive = 1..3 BY <2>1
  <2>3. \A i \in 1..3 : Archive[i] \in Keys BY <2>1 DEF Keys
  <2>. QED BY <1>3, <2>2, <2>3 DEF Named
<1>. QED BY <1>1, <1>2, <1>3 DEF Kinds

\* Nothing is not a result.
LEMMA NoneIsNoResult == None \notin Results
BY DEF None, Results

\* A result that is finished is honest.
LEMMA SummaryHonest ==
  ASSUME Fixed, Control, meas \in Measures_, Measuring, pc["compute"] = "archive"
  PROVE  LET s == Summary(Named)
         IN  s \in Results /\ Honest(s) /\ s.run = run /\ s.uris = Named
<1>. DEFINE s == Summary(Named)
            v == Aggregate(kind, meas.samples)
<1>1. /\ s.run = run /\ s.value = v /\ s.backend = meas.backend
      /\ s.samples = meas.samples /\ s.uris = Named
  BY DEF Summary
<1>2. /\ meas.samples \in Seq(Sample) /\ meas.backend \in Backends /\ meas.at \in Nat
      /\ DOMAIN meas.samples = 1..Len(meas.samples)
  BY DEF Measures_
<1>3. Fine(meas) /\ Finished BY DEF Measuring
<1>4. kind # "matmul" => Len(meas.samples) = MeasuredFrames
  <2>. SUFFICES ASSUME kind # "matmul" PROVE Len(meas.samples) = MeasuredFrames OBVIOUS
  <2>1. meas.at > Wanted BY <1>3 DEF Finished, AllFrames
  <2>2. meas.at <= Wanted + 1
        /\ Len(meas.samples) = IF meas.at <= WarmupFrames THEN 0 ELSE meas.at - WarmupFrames - 1
    BY <1>3 DEF Fine
  <2>3. meas.at = Wanted + 1 BY <1>2, <2>1, <2>2, JobTypes
  <2>4. ~ (meas.at <= WarmupFrames) BY <2>3, JobTypes
  <2>. QED BY <2>2, <2>3, <2>4, JobTypes
<1>5. meas.samples # <<>>
  <2>1. CASE kind = "matmul" BY <1>3, <2>1 DEF Finished
  <2>2. CASE kind # "matmul" BY <1>4, <2>2, JobTypes
  <2>. QED BY <2>1, <2>2
<1>6. v \in Nat /\ IsQuantile(kind, meas.samples, v)
  <2>1. CASE kind = "matmul" BY <1>2, <1>5, <2>1, MedianIsQuantile DEF Aggregate
  <2>2. CASE kind # "matmul" BY <1>2, <1>5, <2>2, PercentileIsQuantile DEF Aggregate
  <2>. QED BY <2>1, <2>2
<1>7. s = [run |-> run, value |-> v, backend |-> meas.backend, samples |-> meas.samples, uris |-> Named]
  BY DEF Summary
<1>. HIDE DEF s, v
<1>8. s \in Results
  <2>1. run \in Runs /\ Named \in SUBSET Keys BY NamedKeys DEF Control, Fixed
  <2>. QED BY <1>2, <1>6, <1>7, <2>1 DEF Results
<1>9. Honest(s)
  <2>1. IsQuantile(kind, s.samples, s.value) BY <1>1, <1>6
  <2>2. s.backend = "gpu" => \A i \in DOMAIN s.samples : s.samples[i].on = "gpu"
    BY <1>1, <1>3 DEF Fine
  <2>3. kind # "matmul" =>
          /\ Len(s.samples) = MeasuredFrames
          /\ \A i \in DOMAIN s.samples : s.samples[i].frame = FrameAt(kind, WarmupFrames + i)
    BY <1>1, <1>3, <1>4 DEF Fine
  <2>4. kind = "matmul" => Len(s.samples) <= MaxSamples BY <1>1, <1>3 DEF Fine
  <2>. QED BY <2>1, <2>2, <2>3, <2>4 DEF Honest
<1>. QED BY <1>1, <1>8, <1>9 DEF s

\* What the steps of the other sorts leave alone.
LEMMA ReceivingSame ==
  ASSUME Receiving
  PROVE  UNCHANGED <<fixed, backend, run, started, slot, meas, result, objects, attempts>>
BY DEF Receiving, Call, Put, PutWritten, ReceiverCrashes, ReceiverRestarts, workers

\* Of the result and of the handlers: types, and honesty.
Carried ==
  /\ result \in {None} \cup Results
  /\ result \in Results => result.run = run
  /\ Handlers
  /\ HonestInv

\* A step keeps it.
LEMMA CarriedStep ==
  ASSUME Fixed, Control, meas \in Measures_, Measuring, Flow, Carried, Next
  PROVE  Carried'
<1>. USE DEF fixed, backend
<1>s. ASSUME UNCHANGED <<kind, run, result, metrics, call>> PROVE Carried'
  <2>1. HonestInv'
    <3>1. \A m : Honest(m) => Honest(m)' BY <1>s DEF Honest, IsQuantile, AtMost, AtLeast
    <3>. QED BY <1>s, <3>1 DEF Carried, HonestInv
  <2>. QED BY <1>s, <2>1 DEF Carried, Handlers
<1>1. CASE Moving \/ Sampling \/ Quiet BY <1>1, <1>s DEF Moving, Sampling, Quiet, workers
<1>2. CASE Receiving BY <1>2, <1>s, ReceivingSame
<1>3. CASE Filing BY <1>3, <1>s DEF Filing, ArchivePut, SinkUploads
<1>4. CASE ArchiveEnds
  <2>1. /\ UNCHANGED <<kind, run, metrics, call>> /\ result' = Summary(Named)
        /\ pc["compute"] = "archive"
    BY <1>4 DEF ArchiveEnds
  <2>. DEFINE t == Summary(Named)
  <2>2. t \in Results /\ Honest(t) /\ t.run = run BY <2>1, SummaryHonest
  <2>. HIDE DEF t
  <2>3. \A m : Honest(m) => Honest(m)' BY <2>1 DEF Honest, IsQuantile, AtMost, AtLeast
  <2>4. result' = t BY <2>1 DEF t
  <2>5. Honest(result)' BY <2>1, <2>2, <2>4 DEF Honest, IsQuantile, AtMost, AtLeast
  <2>6. HonestInv' BY <2>1, <2>3, <2>5 DEF Carried, HonestInv
  <2>7. Handlers' BY <2>1 DEF Carried, Handlers
  <2>8. result' \in Results /\ result'.run = run' BY <2>1, <2>2, <2>4
  <2>. QED BY <2>6, <2>7, <2>8 DEF Carried
<1>5. CASE ReportBegins
  <2>1. /\ UNCHANGED <<kind, run, metrics, result>>
        /\ call' = [call EXCEPT ![run] = [phase |-> "begun", snap |-> Snapshot, result |-> result]]
        /\ pc[Reporter] = "report"
    BY <1>5 DEF ReportBegins
  <2>2. run \in Runs /\ DOMAIN call = Runs BY DEF Control, Carried, Handlers
  <2>3. result \in Results /\ result.run = run
    <3>1. result \in Results BY <2>1 DEF Flow, Reporter, Passed
    <3>. QED BY <3>1 DEF Carried
  <2>4. /\ DOMAIN call' = Runs
        /\ call'[run].phase = "begun" /\ call'[run].result = result
        /\ \A r \in Runs \ {run} : call'[r] = call[r]
    BY <2>1, <2>2
  <2>5. Handlers'
    <3>1. \A r \in Runs : Carries(call'[r], r)
      <4>. SUFFICES ASSUME NEW r \in Runs PROVE Carries(call'[r], r) OBVIOUS
      <4>1. CASE r = run BY <2>3, <2>4, <4>1 DEF Carries
      <4>2. CASE r # run
        <5>1. call'[r] = call[r] BY <2>4, <4>2
        <5>2. Carries(call[r], r) BY DEF Carried, Handlers
        <5>. QED BY <5>1, <5>2
      <4>. QED BY <4>1, <4>2
    <3>2. metrics' \subseteq Results BY <2>1 DEF Carried, Handlers
    <3>. QED BY <2>4, <3>1, <3>2 DEF Handlers
  <2>6. \A m : Honest(m) => Honest(m)' BY <2>1 DEF Honest, IsQuantile, AtMost, AtLeast
  <2>7. Honest(result) BY <2>3 DEF Carried, HonestInv
  <2>8. Honest(result)' BY <2>1, <2>7 DEF Honest, IsQuantile, AtMost, AtLeast
  <2>9. ASSUME NEW r \in Runs, call'[r].phase = "begun" PROVE Honest(call[r].result)'
    <3>1. PICK c : c = call'[r].result OBVIOUS
    <3>2. Honest(c)
      <4>1. CASE r = run BY <2>4, <2>7, <3>1, <4>1
      <4>2. CASE r # run
        <5>1. call'[r] = call[r] BY <2>4, <4>2
        <5>. QED BY <2>9, <3>1, <5>1 DEF Carried, HonestInv
      <4>. QED BY <4>1, <4>2
    <3>. QED BY <2>1, <3>1, <3>2 DEF Honest, IsQuantile, AtMost, AtLeast
  <2>10. \A m \in metrics' : Honest(m)' BY <2>1, <2>6 DEF Carried, HonestInv
  <2>11. HonestInv' BY <2>8, <2>9, <2>10 DEF HonestInv
  <2>. QED BY <2>1, <2>3, <2>5, <2>11 DEF Carried
<1>6. CASE StopRun
  <2>1. UNCHANGED <<kind, run, metrics, call>> /\ result' = None BY <1>6 DEF StopRun
  <2>2. HonestInv'
    <3>1. \A m : Honest(m) => Honest(m)' BY <2>1 DEF Honest, IsQuantile, AtMost, AtLeast
    <3>. QED BY <2>1, <3>1, NoneIsNoResult DEF Carried, HonestInv
  <2>. QED BY <2>1, <2>2, NoneIsNoResult DEF Carried, Handlers
<1>7. CASE StartRun
  <2>1. UNCHANGED <<kind, result, metrics, call>> /\ ~ started BY <1>7 DEF StartRun
  <2>2. result' = None BY <2>1 DEF Flow
  <2>3. HonestInv'
    <3>1. \A m : Honest(m) => Honest(m)' BY <2>1 DEF Honest, IsQuantile, AtMost, AtLeast
    <3>. QED BY <2>1, <3>1 DEF Carried, HonestInv
  <2>. QED BY <2>1, <2>2, <2>3, NoneIsNoResult DEF Carried, Handlers
<1>8. CASE \E r \in Runs : HandlerStep(r)
  <2>1. PICK r \in Runs : HandlerStep(r) BY <1>8
  <2>2. UNCHANGED <<kind, run, result>> BY <2>1 DEF HandlerStep, workers
  <2>3. DOMAIN call = Runs /\ (\A q \in Runs : Carries(call[q], q)) /\ metrics \subseteq Results
    BY DEF Carried, Handlers
  <2>4. /\ DOMAIN call' = Runs
        /\ call'[r].phase # "begun"
        /\ \A q \in Runs \ {r} : call'[q] = call[q]
    BY <2>1, <2>3 DEF HandlerStep, MetricWritten, MetricFails
  <2>5. /\ call[r].phase = "begun"
        /\ metrics' = metrics \/ metrics' = metrics \cup {call[r].result}
    BY <2>1 DEF HandlerStep, MetricWritten, MetricFails
  <2>6. call[r].result \in Results BY <2>3, <2>5 DEF Carries
  <2>7. Honest(call[r].result) BY <2>5 DEF Carried, HonestInv
  <2>8. \A m : Honest(m) => Honest(m)' BY <2>2 DEF Honest, IsQuantile, AtMost, AtLeast
  <2>9. \A m \in metrics' : Honest(m) BY <2>5, <2>7 DEF Carried, HonestInv
  <2>10. \A m \in metrics' : Honest(m)' BY <2>8, <2>9
  <2>11. ASSUME NEW q \in Runs, call'[q].phase = "begun" PROVE Honest(call[q].result)' /\ Carries(call'[q], q)
    <3>1. call'[q] = call[q] BY <2>4, <2>11
    <3>2. PICK c : c = call[q].result OBVIOUS
    <3>3. Honest(c) BY <2>11, <3>1, <3>2 DEF Carried, HonestInv
    <3>4. c = call'[q].result BY <3>1, <3>2
    <3>5. Honest(call[q].result)' BY <2>2, <3>3, <3>4 DEF Honest, IsQuantile, AtMost, AtLeast
    <3>. QED BY <2>3, <3>1, <3>5
  <2>12. result \in Results => Honest(result)' BY <2>2 DEF Carried, HonestInv, Honest, IsQuantile, AtMost, AtLeast
  <2>13. HonestInv' BY <2>2, <2>10, <2>11, <2>12 DEF HonestInv
  <2>14. metrics' \subseteq Results BY <2>3, <2>5, <2>6
  <2>15. \A q \in Runs : Carries(call'[q], q) BY <2>11 DEF Carries
  <2>16. Handlers' BY <2>4, <2>14, <2>15 DEF Handlers
  <2>. QED BY <2>2, <2>13, <2>16 DEF Carried
<1>. QED BY <1>1, <1>2, <1>3, <1>4, <1>5, <1>6, <1>7, <1>8, StepSorts

(***************************************************************************)
(* The flow of the result.                                                 *)
(***************************************************************************)
\* Where the two workers that pass the result on have got to.
FlowAt(c, k, s, a, there) ==
  /\ c \in Passed => there
  /\ s = "result" => there
  /\ k \in {"upload", "report", "reporting", "idle"} => there
  /\ direct => k = "down" /\ c # "deliver"
  /\ ~ direct => c \notin {"report", "reporting", "callback", "calling", "told"}
  /\ (IF direct THEN c ELSE k) = "report" => a <= 2
  /\ (IF direct THEN c ELSE k) \notin {"report", "reporting", "failed"} => a = 0

\* Flow is that, and that nothing goes on in an instance that is stopped.
LEMMA FlowIs ==
  Flow <=> /\ FlowAt(pc["compute"], pc["sink"], slot["sink"], attempts, result \in Results)
           /\ ~ started => pc = Down /\ slot = Empty /\ result = None /\ attempts = 0
BY DEF Flow, FlowAt, Reporter, Passed

\* A worker that is up belongs to a started instance.
LEMMA UpIsStarted ==
  ASSUME Flow, NEW w \in Workers, pc[w] # "down"
  PROVE  started
BY DEF Flow, Down

\* Flow after a step of a started instance.
LEMMA FlowAfter ==
  ASSUME Fixed, started', direct' = direct,
         NEW c, NEW k, NEW s, NEW a, NEW there \in BOOLEAN,
         pc'["compute"] = c, pc'["sink"] = k, slot'["sink"] = s, attempts' = a,
         there <=> result' \in Results, FlowAt(c, k, s, a, there)
  PROVE  Flow'
<1>1. (IF direct THEN "compute" ELSE "sink") = Reporter' BY DEF Reporter
<1>2. pc'[Reporter'] = IF direct THEN c ELSE k BY <1>1
<1>. QED BY <1>2 DEF Flow, FlowAt, Passed

\* A step keeps Flow.
LEMMA FlowStep ==
  ASSUME Fixed, Control, Control', meas \in Measures_, Measuring, Flow, Carried, Next
  PROVE  Flow'
<1>. DEFINE c == pc["compute"]
            k == pc["sink"]
            s == slot["sink"]
            there == result \in Results
<1>0. /\ "compute" \in Workers /\ "sink" \in Workers /\ "source" \in Workers
      /\ FlowAt(c, k, s, attempts, there) /\ there \in BOOLEAN
  BY FlowIs DEF Workers
<1>. USE GotoPlace DEF fixed
<1>s. ASSUME UNCHANGED <<direct, started, pc, slot, attempts, result>> PROVE Flow'
  <2>1. Reporter' = Reporter BY <1>s DEF Reporter
  <2>. QED BY <1>s, <2>1 DEF Flow
<1>m. ASSUME started', UNCHANGED <<direct, result>>, NEW c1, NEW k1, NEW s1, NEW a1,
             pc'["compute"] = c1, pc'["sink"] = k1, slot'["sink"] = s1, attempts' = a1,
             FlowAt(c1, k1, s1, a1, there)
      PROVE  Flow'
  <2>1. there <=> result' \in Results BY <1>m
  <2>. HIDE DEF there
  <2>. QED BY <1>0, <1>m, <2>1, FlowAfter
<1>. HIDE DEF there
<1>1. ASSUME NEW w \in Workers, Launch(w) PROVE Flow'
  <2>1. UNCHANGED <<direct, started, slot, attempts, result>> /\ started' /\ pc[w] = "down" BY <1>1 DEF Launch
  <2>2. \/ pc'["compute"] \in {"ready", "wait"} /\ c = "down" /\ pc'["sink"] = k
        \/ pc'["compute"] = c /\ pc'["sink"] = k
        \/ pc'["compute"] = c /\ pc'["sink"] = "wait" /\ k = "down" /\ ~ direct
    BY <1>0, <1>1 DEF Launch, Workers
  <2>3. FlowAt(pc'["compute"], pc'["sink"], s, attempts, there)
    BY <1>0, <2>2 DEF FlowAt, Passed
  <2>. QED BY <1>m, <2>1, <2>3
<1>2. ASSUME NEW w \in Workers, Expire(w) PROVE Flow'
  <2>1. UNCHANGED <<direct, started, slot, attempts, result>> /\ pc[w] \in Deadlines BY <1>2 DEF Expire
  <2>2. started' BY <2>1, UpIsStarted DEF Deadlines
  <2>3. \/ pc'["compute"] = "failed" /\ c # "down" /\ pc'["sink"] = k
        \/ pc'["compute"] = c /\ pc'["sink"] = k
        \/ pc'["compute"] = c /\ pc'["sink"] = "failed" /\ k # "down"
    BY <1>0, <1>2 DEF Expire, Workers, Deadlines
  <2>4. FlowAt(pc'["compute"], pc'["sink"], s, attempts, there)
    BY <1>0, <2>3 DEF FlowAt, Passed
  <2>. QED BY <1>m, <2>1, <2>2, <2>4
<1>3. ASSUME SourceStep PROVE Flow'
  <2>1. UNCHANGED <<direct, started, attempts, result>> /\ pc["source"] # "down"
    BY <1>3 DEF SourceStep, Receive, Post
  <2>2. started' BY <1>0, <2>1, UpIsStarted
  <2>3. pc'["compute"] = c /\ pc'["sink"] = k BY <1>0, <1>3 DEF SourceStep, Receive, Post
  <2>4. slot'["sink"] = s BY <1>0, <1>3 DEF SourceStep, Receive, Post, Control
  <2>. QED BY <1>0, <1>m, <2>1, <2>2, <2>3, <2>4
<1>4. ASSUME ComputeReady \/ GetJob \/ Download PROVE Flow'
  <2>1. UNCHANGED <<direct, started, attempts, result>> /\ c \in {"ready", "wait", "download"}
    BY <1>4 DEF ComputeReady, GetJob, Download, Receive, Post
  <2>2. started' BY <1>0, <2>1, UpIsStarted
  <2>3. pc'["compute"] \in {"ready", "wait", "download", "run"} /\ pc'["sink"] = k
    BY <1>0, <1>4, <2>1 DEF ComputeReady, GetJob, Download, Receive, Post
  <2>4. slot'["sink"] = s BY <1>0, <1>4 DEF ComputeReady, GetJob, Download, Receive, Post, Control
  <2>5. FlowAt(pc'["compute"], k, s, attempts, there) BY <1>0, <2>1, <2>3 DEF FlowAt, Passed
  <2>. QED BY <1>m, <2>1, <2>2, <2>3, <2>4, <2>5
<1>5. ASSUME \/ (\E lat : Frame(lat) \/ FrameFallsBack(lat) \/ Window(lat))
             \/ StartOnCpu \/ Surrogate \/ MeasureFails \/ MeasureEnds \/ ArchiveFails
      PROVE  Flow'
  <2>. USE DEF Frame, FrameFallsBack, Window, StartOnCpu, Surrogate, MeasureFails, MeasureEnds,
               ArchiveFails, Measures
  <2>1. UNCHANGED <<direct, started, slot, attempts, result>> BY <1>5
  <2>2. c \in {"run", "archive"} BY <1>5
  <2>3. started' BY <1>0, <2>1, <2>2, UpIsStarted
  <2>4. pc'["compute"] \in {"run", "progress", "archive", "failed"} BY <1>0, <1>5 DEF AfterFrame
  <2>5. pc'["sink"] = k BY <1>0, <1>5
  <2>6. FlowAt(pc'["compute"], k, s, attempts, there) BY <1>0, <2>2, <2>4 DEF FlowAt, Passed
  <2>. QED BY <1>m, <2>1, <2>3, <2>5, <2>6
<1>6. ASSUME ArchivePut PROVE Flow'
  BY <1>6, <1>s DEF ArchivePut
<1>7. ASSUME ArchiveEnds PROVE Flow'
  <2>1. UNCHANGED <<direct, started, slot, attempts>> /\ c = "archive" /\ result' = Summary(Named)
    BY <1>7 DEF ArchiveEnds
  <2>2. started' BY <1>0, <2>1, UpIsStarted
  <2>3. result' \in Results BY <2>1, SummaryHonest
  <2>4. pc'["compute"] = (IF direct THEN "report" ELSE "deliver") /\ pc'["sink"] = k
    BY <1>0, <1>7 DEF ArchiveEnds
  <2>5. FlowAt(pc'["compute"], k, s, attempts, TRUE) BY <1>0, <2>1, <2>4 DEF FlowAt, Passed
  <2>. QED BY <2>1, <2>2, <2>3, <2>4, <2>5, FlowAfter
<1>8. ASSUME Deliver PROVE Flow'
  <2>1. UNCHANGED <<direct, started, attempts, result>> /\ c = "deliver" BY <1>8 DEF Deliver, Post
  <2>2. started' BY <1>0, <2>1, UpIsStarted
  <2>3. pc'["compute"] \in {"deliver", "idle"} /\ pc'["sink"] = k BY <1>0, <1>8, <2>1 DEF Deliver, Post
  <2>4. slot'["sink"] \in {s, "result"} BY <1>0, <1>8 DEF Deliver, Post, Control
  <2>5. FlowAt(pc'["compute"], k, slot'["sink"], attempts, there)
    BY <1>0, <2>1, <2>3, <2>4 DEF FlowAt, Passed
  <2>. QED BY <1>m, <2>1, <2>2, <2>3, <2>5
<1>9. ASSUME SinkGets PROVE Flow'
  <2>1. UNCHANGED <<direct, started, attempts, result>> /\ k = "wait" /\ s # "none"
    BY <1>9 DEF SinkGets, Receive
  <2>2. started' BY <1>0, <2>1, UpIsStarted
  <2>3. pc'["compute"] = c /\ pc'["sink"] \in {"upload", "report"} BY <1>0, <1>9 DEF SinkGets, Receive
  <2>4. slot'["sink"] = "none" BY <1>0, <1>9 DEF SinkGets, Receive, Control
  <2>5. s = "result" BY <2>1 DEF Control
  <2>6. FlowAt(c, pc'["sink"], "none", attempts, there) BY <1>0, <2>1, <2>3, <2>5 DEF FlowAt, Passed
  <2>. QED BY <1>m, <2>1, <2>2, <2>3, <2>4, <2>6
<1>10. ASSUME SinkUploads PROVE Flow'
  <2>1. UNCHANGED <<direct, started, slot, attempts, result>> /\ k = "upload" BY <1>10 DEF SinkUploads
  <2>2. started' BY <1>0, <2>1, UpIsStarted
  <2>3. pc'["compute"] = c /\ pc'["sink"] = "report" BY <1>0, <1>10 DEF SinkUploads
  <2>4. FlowAt(c, "report", s, attempts, there) BY <1>0, <2>1 DEF FlowAt, Passed
  <2>. QED BY <1>m, <2>1, <2>2, <2>3, <2>4
<1>11. ASSUME ReportBegins \/ ReportAnswered PROVE Flow'
  <2>. DEFINE r == IF direct THEN c ELSE k
              p == pc'[Reporter]
  <2>0. Reporter = (IF direct THEN "compute" ELSE "sink") /\ pc[Reporter] = r /\ Reporter \in Workers
    BY <1>0 DEF Reporter
  <2>1. UNCHANGED <<direct, started, slot, result>> BY <1>11 DEF ReportBegins, ReportAnswered
  <2>2. r \in {"report", "reporting"} BY <1>11, <2>0 DEF ReportBegins, ReportAnswered
  <2>3. started' BY <2>0, <2>1, <2>2, UpIsStarted
  <2>4. \/ p = "reporting" /\ attempts' \in 0..3
        \/ p = AfterReport /\ attempts' = 0
        \/ p = "report" /\ attempts' <= 2
        \/ p = "failed"
    <3>1. CASE ReportBegins
      <4>1. p = "reporting" BY <2>0, <3>1 DEF ReportBegins
      <4>. QED BY <4>1 DEF Control
    <3>2. CASE ReportAnswered
      <4>1. p = IF call[run].phase = "stored" THEN AfterReport
                ELSE IF attempts < 3 THEN "report" ELSE "failed"
        BY <2>0, <3>2 DEF ReportAnswered
      <4>2. attempts' = IF call[run].phase = "stored" THEN 0 ELSE attempts BY <3>2 DEF ReportAnswered
      <4>3. attempts \in 0..3 BY DEF Control
      <4>. QED BY <4>1, <4>2, <4>3
    <3>. QED BY <1>11, <3>1, <3>2
  <2>5. /\ direct => pc'["compute"] = p /\ pc'["sink"] = k
        /\ ~ direct => pc'["compute"] = c /\ pc'["sink"] = p
    BY <1>0, <1>11, <2>0 DEF ReportBegins, ReportAnswered
  <2>. HIDE DEF p
  <2>6. FlowAt(pc'["compute"], pc'["sink"], s, attempts', there)
    <3>1. CASE direct BY <1>0, <2>2, <2>4, <2>5, <3>1 DEF FlowAt, Passed, AfterReport
    <3>2. CASE ~ direct BY <1>0, <2>2, <2>4, <2>5, <3>2 DEF FlowAt, Passed, AfterReport
    <3>. QED BY <3>1, <3>2
  <2>. QED BY <1>m, <2>1, <2>3, <2>6
<1>12. ASSUME Call \/ CallAnswered \/ GiveUp PROVE Flow'
  <2>1. UNCHANGED <<direct, started, slot, attempts, result>> BY <1>12 DEF Call, CallAnswered, GiveUp
  <2>2. c \in {"progress", "progressing", "callback", "calling"} BY <1>12 DEF Call, CallAnswered, GiveUp
  <2>3. started' BY <1>0, <2>1, <2>2, UpIsStarted
  <2>4. pc'["sink"] = k BY <1>0, <1>12 DEF Call, CallAnswered, GiveUp
  <2>5. \/ c \in {"progress", "progressing"} /\ pc'["compute"] \in {"progress", "progressing", "run"}
        \/ c \in {"callback", "calling"} /\ pc'["compute"] \in {"callback", "calling", "told", "idle"}
    BY <1>0, <1>12 DEF Call, CallAnswered, GiveUp
  <2>6. FlowAt(pc'["compute"], k, s, attempts, there) BY <1>0, <2>2, <2>5 DEF FlowAt, Passed
  <2>. QED BY <1>m, <2>1, <2>3, <2>4, <2>6
<1>13. ASSUME ReceiverCrashes PROVE Flow'
  <2>1. UNCHANGED <<direct, started, slot, attempts, result>> BY <1>13 DEF ReceiverCrashes
  <2>2. pc'["sink"] = k BY <1>0, <1>13 DEF ReceiverCrashes
  <2>3. pc'["compute"] = (CASE c = "progressing" -> "progress" [] c = "calling" -> "callback" [] OTHER -> c)
    BY <1>0, <1>13 DEF ReceiverCrashes
  <2>4. CASE c \in {"progressing", "calling"}
    <3>1. started' BY <1>0, <2>1, <2>4, UpIsStarted
    <3>2. FlowAt(pc'["compute"], k, s, attempts, there) BY <1>0, <2>3, <2>4 DEF FlowAt, Passed
    <3>. QED BY <1>m, <2>1, <2>2, <3>1, <3>2
  <2>5. CASE c \notin {"progressing", "calling"}
    <3>1. pc' = [pc EXCEPT !["compute"] = c] BY <1>13, <2>5 DEF ReceiverCrashes, Goto
    <3>2. pc' = pc BY <3>1 DEF Control
    <3>. QED BY <1>s, <2>1, <3>2
  <2>. QED BY <2>4, <2>5
<1>14. ASSUME UNCHANGED <<fixed, workers>> PROVE Flow'
  BY <1>14, <1>s DEF workers
<1>15. ASSUME StopRun PROVE Flow'
  <2>1. UNCHANGED direct /\ pc' = Down /\ slot' = Empty /\ result' = None /\ attempts' = 0 BY <1>15 DEF StopRun
  <2>2. pc'["compute"] = "down" /\ pc'["sink"] = "down" /\ slot'["sink"] = "none"
    BY <1>0, <2>1 DEF Down, Empty
  <2>3. pc'[Reporter'] = "down" BY <2>2 DEF Reporter
  <2>4. attempts' = 0 BY <2>1
  <2>. QED BY <2>1, <2>2, <2>3, <2>4 DEF Flow, Passed
<1>16. ASSUME StartRun PROVE Flow'
  <2>1. UNCHANGED <<direct, pc, slot, attempts, result>> /\ started' BY <1>16 DEF StartRun
  <2>. QED BY <1>0, <1>m, <2>1
<1>17. ASSUME Put \/ PutWritten \/ ReceiverRestarts \/ \E r \in Runs : HandlerStep(r)
       PROVE  UNCHANGED <<fixed, workers>>
  BY <1>17 DEF Put, PutWritten, ReceiverRestarts, HandlerStep
<1>18. ASSUME ComputeStep PROVE Flow'
  <2>1. CASE ComputeReady \/ GetJob \/ Download BY <1>4, <2>1
  <2>2. CASE \/ (\E lat : Frame(lat) \/ FrameFallsBack(lat) \/ Window(lat))
             \/ StartOnCpu \/ Surrogate \/ MeasureFails \/ MeasureEnds \/ ArchiveFails
    BY <1>5, <2>2
  <2>. QED BY <1>6, <1>7, <1>8, <1>18, <2>1, <2>2 DEF ComputeStep
<1>. QED BY <1>1, <1>2, <1>3, <1>9, <1>10, <1>11, <1>12, <1>13, <1>14, <1>15, <1>16, <1>17, <1>18
     DEF Next, SinkStep, ReportStep, CallbackStep

(***************************************************************************)
(* The evidence of a result.                                               *)
(***************************************************************************)
Filed ==
  /\ objects \in [Keys -> Runs \cup {0}]
  /\ Evidence

\* The numbers of the runs.
LEMMA RunNumbers == \A r \in Runs \cup {0} : r \in Nat
BY RunAssumption

\* An object is only written by the run that goes on, which is the latest.
LEMMA LaterObjects ==
  ASSUME Control, objects \in [Keys -> Runs \cup {0}], \A k \in Keys : objects[k] <= run,
         NEW key, objects' = [objects EXCEPT ![key] = run]
  PROVE  /\ objects' \in [Keys -> Runs \cup {0}]
         /\ \A k \in Keys : objects[k] <= objects'[k] /\ objects'[k] <= run
<1>1. run \in Runs \cup {0} /\ run \in Nat BY RunNumbers DEF Control
<1>2. ASSUME NEW k \in Keys
      PROVE  objects[k] <= objects'[k] /\ objects'[k] <= run
  <2>1. objects[k] \in Nat /\ objects[k] <= run BY RunNumbers
  <2>2. objects'[k] = IF k = key THEN run ELSE objects[k] OBVIOUS
  <2>. QED BY <1>1, <2>1, <2>2
<1>. QED BY <1>1, <1>2

\* What was behind a result stays behind it.
LEMMA StaysBacked ==
  ASSUME UNCHANGED kind, objects \in [Keys -> Runs \cup {0}], objects' \in [Keys -> Runs \cup {0}],
         \A k \in Keys : objects[k] <= objects'[k], NEW m \in Results, Backed(m)
  PROVE  Backed(m)'
<1>. SUFFICES ASSUME kind # "matmul", NEW k \in m.uris PROVE objects'[k] >= m.run
  BY DEF Backed
<1>1. k \in Keys /\ m.run \in Nat BY RunNumbers DEF Results
<1>2. objects[k] \in Nat /\ objects'[k] \in Nat BY <1>1, RunNumbers
<1>3. objects[k] >= m.run BY DEF Backed
<1>. QED BY <1>1, <1>2, <1>3

\* A step keeps it.
LEMMA FiledStep ==
  ASSUME Fixed, Control, meas \in Measures_, Measuring, Flow, Carried, Filed, Next
  PROVE  Filed'
<1>. USE DEF fixed, backend
<1>0. /\ objects \in [Keys -> Runs \cup {0}] /\ (\A k \in Keys : objects[k] <= run)
      /\ (result \in Results => Backed(result))
      /\ (\A r \in Runs : call[r].phase = "begun" => Backed(call[r].result))
      /\ (\A m \in metrics : Backed(m))
  BY DEF Filed, Evidence
<1>p. /\ metrics \subseteq Results /\ DOMAIN call = Runs
      /\ \A r \in Runs : call[r].phase = "begun" => call[r].result \in Results
  BY DEF Carried, Handlers, Carries
<1>s. ASSUME UNCHANGED <<kind, run, result, metrics, call, objects>> PROVE Filed'
  <2>1. \A m : Backed(m) => Backed(m)' BY <1>s DEF Backed
  <2>. QED BY <1>0, <1>s, <2>1 DEF Filed, Evidence
<1>f. ASSUME UNCHANGED <<kind, run, result, metrics, call>>,
             \E key : objects' = [objects EXCEPT ![key] = run]
      PROVE  Filed'
  <2>1. /\ objects' \in [Keys -> Runs \cup {0}]
        /\ \A k \in Keys : objects[k] <= objects'[k] /\ objects'[k] <= run
    BY <1>0, <1>f, LaterObjects
  <2>2. \A m \in Results : Backed(m) => Backed(m)' BY <1>0, <1>f, <2>1, StaysBacked
  <2>3. result \in Results => Backed(result)' BY <1>0, <1>f, <2>2
  <2>4. ASSUME NEW r \in Runs, call'[r].phase = "begun" PROVE Backed(call[r].result)'
    <3>1. PICK m : m = call[r].result OBVIOUS
    <3>2. m \in Results /\ Backed(m) BY <1>0, <1>p, <1>f, <2>4, <3>1
    <3>3. Backed(m)' BY <2>2, <3>2
    <3>4. call'[r].result = m BY <1>f, <3>1
    <3>. QED BY <3>3, <3>4 DEF Backed
  <2>5. \A m \in metrics : Backed(m)' BY <1>0, <1>p, <2>2
  <2>. QED BY <1>f, <2>1, <2>3, <2>4, <2>5 DEF Filed, Evidence
<1>1. CASE Moving \/ Sampling \/ Quiet BY <1>1, <1>s DEF Moving, Sampling, Quiet, workers
<1>2. CASE Receiving BY <1>2, <1>s, ReceivingSame
<1>3. CASE Filing
  <2>1. UNCHANGED <<kind, run, result, metrics, call>> BY <1>3 DEF Filing, ArchivePut, SinkUploads
  <2>2. objects' = objects \/ \E key : objects' = [objects EXCEPT ![key] = run]
    BY <1>3 DEF Filing, ArchivePut, SinkUploads
  <2>. QED BY <1>f, <1>s, <2>1, <2>2
<1>4. CASE ArchiveEnds
  <2>1. /\ UNCHANGED <<kind, run, metrics, call, objects>> /\ result' = Summary(Named)
        /\ pc["compute"] = "archive" /\ Archived
    BY <1>4 DEF ArchiveEnds
  <2>. DEFINE t == Summary(Named)
  <2>2. t \in Results /\ t.run = run /\ t.uris = Named BY <2>1, SummaryHonest
  <2>. HIDE DEF t
  <2>3. Backed(t)
    <3>. SUFFICES ASSUME kind # "matmul", NEW k \in Named PROVE objects[k] >= run
      BY <2>2 DEF Backed
    <3>1. PICK i \in DOMAIN Archive : k = Archive[i] BY DEF Named
    <3>2. objects[k] = run BY <2>1, <3>1 DEF Archived
    <3>3. run \in Nat BY RunNumbers DEF Control
    <3>. QED BY <3>2, <3>3
  <2>4. \A m : Backed(m) => Backed(m)' BY <2>1 DEF Backed
  <2>5. Backed(result)' BY <2>1, <2>3 DEF Backed, t
  <2>. QED BY <1>0, <2>1, <2>4, <2>5 DEF Filed, Evidence
<1>5. CASE ReportBegins
  <2>1. /\ UNCHANGED <<kind, run, metrics, result, objects>>
        /\ call' = [call EXCEPT ![run] = [phase |-> "begun", snap |-> Snapshot, result |-> result]]
        /\ pc[Reporter] = "report"
    BY <1>5 DEF ReportBegins
  <2>2. run \in Runs BY DEF Control
  <2>3. result \in Results BY <2>1 DEF Flow, Reporter, Passed
  <2>4. /\ call'[run].result = result
        /\ \A r \in Runs \ {run} : call'[r] = call[r]
    BY <1>p, <2>1, <2>2
  <2>5. \A m : Backed(m) => Backed(m)' BY <2>1 DEF Backed
  <2>6. ASSUME NEW r \in Runs, call'[r].phase = "begun" PROVE Backed(call[r].result)'
    <3>1. PICK m : m = call'[r].result OBVIOUS
    <3>2. Backed(m)
      <4>1. CASE r = run BY <1>0, <2>3, <2>4, <3>1, <4>1
      <4>2. CASE r # run BY <1>0, <2>4, <2>6, <3>1, <4>2
      <4>. QED BY <4>1, <4>2
    <3>. QED BY <2>1, <3>1, <3>2 DEF Backed
  <2>7. Backed(result)' BY <1>0, <2>1, <2>3 DEF Backed
  <2>. QED BY <1>0, <2>1, <2>5, <2>6, <2>7 DEF Filed, Evidence
<1>6. CASE StopRun
  <2>1. UNCHANGED <<kind, run, metrics, call, objects>> /\ result' = None BY <1>6 DEF StopRun
  <2>2. \A m : Backed(m) => Backed(m)' BY <2>1 DEF Backed
  <2>. QED BY <1>0, <2>1, <2>2, NoneIsNoResult DEF Filed, Evidence
<1>7. CASE StartRun
  <2>1. UNCHANGED <<kind, result, metrics, call, objects>> /\ run' = run + 1 BY <1>7 DEF StartRun
  <2>2. \A m : Backed(m) => Backed(m)' BY <2>1 DEF Backed
  <2>3. ASSUME NEW k \in Keys PROVE objects'[k] <= run'
    <3>1. objects[k] \in Nat /\ run \in Nat /\ objects[k] <= run BY <1>0, RunNumbers DEF Control
    <3>. QED BY <2>1, <3>1
  <2>. QED BY <1>0, <2>1, <2>2, <2>3 DEF Filed, Evidence
<1>8. CASE \E r \in Runs : HandlerStep(r)
  <2>1. PICK r \in Runs : HandlerStep(r) BY <1>8
  <2>2. UNCHANGED <<kind, run, result, objects>> BY <2>1 DEF HandlerStep, workers
  <2>3. /\ call[r].phase = "begun" /\ call'[r].phase # "begun"
        /\ \A q \in Runs \ {r} : call'[q] = call[q]
        /\ metrics' = metrics \/ metrics' = metrics \cup {call[r].result}
    BY <1>p, <2>1 DEF HandlerStep, MetricWritten, MetricFails
  <2>4. Backed(call[r].result) BY <1>0, <2>3
  <2>5. \A m : Backed(m) => Backed(m)' BY <2>2 DEF Backed
  <2>6. \A m \in metrics' : Backed(m) BY <1>0, <2>3, <2>4
  <2>7. \A m \in metrics' : Backed(m)' BY <2>5, <2>6
  <2>8. ASSUME NEW q \in Runs, call'[q].phase = "begun" PROVE Backed(call[q].result)'
    <3>1. PICK m : m = call'[q].result OBVIOUS
    <3>2. Backed(m) BY <1>0, <2>3, <2>8, <3>1
    <3>. QED BY <2>2, <3>1, <3>2 DEF Backed
  <2>9. result \in Results => Backed(result)' BY <1>0, <2>2 DEF Backed
  <2>. QED BY <1>0, <2>2, <2>7, <2>8, <2>9 DEF Filed, Evidence
<1>. QED BY <1>1, <1>2, <1>3, <1>4, <1>5, <1>6, <1>7, <1>8, StepSorts

(***************************************************************************)
(* The user's receiver.                                                    *)
(***************************************************************************)
\* What is kept is nothing, a progress or a final result.
LEMMA KeptIs ==
  ASSUME NEW record \in Kept
  PROVE  /\ record.status \in {"none", "running", "completed"}
         /\ record # Torn
         /\ record.status = "none" <=> record = None
         /\ record.status = "running" <=> record \in Partials
         /\ record.status = "completed" <=> record \in Finals
BY DEF Kept, None, Torn, Partials, Finals

\* Torn is nothing of the kind.
LEMMA TornIs == Torn.status = "torn" /\ Torn \notin Kept
BY KeptIs DEF Torn

\* A progress is merged: once each, and never over a final result.
LEMMA OnProgressKeeps ==
  ASSUME NEW record \in Kept, NEW frame \in Frames, Once(record)
  PROVE  LET new == OnProgress(record, frame)
         IN  /\ new \in Kept /\ new # None /\ Once(new)
             /\ record.status = "completed" => new = record
             /\ new.status = "completed" => record.status = "completed" /\ new = record
<1>. DEFINE new == OnProgress(record, frame)
<1>1. CASE record.status = "completed"
  <2>1. new = record BY <1>1 DEF OnProgress
  <2>2. record # None BY <1>1 DEF None
  <2>. QED BY <1>1, <2>1, <2>2
<1>2. CASE record.status # "completed"
  <2>. DEFINE old == IF record = None THEN <<>> ELSE record.frames
              fs == Deduped(old, frame)
  <2>1. new = [status |-> "running", frames |-> fs, run |-> 0] BY <1>2 DEF OnProgress
  <2>2. old \in Seq(Frames) /\ Distinct(old)
    <3>1. CASE record = None BY <3>1 DEF Distinct
    <3>2. CASE record # None
      <4>1. record \in Partials /\ record.status = "running" BY <1>2, <3>2, KeptIs
      <4>2. record.frames \in Seq(Frames) BY <4>1 DEF Partials
      <4>. QED BY <3>2, <4>1, <4>2 DEF Once
    <3>. QED BY <3>1, <3>2
  <2>. HIDE DEF old
  <2>3. fs \in Seq(Frames) /\ Distinct(fs)
    <3>1. CASE frame \in {old[i] : i \in DOMAIN old} BY <2>2, <3>1 DEF Deduped
    <3>2. CASE frame \notin {old[i] : i \in DOMAIN old}
      <4>1. fs = Append(old, frame) BY <3>2 DEF Deduped
      <4>2. /\ fs \in Seq(Frames) /\ Len(old) \in Nat /\ DOMAIN fs = 1..(Len(old) + 1)
            /\ DOMAIN old = 1..Len(old)
            /\ \A i \in 1..(Len(old) + 1) : fs[i] = IF i = Len(old) + 1 THEN frame ELSE old[i]
        BY <2>2, <4>1
      <4>. HIDE DEF fs
      <4>3. ASSUME NEW i \in DOMAIN fs, NEW j \in DOMAIN fs, fs[i] = fs[j] PROVE i = j
        <5>1. \A l \in DOMAIN fs : l = Len(old) + 1 \/ l \in DOMAIN old BY <4>2
        <5>2. \A l \in DOMAIN old : old[l] # frame /\ l # Len(old) + 1 BY <3>2, <4>2
        <5>3. \A l \in DOMAIN fs : fs[l] = IF l = Len(old) + 1 THEN frame ELSE old[l] BY <4>2
        <5>. QED BY <2>2, <4>3, <5>1, <5>2, <5>3 DEF Distinct
      <4>. QED BY <4>2, <4>3 DEF Distinct
    <3>. QED BY <3>1, <3>2
  <2>. HIDE DEF fs
  <2>4. new \in Partials BY <2>1, <2>3 DEF Partials
  <2>5. new.status = "running" /\ new.frames = fs BY <2>1
  <2>. HIDE DEF new
  <2>6. new \in Kept BY <2>4 DEF Kept
  <2>7. new # None BY <2>5, <2>6, KeptIs
  <2>8. Once(new) BY <2>3, <2>5 DEF Once
  <2>. QED BY <1>2, <2>5, <2>6, <2>7, <2>8 DEF new
<1>. QED BY <1>1, <1>2

\* The fields of the receiver.
LEMMA ReceiverFields ==
  ASSUME receiver \in Receivers
  PROVE  /\ receiver.up \in BOOLEAN /\ receiver.memory \in Kept /\ receiver.file \in Kept \cup {Torn}
         /\ receiver.writing \in BOOLEAN /\ receiver.waiting \subseteq Requests
BY DEF Receivers

\* Fields of these types make a receiver.
LEMMA MakesReceiver ==
  ASSUME NEW u \in BOOLEAN, NEW m \in Kept, NEW f \in Kept \cup {Torn}, NEW w \in BOOLEAN,
         NEW q, q \subseteq Requests
  PROVE  [up |-> u, memory |-> m, file |-> f, writing |-> w, waiting |-> q] \in Receivers
BY DEF Receivers

\* What the compute worker asks for is a request.
LEMMA AskedIs ==
  ASSUME Fixed, Control, meas \in Measures_, Measuring, Flow, Carried
  PROVE  /\ pc["compute"] \in {"progress", "progressing"} =>
              Asked \in Requests /\ Asked.status = "running" /\ Asked.frame \in Frames
         /\ pc["compute"] \in {"callback", "calling"} =>
              Asked = Final /\ Final \in Finals /\ Final \in Requests /\ Final.status = "completed"
              /\ Final.run = run /\ Len(Final.frames) <= Wanted + MaxSamples
<1>1. ASSUME pc["compute"] \in {"progress", "progressing"}
      PROVE  Asked \in Requests /\ Asked.status = "running" /\ Asked.frame \in Frames
  <2>1. meas.samples # <<>> /\ meas.samples \in Seq(Sample) BY <1>1 DEF Measuring, Measures_
  <2>2. Last(meas.samples) \in Sample BY <2>1 DEF Last
  <2>3. Last(meas.samples).frame \in Frames BY <2>2 DEF Sample
  <2>4. Asked = [status |-> "running", frame |-> Last(meas.samples).frame] BY <1>1 DEF Asked, Progress
  <2>. HIDE DEF Last
  <2>. QED BY <2>3, <2>4 DEF Requests
<1>2. ASSUME pc["compute"] \in {"callback", "calling"}
      PROVE  Asked = Final /\ Final \in Finals /\ Final \in Requests /\ Final.status = "completed"
             /\ Final.run = run /\ Len(Final.frames) <= Wanted + MaxSamples
  <2>1. result \in Results /\ result.run = run BY <1>2 DEF Flow, Passed, Carried
  <2>2. Asked = Final BY <1>2 DEF Asked
  <2>3. result.samples \in Seq(Sample) /\ result.run \in Runs BY <2>1 DEF Results
  <2>. DEFINE n == Len(result.samples)
              fs == Frames_(result.samples)
  <2>4. n \in Nat /\ DOMAIN result.samples = 1..n BY <2>3
  <2>5. \A i \in 1..n : result.samples[i].frame \in Frames
    <3>1. \A i \in 1..n : result.samples[i] \in Sample BY <2>3
    <3>. QED BY <3>1 DEF Sample
  <2>6. fs = [i \in 1..n |-> result.samples[i].frame] BY <2>4 DEF Frames_
  <2>. HIDE DEF fs
  <2>7. fs \in Seq(Frames) /\ Len(fs) = n BY <2>4, <2>5, <2>6
  <2>8. Final = [status |-> "completed", frames |-> fs, run |-> result.run] BY DEF Final, fs
  <2>9. Final \in Finals /\ Final.status = "completed" /\ Final.run = run /\ Final.frames = fs
    BY <2>1, <2>3, <2>7, <2>8 DEF Finals
  <2>10. n <= Wanted + MaxSamples
    <3>1. Honest(result) BY <2>1 DEF Carried, HonestInv
    <3>2. n <= MaxSamples \/ n = MeasuredFrames BY <3>1 DEF Honest
    <3>. QED BY <2>4, <3>2, JobTypes
  <2>. QED BY <2>2, <2>7, <2>9, <2>10 DEF Requests
<1>. QED BY <1>1, <1>2

\* A put: of a request that waits, unless the file is torn.
LEMMA PutGives ==
  ASSUME receiver \in Receivers, Put
  PROVE  \E q \in receiver.waiting :
           /\ receiver.up /\ ~ receiver.writing
           /\ UNCHANGED <<fixed, backend, workers>>
           /\ receiver'.up = receiver.up /\ receiver'.file = receiver.file
           /\ receiver'.waiting = receiver.waiting \ {q}
           /\ Known = Torn => receiver'.memory = receiver.memory /\ receiver'.writing = receiver.writing
           /\ Known # Torn =>
                /\ receiver'.writing = TRUE
                /\ receiver'.memory = IF q.status = "completed" THEN q ELSE OnProgress(Known, q.frame)
           /\ receiver' = [up |-> receiver'.up, memory |-> receiver'.memory, file |-> receiver'.file,
                           writing |-> receiver'.writing, waiting |-> receiver'.waiting]
<1>1. PICK q \in receiver.waiting :
        receiver' = IF Known = Torn THEN [receiver EXCEPT !.waiting = @ \ {q}]
                    ELSE [receiver EXCEPT !.waiting = @ \ {q}, !.writing = TRUE,
                            !.memory = IF q.status = "completed" THEN q
                                       ELSE OnProgress(Known, q.frame)]
  BY DEF Put
<1>2. receiver.up /\ ~ receiver.writing /\ UNCHANGED <<fixed, backend, workers>> BY DEF Put
<1>3. receiver = [up |-> receiver.up, memory |-> receiver.memory, file |-> receiver.file,
                  writing |-> receiver.writing, waiting |-> receiver.waiting]
  BY DEF Receivers
<1>. DEFINE mem == IF q.status = "completed" THEN q ELSE OnProgress(Known, q.frame)
<1>4. CASE Known = Torn
  <2>1. receiver' = [up |-> receiver.up, memory |-> receiver.memory, file |-> receiver.file,
                     writing |-> receiver.writing, waiting |-> receiver.waiting \ {q}]
    BY <1>1, <1>3, <1>4
  <2>. QED BY <1>2, <1>4, <2>1
<1>5. CASE Known # Torn
  <2>. HIDE DEF mem
  <2>1. receiver' = [up |-> receiver.up, memory |-> mem, file |-> receiver.file,
                     writing |-> TRUE, waiting |-> receiver.waiting \ {q}]
    BY <1>1, <1>3, <1>5 DEF mem
  <2>2. receiver'.memory = mem /\ receiver'.writing = TRUE /\ receiver'.up = receiver.up
        /\ receiver'.file = receiver.file /\ receiver'.waiting = receiver.waiting \ {q}
    BY <2>1
  <2>. QED BY <1>2, <1>5, <2>1, <2>2 DEF mem
<1>. QED BY <1>4, <1>5

\* What is known when it is not torn.
LEMMA KnownIs ==
  ASSUME receiver \in Receivers, Keeping
  PROVE  Known # Torn => Known \in Kept /\ Once(Known)
BY ReceiverFields DEF Known, Keeping

\* A step keeps the receiver one.
LEMMA ReceiverStep ==
  ASSUME Fixed, Control, meas \in Measures_, Measuring, Flow, Carried, receiver \in Receivers, Keeping, Next
  PROVE  receiver' \in Receivers
<1>f. /\ receiver.up \in BOOLEAN /\ receiver.memory \in Kept /\ receiver.file \in Kept \cup {Torn}
      /\ receiver.writing \in BOOLEAN /\ receiver.waiting \subseteq Requests
  BY ReceiverFields
<1>r. receiver = [up |-> receiver.up, memory |-> receiver.memory, file |-> receiver.file,
                  writing |-> receiver.writing, waiting |-> receiver.waiting]
  BY DEF Receivers
<1>1. CASE ~ Receiving
  <2>1. UNCHANGED receiver
    BY <1>1, StepSorts DEF Moving, Sampling, Quiet, Filing, ArchivePut, SinkUploads, ArchiveEnds, ReportBegins,
       StopRun, StartRun, HandlerStep
  <2>. QED BY <2>1
<1>2. CASE Call
  <2>1. Asked \in Requests BY <1>2, AskedIs DEF Call
  <2>. HIDE DEF Asked
  <2>2. receiver' = [up |-> receiver.up, memory |-> receiver.memory, file |-> receiver.file,
                     writing |-> receiver.writing, waiting |-> receiver.waiting \cup {Asked}]
    BY <1>2, <1>r DEF Call
  <2>3. receiver.waiting \cup {Asked} \subseteq Requests BY <1>f, <2>1
  <2>. QED BY <1>f, <2>2, <2>3, MakesReceiver
<1>3. CASE Put
  <2>1. PICK q \in receiver.waiting :
          /\ receiver'.up = receiver.up /\ receiver'.file = receiver.file
          /\ receiver'.waiting = receiver.waiting \ {q}
          /\ Known = Torn => receiver'.memory = receiver.memory /\ receiver'.writing = receiver.writing
          /\ Known # Torn =>
               /\ receiver'.writing = TRUE
               /\ receiver'.memory = IF q.status = "completed" THEN q ELSE OnProgress(Known, q.frame)
          /\ receiver' = [up |-> receiver'.up, memory |-> receiver'.memory, file |-> receiver'.file,
                          writing |-> receiver'.writing, waiting |-> receiver'.waiting]
    BY <1>3, PutGives
  <2>2. q \in Requests BY <1>f
  <2>3. receiver'.memory \in Kept
    <3>1. CASE Known = Torn BY <1>f, <2>1, <3>1
    <3>2. CASE Known # Torn /\ q.status = "completed"
      <4>1. q \in Finals BY <2>2, <3>2 DEF Requests
      <4>. QED BY <2>1, <3>2, <4>1 DEF Kept
    <3>3. CASE Known # Torn /\ q.status # "completed"
      <4>1. q.frame \in Frames BY <2>2, <3>3 DEF Requests, Finals
      <4>2. Known \in Kept /\ Once(Known) BY <3>3, KnownIs
      <4>. HIDE DEF Known
      <4>. QED BY <2>1, <3>3, <4>1, <4>2, OnProgressKeeps
    <3>. QED BY <3>1, <3>2, <3>3
  <2>4. receiver'.writing \in BOOLEAN BY <1>f, <2>1
  <2>5. receiver'.waiting \subseteq Requests /\ receiver'.up \in BOOLEAN /\ receiver'.file \in Kept \cup {Torn}
    BY <1>f, <2>1
  <2>. QED BY <2>1, <2>3, <2>4, <2>5, MakesReceiver
<1>4. CASE PutWritten
  <2>1. receiver' = [up |-> receiver.up, memory |-> receiver.memory, file |-> receiver.memory,
                     writing |-> FALSE, waiting |-> receiver.waiting]
    BY <1>4, <1>r DEF PutWritten
  <2>. QED BY <1>f, <2>1, MakesReceiver
<1>5. CASE ReceiverCrashes
  <2>1. PICK f \in {receiver.file} \cup (IF receiver.writing THEN {receiver.memory, Torn} ELSE {}) :
          receiver' = [up |-> FALSE, memory |-> None, file |-> f, writing |-> FALSE, waiting |-> {}]
    BY <1>5 DEF ReceiverCrashes
  <2>2. f \in Kept \cup {Torn} /\ None \in Kept BY <1>f DEF Kept
  <2>. QED BY <2>1, <2>2, MakesReceiver
<1>6. CASE ReceiverRestarts
  <2>1. receiver' = [up |-> TRUE, memory |-> receiver.memory, file |-> receiver.file,
                     writing |-> receiver.writing, waiting |-> receiver.waiting]
    BY <1>6, <1>r DEF ReceiverRestarts
  <2>. QED BY <1>f, <2>1, MakesReceiver
<1>. QED BY <1>1, <1>2, <1>3, <1>4, <1>5, <1>6 DEF Receiving

(***************************************************************************)
(* Who gets to the end.                                                    *)
(***************************************************************************)
Done == {"callback", "calling", "told", "idle"}

\* A call begins with Call and is told by an answer; a reporter is done when its report
\* was answered by the metric that is stored.
Goes ==
  /\ pc'["compute"] = "calling" =>
       \/ pc["compute"] = "calling" /\ UNCHANGED result /\ ~ ReceiverCrashes
       \/ Call /\ pc["compute"] = "callback" /\ UNCHANGED result
  /\ pc'["compute"] = "told" =>
       pc["compute"] = "told" \/ (pc["compute"] = "calling" /\ Served /\ UNCHANGED receiver)
  /\ pc'[Reporter'] \in Done => /\ run' = run
                                /\ pc[Reporter] \in Done \/ call[run].phase = "stored"

\* Every step but the stop of the instance.
LEMMA GoesStep ==
  ASSUME Fixed, Control, Flow, Next
  PROVE  Goes
<1>. DEFINE c == pc["compute"]
            k == pc["sink"]
<1>0. "compute" \in Workers /\ "sink" \in Workers /\ "source" \in Workers BY DEF Workers
<1>. USE GotoPlace DEF fixed
<1>d. ASSUME UNCHANGED <<direct, run, result>>, ~ ReceiverCrashes,
             pc'["compute"] = c \/ pc'["compute"] \notin Done,
             pc'["sink"] = k \/ pc'["sink"] \notin Done
      PROVE  Goes
  <2>1. Reporter' = Reporter /\ Reporter \in {"compute", "sink"} BY <1>d DEF Reporter
  <2>2. pc'[Reporter'] \in Done => pc[Reporter] \in Done BY <1>d, <2>1
  <2>3. pc'["compute"] \in {"calling", "told"} => pc'["compute"] = c BY <1>d DEF Done
  <2>. QED BY <1>d, <2>2, <2>3 DEF Goes
<1>1. ASSUME NEW w \in Workers, Launch(w) PROVE Goes \/ ReceiverCrashes
  <2>1. UNCHANGED <<direct, run, result>> BY <1>1 DEF Launch
  <2>2. /\ pc'["compute"] \in {c, "ready", "wait"}
        /\ pc'["sink"] \in {k, "wait"}
    BY <1>0, <1>1 DEF Launch, Workers
  <2>. QED BY <1>d, <2>1, <2>2 DEF Done
<1>2. ASSUME NEW w \in Workers, Expire(w) PROVE Goes \/ ReceiverCrashes
  <2>1. UNCHANGED <<direct, run, result>> BY <1>2 DEF Expire
  <2>2. pc'["compute"] \in {c, "failed"} /\ pc'["sink"] \in {k, "failed"} BY <1>0, <1>2 DEF Expire, Workers
  <2>. QED BY <1>d, <2>1, <2>2 DEF Done
<1>3. ASSUME SourceStep PROVE Goes \/ ReceiverCrashes
  <2>1. UNCHANGED <<direct, run, result>> BY <1>3 DEF SourceStep, Post
  <2>2. pc'["compute"] = c /\ pc'["sink"] = k BY <1>0, <1>3 DEF SourceStep, Receive, Post
  <2>. QED BY <1>d, <2>1, <2>2
<1>4. ASSUME ComputeReady \/ GetJob \/ Download \/ MeasureEnds \/ ArchiveFails
      PROVE  Goes \/ ReceiverCrashes
  <2>. USE DEF ComputeReady, GetJob, Download, MeasureEnds, ArchiveFails, Receive, Post
  <2>1. UNCHANGED <<direct, run, result>> BY <1>4
  <2>2. pc'["compute"] \in {c, "wait", "download", "run", "archive", "failed"} /\ pc'["sink"] = k BY <1>0, <1>4
  <2>. QED BY <1>d, <2>1, <2>2 DEF Done
<1>5. ASSUME (\E lat : Frame(lat) \/ FrameFallsBack(lat) \/ Window(lat))
             \/ StartOnCpu \/ Surrogate \/ MeasureFails
      PROVE  Goes \/ ReceiverCrashes
  <2>. USE DEF Frame, FrameFallsBack, Window, StartOnCpu, Surrogate, MeasureFails, Measures
  <2>1. UNCHANGED <<direct, run, result>> BY <1>5
  <2>2. pc'["compute"] \in {"run", "progress", "failed"} /\ pc'["sink"] = k BY <1>0, <1>5 DEF AfterFrame
  <2>. QED BY <1>d, <2>1, <2>2 DEF Done
<1>6. ASSUME ArchivePut \/ Put \/ PutWritten \/ ReceiverRestarts \/ UNCHANGED <<fixed, workers>>
      PROVE  Goes \/ ReceiverCrashes
  <2>1. UNCHANGED <<direct, run, result, pc>>
    BY <1>6 DEF ArchivePut, Put, PutWritten, ReceiverRestarts, workers
  <2>. QED BY <1>d, <2>1
<1>7. ASSUME ArchiveEnds PROVE Goes
  <2>1. UNCHANGED <<direct, run>> BY <1>7 DEF ArchiveEnds
  <2>2. pc'["compute"] \in {"report", "deliver"} /\ pc'["sink"] = k BY <1>0, <1>7 DEF ArchiveEnds
  <2>3. pc'[Reporter'] \in Done => pc[Reporter] \in Done BY <2>1, <2>2 DEF Reporter, Done
  <2>. QED BY <2>1, <2>2, <2>3 DEF Goes
<1>8. ASSUME Deliver PROVE Goes
  <2>1. UNCHANGED <<direct, run>> /\ c = "deliver" BY <1>8 DEF Deliver, Post
  <2>2. pc'["compute"] \in {"deliver", "idle"} /\ pc'["sink"] = k BY <1>0, <1>8, <2>1 DEF Deliver, Post
  <2>3. ~ direct BY <2>1 DEF Flow
  <2>4. pc'[Reporter'] \in Done => pc[Reporter] \in Done BY <2>1, <2>2, <2>3 DEF Reporter
  <2>. QED BY <2>1, <2>2, <2>4 DEF Goes
<1>9. ASSUME SinkGets \/ SinkUploads PROVE Goes \/ ReceiverCrashes
  <2>1. UNCHANGED <<direct, run, result>> BY <1>9 DEF SinkGets, SinkUploads
  <2>2. pc'["compute"] = c /\ pc'["sink"] \in {"upload", "report"}
    BY <1>0, <1>9 DEF SinkGets, Receive, SinkUploads
  <2>. QED BY <1>d, <2>1, <2>2 DEF Done
<1>10. ASSUME ReportBegins PROVE Goes \/ ReceiverCrashes
  <2>1. UNCHANGED <<direct, run, result>> BY <1>10 DEF ReportBegins
  <2>2. pc'["compute"] \in {c, "reporting"} /\ pc'["sink"] \in {k, "reporting"}
    BY <1>0, <1>10 DEF ReportBegins, Reporter
  <2>. QED BY <1>d, <2>1, <2>2 DEF Done
<1>11. ASSUME ReportAnswered PROVE Goes
  <2>1. UNCHANGED <<direct, run, result, receiver>> BY <1>11 DEF ReportAnswered
  <2>2. Reporter' = Reporter /\ Reporter \in Workers BY <1>0, <2>1 DEF Reporter
  <2>3. pc'[Reporter] = IF call[run].phase = "stored" THEN AfterReport
                        ELSE IF attempts < 3 THEN "report" ELSE "failed"
    BY <1>11, <2>2 DEF ReportAnswered
  <2>4. pc'[Reporter'] \in Done => call[run].phase = "stored" BY <2>2, <2>3 DEF Done
  <2>5. pc'["compute"] \in {c, "callback", "report", "failed"}
    BY <1>0, <1>11 DEF ReportAnswered, Reporter, AfterReport
  <2>6. ~ ReceiverCrashes \/ c \notin {"calling"} \/ pc'["compute"] # "calling"
    <3>1. ASSUME ReceiverCrashes, pc'["compute"] = "calling", c = "calling" PROVE FALSE
      BY <1>0, <3>1 DEF ReceiverCrashes
    <3>. QED BY <3>1
  <2>. QED BY <2>1, <2>4, <2>5, <2>6 DEF Goes
<1>12. ASSUME Call PROVE Goes
  <2>1. UNCHANGED <<direct, run, result>> /\ c \in {"progress", "callback"} BY <1>12 DEF Call
  <2>2. /\ c = "progress" => pc'["compute"] = "progressing"
        /\ c = "callback" => pc'["compute"] = "calling"
        /\ pc'["sink"] = k
    BY <1>0, <1>12 DEF Call
  <2>3. pc'[Reporter'] \in Done => pc[Reporter] \in Done BY <2>1, <2>2 DEF Reporter, Done
  <2>. QED BY <1>12, <2>1, <2>2, <2>3 DEF Goes
<1>13. ASSUME CallAnswered PROVE Goes
  <2>1. UNCHANGED <<direct, run, result, receiver>> /\ c \in {"progressing", "calling"} BY <1>13 DEF CallAnswered
  <2>2. /\ c = "progressing" => pc'["compute"] \in {"run", "progress"}
        /\ c = "calling" => pc'["compute"] = "callback" \/ (pc'["compute"] = "told" /\ Served)
        /\ pc'["sink"] = k
    BY <1>0, <1>13 DEF CallAnswered
  <2>3. pc'[Reporter'] \in Done => pc[Reporter] \in Done BY <2>1, <2>2 DEF Reporter, Done
  <2>. HIDE DEF Served
  <2>. QED BY <2>1, <2>2, <2>3 DEF Goes
<1>14. ASSUME GiveUp PROVE Goes
  <2>1. UNCHANGED <<direct, run, result>> /\ c \in {"progress", "progressing", "callback", "calling"}
    BY <1>14 DEF GiveUp
  <2>2. /\ c \in {"progress", "progressing"} => pc'["compute"] = "run"
        /\ c \in {"callback", "calling"} => pc'["compute"] = "idle"
        /\ pc'["sink"] = k
    BY <1>0, <1>14 DEF GiveUp
  <2>3. pc'[Reporter'] \in Done => pc[Reporter] \in Done BY <2>1, <2>2 DEF Reporter, Done
  <2>4. pc'["compute"] \in {"run", "idle"} BY <2>1, <2>2
  <2>. QED BY <2>1, <2>3, <2>4 DEF Goes
<1>15. ASSUME ReceiverCrashes PROVE Goes
  <2>1. UNCHANGED <<direct, run, result>> BY <1>15 DEF ReceiverCrashes
  <2>2. /\ pc'["compute"] = (CASE c = "progressing" -> "progress" [] c = "calling" -> "callback" [] OTHER -> c)
        /\ pc'["sink"] = k
    BY <1>0, <1>15 DEF ReceiverCrashes
  <2>3. pc'["compute"] # "calling" /\ (pc'["compute"] = "told" => c = "told") BY <2>2
  <2>4. pc'[Reporter'] \in Done => pc[Reporter] \in Done BY <2>1, <2>2 DEF Reporter, Done
  <2>. QED BY <2>1, <2>3, <2>4 DEF Goes
<1>16. ASSUME StopRun PROVE Goes
  <2>1. UNCHANGED direct /\ pc' = Down BY <1>16 DEF StopRun
  <2>2. pc'["compute"] = "down" /\ pc'["sink"] = "down" BY <1>0, <2>1 DEF Down
  <2>3. pc'[Reporter'] = "down" BY <2>2 DEF Reporter
  <2>. QED BY <2>2, <2>3 DEF Goes, Done
<1>17. ASSUME StartRun PROVE Goes
  <2>1. UNCHANGED <<direct, pc>> /\ ~ started BY <1>17 DEF StartRun
  <2>2. pc' = Down BY <2>1 DEF Flow
  <2>3. pc'["compute"] = "down" /\ pc'["sink"] = "down" BY <1>0, <2>2 DEF Down
  <2>4. pc'[Reporter'] = "down" BY <2>3 DEF Reporter
  <2>. QED BY <2>3, <2>4 DEF Goes, Done
<1>18. ASSUME ComputeStep PROVE Goes
  <2>1. CASE ComputeReady \/ GetJob \/ Download \/ MeasureEnds \/ ArchiveFails BY <1>4, <1>15, <2>1
  <2>2. CASE (\E lat : Frame(lat) \/ FrameFallsBack(lat) \/ Window(lat)) \/ StartOnCpu \/ Surrogate \/ MeasureFails
    BY <1>5, <1>15, <2>2
  <2>3. CASE ArchivePut BY <1>6, <1>15, <2>3
  <2>. QED BY <1>7, <1>8, <1>18, <2>1, <2>2, <2>3 DEF ComputeStep
<1>19. ASSUME \E r \in Runs : HandlerStep(r) PROVE UNCHANGED <<fixed, workers>> BY <1>19 DEF HandlerStep
<1>. QED BY <1>1, <1>2, <1>3, <1>6, <1>9, <1>10, <1>11, <1>12, <1>13, <1>14, <1>15, <1>16, <1>17, <1>18, <1>19
     DEF Next, SinkStep, ReportStep, CallbackStep

(***************************************************************************)
(* What the receiver keeps.                                                *)
(***************************************************************************)
\* The fields after each step of the receiver, and of those that leave it alone.
LEMMA CallGives ==
  ASSUME receiver \in Receivers, Call
  PROVE  /\ receiver'.up = receiver.up /\ receiver'.memory = receiver.memory /\ receiver'.file = receiver.file
         /\ receiver'.writing = receiver.writing /\ receiver'.waiting = receiver.waiting \cup {Asked}
BY DEF Call, Receivers

\* The write of the file.
LEMMA WrittenGives ==
  ASSUME receiver \in Receivers, PutWritten
  PROVE  /\ receiver.writing /\ receiver'.up = receiver.up
         /\ receiver'.memory = receiver.memory /\ receiver'.file = receiver.memory
         /\ receiver'.writing = FALSE /\ receiver'.waiting = receiver.waiting
         /\ UNCHANGED <<fixed, backend, workers>>
BY DEF PutWritten, Receivers

\* The crash.
LEMMA CrashGives ==
  ASSUME receiver \in Receivers, ReceiverCrashes
  PROVE  /\ receiver'.memory = None /\ receiver'.writing = FALSE /\ receiver'.waiting = {}
         /\ \/ receiver'.file = receiver.file
            \/ receiver.writing /\ receiver'.file = receiver.memory
            \/ receiver'.file = Torn
BY DEF ReceiverCrashes

\* The restart.
LEMMA RestartGives ==
  ASSUME receiver \in Receivers, ReceiverRestarts
  PROVE  /\ receiver'.memory = receiver.memory /\ receiver'.file = receiver.file
         /\ receiver'.writing = receiver.writing /\ receiver'.waiting = receiver.waiting
         /\ UNCHANGED <<fixed, backend, workers>>
BY DEF ReceiverRestarts, Receivers

\* Every other step.
LEMMA NotReceiving ==
  ASSUME Next, ~ Receiving PROVE UNCHANGED receiver
BY StepSorts DEF Moving, Sampling, Quiet, Filing, ArchivePut, SinkUploads, ArchiveEnds, ReportBegins,
   StopRun, StartRun, HandlerStep

\* The part of Keeping that only the receiver's own fields are in.
Stays(m, f, w) ==
  /\ f = Torn => m = None
  /\ w => m # None
  /\ ~ w => m = None \/ m = f
  /\ f.status = "completed" => m = None \/ m.status = "completed"
  /\ Once(m) /\ Once(f)

\* And the part about a call.
Calls(c, m, f, q) ==
  /\ c = "calling" => \/ Final \in q
                      \/ m.status = "completed"
                      \/ m = None /\ (f = Torn \/ f.status = "completed")
  /\ c = "told" => f = Torn \/ f.status = "completed"

\* Keeping is the two.
LEMMA KeepingIs ==
  Keeping <=> /\ Stays(receiver.memory, receiver.file, receiver.writing)
              /\ Calls(pc["compute"], receiver.memory, receiver.file, receiver.waiting)
BY DEF Keeping, Stays, Calls, Told

\* A step of the receiver keeps its own part, and takes no final result back.
LEMMA StaysStep ==
  ASSUME receiver \in Receivers, Keeping, Next
  PROVE  /\ Stays(receiver'.memory, receiver'.file, receiver'.writing)
         /\ receiver.file.status = "completed" => receiver'.file.status \in {"completed", "torn"}
         /\ receiver.file = Torn => receiver'.file = Torn
         /\ receiver.memory.status = "completed" =>
              receiver'.memory.status = "completed" \/ ReceiverCrashes
<1>f. /\ receiver.memory \in Kept /\ receiver.file \in Kept \cup {Torn} /\ receiver.writing \in BOOLEAN
      /\ receiver.waiting \subseteq Requests
  BY ReceiverFields
<1>s. Stays(receiver.memory, receiver.file, receiver.writing) BY KeepingIs
<1>n. None \in Kept /\ None.status = "none" /\ Torn.status = "torn" /\ Torn # None BY DEF Kept, None, Torn
<1>1. CASE ~ Receiving
  <2>1. UNCHANGED receiver BY <1>1, NotReceiving
  <2>. QED BY <1>s, <2>1
<1>2. CASE Call BY <1>2, <1>s, CallGives
<1>3. CASE Put
  <2>1. PICK q \in receiver.waiting :
          /\ ~ receiver.writing
          /\ receiver'.file = receiver.file
          /\ Known = Torn => receiver'.memory = receiver.memory /\ receiver'.writing = receiver.writing
          /\ Known # Torn =>
               /\ receiver'.writing = TRUE
               /\ receiver'.memory = IF q.status = "completed" THEN q ELSE OnProgress(Known, q.frame)
    BY <1>3, PutGives
  <2>2. q \in Requests BY <1>f
  <2>3. CASE Known = Torn BY <1>s, <2>1, <2>3
  <2>4. CASE Known # Torn
    <3>1. Known \in Kept /\ Once(Known) BY <2>4, KnownIs
    <3>2. receiver'.memory # None /\ Once(receiver'.memory)
          /\ (q.status = "completed" \/ Known.status = "completed" => receiver'.memory.status = "completed")
      <4>1. CASE q.status = "completed"
        <5>1. receiver'.memory = q BY <2>1, <2>4, <4>1
        <5>. QED BY <4>1, <5>1, <1>n DEF Once
      <4>2. CASE q.status # "completed"
        <5>1. q.frame \in Frames BY <2>2, <4>2 DEF Requests, Finals
        <5>2. receiver'.memory = OnProgress(Known, q.frame) BY <2>1, <2>4, <4>2
        <5>. HIDE DEF Known
        <5>. QED BY <3>1, <4>2, <5>1, <5>2, OnProgressKeeps
      <4>. QED BY <4>1, <4>2
    <3>3. Known = IF receiver.memory # None THEN receiver.memory ELSE receiver.file BY DEF Known
    <3>4. receiver.file # Torn
      <4>. SUFFICES ASSUME receiver.file = Torn PROVE FALSE OBVIOUS
      <4>1. receiver.memory = None BY <1>s DEF Stays
      <4>. QED BY <2>4, <3>3, <4>1
    <3>5. receiver.file.status = "completed" => Known.status = "completed" BY <1>s, <3>3 DEF Stays
    <3>6. receiver.memory.status = "completed" => Known.status = "completed" BY <1>n, <3>3
    <3>. HIDE DEF Known
    <3>. QED BY <1>s, <2>1, <2>4, <3>2, <3>4, <3>5, <3>6 DEF Stays
  <2>. QED BY <2>3, <2>4
<1>4. CASE PutWritten
  <2>1. /\ receiver.writing /\ receiver'.memory = receiver.memory /\ receiver'.file = receiver.memory
        /\ receiver'.writing = FALSE
    BY <1>4, WrittenGives
  <2>2. receiver.memory # None /\ receiver.memory # Torn /\ receiver.file # Torn
    BY <1>f, <1>s, <2>1, KeptIs DEF Stays
  <2>. QED BY <1>s, <2>1, <2>2 DEF Stays
<1>5. CASE ReceiverCrashes
  <2>1. /\ receiver'.memory = None /\ receiver'.writing = FALSE
        /\ \/ receiver'.file = receiver.file
           \/ receiver.writing /\ receiver'.file = receiver.memory
           \/ receiver'.file = Torn
    BY <1>5, CrashGives
  <2>2. Once(None) /\ Once(Torn) BY <1>n DEF Once
  <2>3. receiver.writing => receiver.memory # None /\ receiver.memory # Torn /\ receiver.file # Torn
    BY <1>f, <1>s, KeptIs DEF Stays
  <2>. QED BY <1>n, <1>s, <1>5, <2>1, <2>2, <2>3 DEF Stays
<1>6. CASE ReceiverRestarts BY <1>6, <1>s, RestartGives
<1>. QED BY <1>1, <1>2, <1>3, <1>4, <1>5, <1>6 DEF Receiving

\* A step keeps Keeping: a call that is answered has been written, unless the file is torn.
LEMMA KeepingStep ==
  ASSUME Fixed, Control, meas \in Measures_, Measuring, Flow, Carried, receiver \in Receivers, Keeping, Next
  PROVE  Keeping'
<1>f. /\ receiver.memory \in Kept /\ receiver.file \in Kept \cup {Torn} /\ receiver.writing \in BOOLEAN
      /\ receiver.waiting \subseteq Requests
  BY ReceiverFields
<1>s. /\ Stays(receiver.memory, receiver.file, receiver.writing)
      /\ Calls(pc["compute"], receiver.memory, receiver.file, receiver.waiting)
  BY KeepingIs
<1>t. /\ Stays(receiver'.memory, receiver'.file, receiver'.writing)
      /\ receiver.file.status = "completed" => receiver'.file.status \in {"completed", "torn"}
      /\ receiver.file = Torn => receiver'.file = Torn
      /\ receiver.memory.status = "completed" =>
           receiver'.memory.status = "completed" \/ ReceiverCrashes
  BY StaysStep
<1>g. Goes BY GoesStep
<1>r. receiver' \in Receivers BY ReceiverStep
<1>n. None.status = "none" /\ Torn.status = "torn" BY DEF None, Torn
<1>w. receiver'.file \in Kept \cup {Torn} BY <1>r DEF Receivers
<1>o. receiver'.file = Torn \/ receiver'.file.status = "completed" <=> receiver'.file.status \in {"completed", "torn"}
  BY <1>n, <1>w, KeptIs
<1>1. ASSUME pc'["compute"] = "told"
      PROVE  receiver'.file = Torn \/ receiver'.file.status = "completed"
  <2>1. CASE pc["compute"] = "told" BY <1>s, <1>t, <1>o, <2>1 DEF Calls
  <2>2. CASE pc["compute"] = "calling" /\ Served /\ UNCHANGED receiver
    <3>1. Asked = Final BY <2>2, AskedIs
    <3>2. ~ receiver.writing /\ Final \notin receiver.waiting /\ Known # Torn BY <2>2, <3>1 DEF Served
    <3>3. \/ receiver.memory.status = "completed"
          \/ receiver.memory = None /\ (receiver.file = Torn \/ receiver.file.status = "completed")
      BY <1>s, <2>2, <3>2 DEF Calls
    <3>4. receiver.memory = None \/ receiver.memory = receiver.file BY <1>s, <3>2 DEF Stays
    <3>5. receiver.file = Torn \/ receiver.file.status = "completed" BY <1>n, <3>3, <3>4
    <3>. QED BY <2>2, <3>5
  <2>. QED BY <1>1, <1>g, <2>1, <2>2 DEF Goes
<1>2. ASSUME pc'["compute"] = "calling"
      PROVE  \/ Final' \in receiver'.waiting
             \/ receiver'.memory.status = "completed"
             \/ receiver'.memory = None /\ (receiver'.file = Torn \/ receiver'.file.status = "completed")
  <2>1. CASE Call /\ pc["compute"] = "callback" /\ UNCHANGED result
    <3>1. Asked = Final BY <2>1, AskedIs
    <3>2. receiver'.waiting = receiver.waiting \cup {Asked} BY <2>1, CallGives
    <3>3. Final' = Final BY <2>1 DEF Final
    <3>. HIDE DEF Final, Asked
    <3>. QED BY <3>1, <3>2, <3>3
  <2>2. CASE pc["compute"] = "calling" /\ UNCHANGED result /\ ~ ReceiverCrashes
    <3>1. Final' = Final BY <2>2 DEF Final
    <3>2. \/ Final \in receiver.waiting
          \/ receiver.memory.status = "completed"
          \/ receiver.memory = None /\ (receiver.file = Torn \/ receiver.file.status = "completed")
      BY <1>s, <2>2 DEF Calls
    <3>3. Final.status = "completed" BY <2>2, AskedIs
    <3>. HIDE DEF Final, Asked
    <3>4. CASE receiver.memory.status = "completed" BY <1>t, <2>2, <3>4
    <3>5. CASE ~ Receiving
      <4>1. UNCHANGED receiver BY <3>5, NotReceiving
      <4>. QED BY <3>1, <3>2, <4>1
    <3>6. CASE Call BY <3>1, <3>2, <3>6, CallGives
    <3>7. CASE PutWritten
      <4>1. receiver.memory # None BY <1>s, <3>7, WrittenGives DEF Stays
      <4>. QED BY <3>1, <3>2, <3>7, <4>1, WrittenGives
    <3>8. CASE ReceiverRestarts BY <3>1, <3>2, <3>8, RestartGives
    <3>9. CASE Put
      <4>1. PICK q \in receiver.waiting :
              /\ receiver'.file = receiver.file
              /\ receiver'.waiting = receiver.waiting \ {q}
              /\ Known = Torn => receiver'.memory = receiver.memory /\ receiver'.writing = receiver.writing
              /\ Known # Torn =>
                   /\ receiver'.writing = TRUE
                   /\ receiver'.memory = IF q.status = "completed" THEN q ELSE OnProgress(Known, q.frame)
        BY <3>9, PutGives
      <4>2. CASE Known = Torn
        <5>1. receiver.memory = None /\ receiver.file = Torn
          <6>1. receiver.memory # Torn BY <1>f, KeptIs
          <6>. QED BY <4>2, <6>1 DEF Known
        <5>. QED BY <4>1, <4>2, <5>1
      <4>3. CASE Known # Torn /\ Final \in receiver.waiting
        <5>1. CASE q = Final BY <3>3, <4>1, <4>3, <5>1
        <5>2. CASE q # Final BY <3>1, <4>1, <4>3, <5>2
        <5>. QED BY <5>1, <5>2
      <4>4. CASE Known # Torn /\ receiver.memory = None /\ receiver.file.status = "completed"
        <5>1. Known = receiver.file BY <4>4 DEF Known
        <5>2. Known \in Kept /\ Once(Known) BY <4>4, KnownIs
        <5>3. q \in Requests BY <1>f
        <5>4. CASE q.status = "completed" BY <4>1, <4>4, <5>4
        <5>5. CASE q.status # "completed"
          <6>1. q.frame \in Frames BY <5>3, <5>5 DEF Requests, Finals
          <6>2. receiver'.memory = OnProgress(Known, q.frame) BY <4>1, <4>4, <5>5
          <6>. HIDE DEF Known
          <6>3. OnProgress(Known, q.frame) = Known BY <4>4, <5>1, <5>2, <6>1, OnProgressKeeps
          <6>. QED BY <4>4, <5>1, <6>2, <6>3
        <5>. QED BY <5>4, <5>5
      <4>5. CASE Known # Torn /\ receiver.memory = None /\ receiver.file = Torn
        BY <4>5 DEF Known
      <4>. QED BY <3>2, <3>4, <4>2, <4>3, <4>4, <4>5
    <3>. QED BY <2>2, <3>5, <3>6, <3>7, <3>8, <3>9 DEF Receiving
  <2>. QED BY <1>2, <1>g, <2>1, <2>2 DEF Goes
<1>3. Calls(pc["compute"], receiver.memory, receiver.file, receiver.waiting)'
  BY <1>1, <1>2 DEF Calls
<1>. QED BY <1>3, <1>t DEF Keeping, Stays, Calls, Told

(***************************************************************************)
(* What is announced, and how long it is.                                  *)
(***************************************************************************)
\* A step brings no final result but that of a call.
LEMMA FinalsStep ==
  ASSUME receiver \in Receivers, Keeping, Next, NEW P,
         \A q \in receiver.waiting : q.status = "completed" => q \in P,
         receiver.memory.status = "completed" => receiver.memory \in P,
         receiver.file.status = "completed" => receiver.file \in P,
         Call /\ Asked.status = "completed" => Asked \in P
  PROVE  /\ \A q \in receiver'.waiting : q.status = "completed" => q \in P
         /\ receiver'.memory.status = "completed" => receiver'.memory \in P
         /\ receiver'.file.status = "completed" => receiver'.file \in P
<1>f. /\ receiver.memory \in Kept /\ receiver.file \in Kept \cup {Torn} /\ receiver.writing \in BOOLEAN
      /\ receiver.waiting \subseteq Requests
  BY ReceiverFields
<1>1. CASE ~ Receiving
  <2>1. UNCHANGED receiver BY <1>1, NotReceiving
  <2>. QED BY <2>1
<1>2. CASE Call
  <2>. HIDE DEF Asked
  <2>. QED BY <1>2, CallGives
<1>3. CASE Put
  <2>1. PICK q \in receiver.waiting :
          /\ receiver'.file = receiver.file
          /\ receiver'.waiting = receiver.waiting \ {q}
          /\ Known = Torn => receiver'.memory = receiver.memory /\ receiver'.writing = receiver.writing
          /\ Known # Torn =>
               /\ receiver'.writing = TRUE
               /\ receiver'.memory = IF q.status = "completed" THEN q ELSE OnProgress(Known, q.frame)
    BY <1>3, PutGives
  <2>2. CASE Known = Torn BY <2>1, <2>2
  <2>3. CASE Known # Torn /\ q.status = "completed" BY <2>1, <2>3
  <2>4. CASE Known # Torn /\ q.status # "completed"
    <3>1. q \in Requests BY <1>f
    <3>2. q.frame \in Frames BY <2>4, <3>1 DEF Requests, Finals
    <3>3. Known \in Kept /\ Once(Known) BY <2>4, KnownIs
    <3>4. receiver'.memory = OnProgress(Known, q.frame) BY <2>1, <2>4
    <3>5. Known = receiver.memory \/ Known = receiver.file BY DEF Known
    <3>. HIDE DEF Known
    <3>6. receiver'.memory.status = "completed" => receiver'.memory = Known /\ Known.status = "completed"
      BY <3>2, <3>3, <3>4, OnProgressKeeps
    <3>. QED BY <2>1, <3>5, <3>6
  <2>. QED BY <2>2, <2>3, <2>4
<1>4. CASE PutWritten BY <1>4, WrittenGives
<1>5. CASE ReceiverCrashes
  <2>1. None.status # "completed" /\ Torn.status # "completed" BY DEF None, Torn
  <2>. QED BY <1>5, <2>1, CrashGives
<1>6. CASE ReceiverRestarts BY <1>6, RestartGives
<1>. QED BY <1>1, <1>2, <1>3, <1>4, <1>5, <1>6 DEF Receiving

\* Final results of runs that are stored.
LEMMA AnnouncedStep ==
  ASSUME Fixed, Control, meas \in Measures_, Measuring, Flow, Carried, receiver \in Receivers, Keeping,
         Announced, Next
  PROVE  Announced'
<1>. USE DEF fixed, backend
<1>g. Goes BY GoesStep
<1>p. DOMAIN call = Runs /\ run \in Runs /\ \A r \in Runs : Carries(call[r], r)
  BY DEF Carried, Handlers, Control
<1>m. metrics \subseteq metrics'
  <2>1. CASE \E r \in Runs : HandlerStep(r)
    BY <2>1 DEF HandlerStep, MetricWritten, MetricFails
  <2>2. CASE ~ \E r \in Runs : HandlerStep(r)
    BY <2>2, StepSorts DEF Moving, Sampling, Quiet, Receiving, Call, Put, PutWritten, ReceiverCrashes,
       ReceiverRestarts, Filing, ArchivePut, SinkUploads, ArchiveEnds, ReportBegins, StopRun, StartRun
  <2>. QED BY <2>1, <2>2
<1>1. \A r : Stored(r) => Stored(r)' BY <1>m DEF Stored
<1>2. ASSUME NEW r \in Runs, call'[r].phase = "stored" PROVE Stored(r)'
  <2>1. CASE call' = call BY <1>1, <1>2, <2>1 DEF Announced
  <2>2. CASE ReportBegins
    <3>1. call' = [call EXCEPT ![run] = [phase |-> "begun", snap |-> Snapshot, result |-> result]]
      BY <2>2 DEF ReportBegins
    <3>2. r # run BY <1>2, <1>p, <3>1
    <3>3. call'[r] = call[r] BY <1>p, <3>1, <3>2
    <3>. QED BY <1>1, <1>2, <3>3 DEF Announced
  <2>3. CASE \E q \in Runs : HandlerStep(q)
    <3>1. PICK q \in Runs : HandlerStep(q) BY <2>3
    <3>2. CASE q = r
      <4>1. MetricWritten(r) \/ MetricFails(r) BY <3>1, <3>2 DEF HandlerStep
      <4>2. ~ MetricFails(r) BY <1>2, <1>p DEF MetricFails
      <4>3. call[r].result \in metrics' /\ call[r].phase = "begun" BY <4>1, <4>2 DEF MetricWritten
      <4>4. call[r].result.run = r BY <1>p, <4>3 DEF Carries
      <4>. QED BY <4>3, <4>4 DEF Stored
    <3>3. CASE q # r
      <4>1. call'[r] = call[r] BY <1>p, <3>1, <3>3 DEF HandlerStep, MetricWritten, MetricFails
      <4>. QED BY <1>1, <1>2, <4>1 DEF Announced
    <3>. QED BY <3>2, <3>3
  <2>4. call' = call \/ ReportBegins \/ \E q \in Runs : HandlerStep(q)
    BY StepSorts DEF Moving, Sampling, Quiet, Receiving, Call, Put, PutWritten, ReceiverCrashes,
       ReceiverRestarts, Filing, ArchivePut, SinkUploads, ArchiveEnds, StopRun, StartRun
  <2>. QED BY <2>1, <2>2, <2>3, <2>4
<1>3. ASSUME pc'[Reporter'] \in Done PROVE Stored(run)'
  <2>1. run' = run /\ (pc[Reporter] \in Done \/ call[run].phase = "stored") BY <1>3, <1>g DEF Goes
  <2>2. Stored(run) BY <1>p, <2>1 DEF Announced, Done
  <2>3. PICK r : r = run OBVIOUS
  <2>4. Stored(r)' BY <1>1, <2>2, <2>3
  <2>. QED BY <2>1, <2>3, <2>4 DEF Stored
<1>. DEFINE P == {f \in Finals : \E m \in metrics' : m.run = f.run}
<1>4. /\ \A q \in receiver'.waiting : q.status = "completed" => q \in P
      /\ receiver'.memory.status = "completed" => receiver'.memory \in P
      /\ receiver'.file.status = "completed" => receiver'.file \in P
  <2>1. ASSUME NEW f, f \in Finals, Stored(f.run) PROVE f \in P
    BY <1>m, <2>1 DEF Stored
  <2>2. \A q \in receiver.waiting : q.status = "completed" => q \in P
    <3>. SUFFICES ASSUME NEW q \in receiver.waiting, q.status = "completed" PROVE q \in P OBVIOUS
    <3>1. q \in Requests BY ReceiverFields
    <3>2. q \in Finals BY <3>1 DEF Requests
    <3>3. Stored(q.run) BY DEF Announced
    <3>. HIDE DEF P
    <3>. QED BY <2>1, <3>2, <3>3
  <2>3. receiver.memory.status = "completed" => receiver.memory \in P
    <3>. SUFFICES ASSUME receiver.memory.status = "completed" PROVE receiver.memory \in P OBVIOUS
    <3>1. receiver.memory \in Finals BY ReceiverFields, KeptIs
    <3>2. Stored(receiver.memory.run) BY DEF Announced
    <3>. HIDE DEF P
    <3>. QED BY <2>1, <3>1, <3>2
  <2>4. receiver.file.status = "completed" => receiver.file \in P
    <3>. SUFFICES ASSUME receiver.file.status = "completed" PROVE receiver.file \in P OBVIOUS
    <3>1. receiver.file \in Finals BY ReceiverFields, KeptIs, TornIs
    <3>2. Stored(receiver.file.run) BY DEF Announced
    <3>. HIDE DEF P
    <3>. QED BY <2>1, <3>1, <3>2
  <2>5. Call /\ Asked.status = "completed" => Asked \in P
    <3>. SUFFICES ASSUME Call, Asked.status = "completed" PROVE Asked \in P OBVIOUS
    <3>1. pc["compute"] \in {"progress", "callback"} BY DEF Call
    <3>2. pc["compute"] = "callback" BY <3>1, AskedIs
    <3>3. Asked = Final /\ Final \in Finals /\ Final.run = run BY <3>2, AskedIs
    <3>4. direct BY <3>2 DEF Flow
    <3>5. Stored(run) BY <3>2, <3>4 DEF Announced, Reporter
    <3>. HIDE DEF P, Asked, Final
    <3>. QED BY <2>1, <3>3, <3>5
  <2>. HIDE DEF P, Asked
  <2>. QED BY <2>2, <2>3, <2>4, <2>5, FinalsStep
<1>5. \A f : f \in P => Stored(f.run)' BY DEF Stored
<1>. HIDE DEF P
<1>6. \A q \in receiver'.waiting : q.status = "completed" => Stored(q.run)' BY <1>4, <1>5
<1>7. receiver'.memory.status = "completed" => Stored(receiver.memory.run)'
  <2>. SUFFICES ASSUME receiver'.memory.status = "completed" PROVE Stored(receiver.memory.run)' OBVIOUS
  <2>1. PICK f : f = receiver'.memory OBVIOUS
  <2>2. Stored(f.run)' BY <1>4, <1>5, <2>1
  <2>. QED BY <2>1, <2>2 DEF Stored
<1>8. receiver'.file.status = "completed" => Stored(receiver.file.run)'
  <2>. SUFFICES ASSUME receiver'.file.status = "completed" PROVE Stored(receiver.file.run)' OBVIOUS
  <2>1. PICK f : f = receiver'.file OBVIOUS
  <2>2. Stored(f.run)' BY <1>4, <1>5, <2>1
  <2>. QED BY <2>1, <2>2 DEF Stored
<1>. QED BY <1>2, <1>3, <1>6, <1>7, <1>8 DEF Announced, Done

\* Final results are as long as their job, at most.
LEMMA LengthsStep ==
  ASSUME Fixed, Control, meas \in Measures_, Measuring, Flow, Carried, receiver \in Receivers, Keeping,
         Lengths, Next
  PROVE  Lengths'
<1>. DEFINE P == {f \in Finals : Len(f.frames) <= Wanted + MaxSamples}
<1>1. \A q \in receiver.waiting : q.status = "completed" => q \in P
  <2>. SUFFICES ASSUME NEW q \in receiver.waiting, q.status = "completed" PROVE q \in P OBVIOUS
  <2>1. q \in Requests BY ReceiverFields
  <2>2. q \in Finals BY <2>1 DEF Requests
  <2>. QED BY <2>2 DEF Lengths
<1>2. receiver.memory.status = "completed" => receiver.memory \in P
  <2>1. receiver.memory.status = "completed" => receiver.memory \in Finals BY ReceiverFields, KeptIs
  <2>. QED BY <2>1 DEF Lengths
<1>3. receiver.file.status = "completed" => receiver.file \in P
  <2>1. receiver.file.status = "completed" => receiver.file \in Finals BY ReceiverFields, KeptIs, TornIs
  <2>. QED BY <2>1 DEF Lengths
<1>4. Call /\ Asked.status = "completed" => Asked \in P
  <2>. SUFFICES ASSUME Call, Asked.status = "completed" PROVE Asked \in P OBVIOUS
  <2>1. pc["compute"] \in {"progress", "callback"} BY DEF Call
  <2>2. pc["compute"] = "callback" BY <2>1, AskedIs
  <2>3. Asked = Final /\ Final \in Finals /\ Len(Final.frames) <= Wanted + MaxSamples BY <2>2, AskedIs
  <2>. HIDE DEF Asked, Final
  <2>. QED BY <2>3
<1>5. /\ \A q \in receiver'.waiting : q.status = "completed" => q \in P
      /\ receiver'.memory.status = "completed" => receiver'.memory \in P
      /\ receiver'.file.status = "completed" => receiver'.file \in P
  <2>. HIDE DEF P, Asked
  <2>. QED BY <1>1, <1>2, <1>3, <1>4, FinalsStep
<1>. QED BY <1>5 DEF Lengths

(***************************************************************************)
(* All of it.                                                              *)
(***************************************************************************)
PipeInv ==
  /\ Fixed /\ Control
  /\ meas \in Measures_ /\ Measuring
  /\ Flow /\ Carried /\ Filed
  /\ receiver \in Receivers /\ Keeping /\ Announced /\ Lengths

\* It holds at first.
LEMMA PipeInit == Init => PipeInv
<1>. SUFFICES ASSUME Init PROVE PipeInv OBVIOUS
<1>i. /\ run = 1 /\ started = TRUE /\ pc = Down /\ slot = Empty /\ meas = Fresh("gpu") /\ result = None
      /\ objects = [k \in Keys |-> 0] /\ attempts = 0 /\ metrics = {} /\ call = [r \in Runs |-> Idle]
      /\ receiver = [up |-> TRUE, memory |-> None, file |-> None, writing |-> FALSE, waiting |-> {}]
  BY DEF Init, BackendInit
<1>1. Fixed BY ScenarioAssumption DEF Init, Fixed
<1>2. pc["source"] = "down" /\ pc["compute"] = "down" /\ pc["sink"] = "down" /\ slot["sink"] = "none"
  BY <1>i DEF Down, Empty, Workers
<1>3. Control
  <2>1. pc \in [Workers -> Places] /\ slot \in [Workers -> Bodies] BY <1>i DEF Down, Empty, Places, Bodies
  <2>. QED BY <1>i, <1>2, <2>1, FirstRunAssumption DEF Control, SourceAt, ComputeAt, SinkAt
<1>4. meas \in Measures_ BY <1>i, FreshMeasure DEF Backends
<1>5. Measuring
  <2>1. Fine(meas) BY <1>i, <1>1, FreshFine DEF Backends
  <2>. QED BY <1>2, <2>1 DEF Measuring
<1>6. Flow
  <2>1. pc[Reporter] = "down" BY <1>2 DEF Reporter
  <2>. QED BY <1>i, <1>2, <2>1 DEF Flow, Passed
<1>7. \A r \in Runs : call[r].phase = "none" BY <1>i DEF Idle
<1>8. result \notin Results BY <1>i, NoneIsNoResult
<1>9. Carried BY <1>i, <1>7, <1>8 DEF Carried, Handlers, Carries, HonestInv
<1>10. Filed
  <2>1. objects \in [Keys -> Runs \cup {0}] BY <1>i
  <2>2. \A k \in Keys : objects[k] <= run BY <1>i
  <2>. QED BY <1>i, <1>7, <1>8, <2>1, <2>2 DEF Filed, Evidence
<1>11. None \in Kept /\ None.status = "none" /\ None # Torn BY DEF None, Torn, Kept
<1>12. receiver \in Receivers BY <1>i, <1>11, MakesReceiver
<1>13. receiver.memory = None /\ receiver.file = None /\ receiver.writing = FALSE /\ receiver.waiting = {}
  BY <1>i
<1>14. Keeping BY <1>2, <1>11, <1>13 DEF Keeping, Once
<1>15. Announced
  <2>1. pc[Reporter] = "down" BY <1>2 DEF Reporter
  <2>. QED BY <1>7, <1>11, <1>13, <2>1 DEF Announced
<1>16. Lengths BY <1>11, <1>13 DEF Lengths
<1>. QED BY <1>1, <1>3, <1>4, <1>5, <1>6, <1>9, <1>10, <1>12, <1>14, <1>15, <1>16 DEF PipeInv

\* No step changes which order it is.
LEMMA FixedStep ==
  ASSUME Fixed, Next PROVE Fixed'
BY StepSorts DEF Fixed, fixed, Moving, Sampling, Quiet, Receiving, Call, Put, PutWritten, ReceiverCrashes,
   ReceiverRestarts, Filing, ArchivePut, SinkUploads, ArchiveEnds, ReportBegins, StopRun, StartRun, HandlerStep

\* Every step keeps it.
LEMMA PipeNext == PipeInv /\ [Next]_vars => PipeInv'
<1>. SUFFICES ASSUME PipeInv, [Next]_vars PROVE PipeInv' OBVIOUS
<1>i. /\ Fixed /\ Control /\ meas \in Measures_ /\ Measuring /\ Flow /\ Carried /\ Filed
      /\ receiver \in Receivers /\ Keeping /\ Announced /\ Lengths
  BY DEF PipeInv
<1>1. CASE Next
  <2>1. Fixed' BY <1>i, <1>1, FixedStep
  <2>2. Control' BY <1>i, <1>1, ControlStep
  <2>3. meas' \in Measures_ /\ Measuring' BY <1>i, <1>1, MeasuringStep
  <2>4. Flow' BY <1>i, <1>1, <2>2, FlowStep
  <2>5. Carried' BY <1>i, <1>1, CarriedStep
  <2>6. Filed' BY <1>i, <1>1, FiledStep
  <2>7. receiver' \in Receivers BY <1>i, <1>1, ReceiverStep
  <2>8. Keeping' BY <1>i, <1>1, KeepingStep
  <2>9. Announced' BY <1>i, <1>1, AnnouncedStep
  <2>10. Lengths' BY <1>i, <1>1, LengthsStep
  <2>. QED BY <2>1, <2>2, <2>3, <2>4, <2>5, <2>6, <2>7, <2>8, <2>9, <2>10 DEF PipeInv
<1>2. CASE UNCHANGED vars
  <2>. USE <1>2 DEF vars, fixed, workers, backend
  <2>1. Fixed' /\ Control' /\ meas' \in Measures_ BY <1>i DEF Fixed, Control
  <2>2. Measuring' BY <1>i DEF Measuring, Fine, Finished
  <2>3. Flow' BY <1>i DEF Flow, Reporter
  <2>4. Carried' BY <1>i DEF Carried, Handlers, HonestInv, Honest
  <2>5. Filed' BY <1>i DEF Filed, Evidence, Backed
  <2>6. receiver' \in Receivers BY <1>i
  <2>7. Keeping' BY <1>i DEF Keeping, Told, Final
  <2>8. Announced' BY <1>i DEF Announced, Stored, Reporter
  <2>9. Lengths' BY <1>i DEF Lengths
  <2>. QED BY <2>1, <2>2, <2>3, <2>4, <2>5, <2>6, <2>7, <2>8, <2>9 DEF PipeInv
<1>. QED BY <1>1, <1>2

\* It is an invariant.
LEMMA PipeAlways == Spec => []PipeInv
<1>1. Init => PipeInv BY PipeInit
<1>2. PipeInv /\ [Next]_vars => PipeInv' BY PipeNext
<1>. QED BY <1>1, <1>2, PTL DEF Spec

(***************************************************************************)
(* What it says.                                                           *)
(***************************************************************************)
\* A metric row is honest about the frames, the backend and the value: for any number
\* of frames, runs and latencies, whatever falls back, starts again or is stopped.
THEOREM MetricsAreHonest == Spec => []MetricHonest
<1>1. PipeInv => MetricHonest
  <2>. SUFFICES ASSUME PipeInv PROVE MetricHonest OBVIOUS
  <2>1. \A m \in metrics : Honest(m) BY DEF PipeInv, Carried, HonestInv
  <2>. QED BY <2>1 DEF MetricHonest, Honest
<1>. QED BY <1>1, PipeAlways, PTL

\* Behind every metric row of a video or a fusion is the evidence of that run or a
\* later one.
THEOREM EvidenceIsThere == Spec => []EvidenceThere
<1>1. PipeInv => EvidenceThere BY DEF PipeInv, Filed, Evidence, Backed, EvidenceThere
<1>. QED BY <1>1, PipeAlways, PTL

\* Who is done, and whom the receiver calls completed, has a metric row.
THEOREM AnnouncedIsReported == Spec => []ReportedBeforeDone
<1>1. PipeInv => ReportedBeforeDone BY DEF PipeInv, Announced, Stored, ReportedBeforeDone
<1>. QED BY <1>1, PipeAlways, PTL

\* The receiver shows a frame once, and has in its file what it acknowledged.
THEOREM ReceiverKeepsIt == Spec => []ReceiverKeeps
<1>1. PipeInv => ReceiverKeeps
  BY DEF PipeInv, Keeping, Once, Distinct, Told, ReceiverKeeps, ProgressOnce, FinalKept
<1>. QED BY <1>1, PipeAlways, PTL

\* No step takes a completed record back.
THEOREM CompletedStays == Spec => CompletedSticks
<1>1. PipeInv /\ [Next]_vars =>
        [receiver.file.status = "completed" => receiver.file'.status \in {"completed", "torn"}]_vars
  <2>. SUFFICES ASSUME PipeInv, Next, receiver.file.status = "completed"
                PROVE  receiver.file'.status \in {"completed", "torn"}
    OBVIOUS
  <2>1. receiver \in Receivers /\ Keeping BY DEF PipeInv
  <2>2. receiver'.file.status \in {"completed", "torn"} BY <2>1, StaysStep
  <2>. QED BY <2>2
<1>. QED BY <1>1, PipeAlways, PTL DEF Spec, CompletedSticks

(***************************************************************************)
(* Types.                                                                  *)
(***************************************************************************)
\* Frames that are all different are no more than there are.
LEMMA FewDistinct ==
  ASSUME NEW frames \in Seq(Frames), Distinct(frames)
  PROVE  Len(frames) <= Wanted + MaxSamples
<1>. DEFINE n == Len(frames)
            number(i) == CHOOSE j \in 0..Wanted : frames[i] = j * FrameStride
            f == [i \in 1..n |-> number(i)]
<1>0. Wanted \in Nat /\ MaxSamples \in Nat \ {0} /\ n \in Nat BY JobAssumption DEF Wanted
<1>1. ASSUME NEW i \in 1..n PROVE number(i) \in 0..Wanted /\ frames[i] = number(i) * FrameStride
  <2>1. \E j \in 0..Wanted : frames[i] = j * FrameStride
    <3>1. frames[i] \in Frames BY <1>1
    <3>. QED BY <3>1 DEF Frames, Wanted
  <2>. QED BY <2>1
<1>. HIDE DEF number
<1>2. f \in [1..n -> 0..Wanted] BY <1>1
<1>3. ASSUME NEW i \in 1..n, NEW j \in 1..n, f[i] = f[j] PROVE i = j
  <2>1. number(i) = number(j) BY <1>3
  <2>2. frames[i] = frames[j] BY <1>1, <2>1
  <2>. QED BY <2>2 DEF Distinct
<1>4. f \in Injection(1..n, 0..Wanted) BY <1>2, <1>3 DEF Injection, IsInjective
<1>5. IsFiniteSet(1..n) /\ Cardinality(1..n) = n BY <1>0, FS_Interval
<1>6. IsFiniteSet(0..Wanted) /\ Cardinality(0..Wanted) = Wanted + 1 BY <1>0, FS_Interval
<1>7. n <= Wanted + 1 BY <1>4, <1>5, <1>6, FS_Injection
<1>. QED BY <1>0, <1>7

\* What the receiver keeps is a record of the declared type.
LEMMA RecordIs ==
  ASSUME NEW r \in Kept \cup {Torn}, Once(r),
         r.status = "completed" => Len(r.frames) <= Wanted + MaxSamples
  PROVE  r \in Records
<1>1. CASE r \in {None, Torn} BY <1>1 DEF Records
<1>2. CASE r \in Partials \cup Finals
  <2>1. r.frames \in Seq(Frames) /\ r.status \in {"running", "completed"} /\ r.run \in Runs \cup {0}
        /\ r = [status |-> r.status, frames |-> r.frames, run |-> r.run]
    BY <1>2 DEF Partials, Finals
  <2>2. Len(r.frames) <= Wanted + MaxSamples
    <3>1. CASE r.status = "running" BY <2>1, <3>1, FewDistinct DEF Once
    <3>. QED BY <2>1, <3>1
  <2>3. Len(r.frames) \in 0..(Wanted + MaxSamples)
    <3>1. Wanted + MaxSamples \in Nat BY JobAssumption DEF Wanted
    <3>2. Len(r.frames) \in Nat BY <2>1
    <3>. QED BY <2>2, <3>1, <3>2
  <2>4. r.frames \in [1..Len(r.frames) -> Frames] BY <2>1
  <2>5. r.frames \in UNION {[1..n -> Frames] : n \in 0..(Wanted + MaxSamples)} BY <2>3, <2>4
  <2>. QED BY <2>1, <2>5 DEF Records
<1>. QED BY <1>1, <1>2 DEF Kept

\* The variables take the values they are declared with, and no measurement, progress
\* or result outgrows its job.
THEOREM PipeTypes == Spec => []TypeOK
<1>1. PipeInv => TypeOK
  <2>. SUFFICES ASSUME PipeInv PROVE TypeOK OBVIOUS
  <2>1. /\ Fixed /\ Control /\ meas \in Measures_ /\ Fine(meas) /\ Keeping /\ Lengths
        /\ objects \in [Keys -> Runs \cup {0}] /\ metrics \subseteq Results /\ receiver \in Receivers
    BY DEF PipeInv, Measuring, Carried, Handlers, Filed
  <2>2. /\ meas.at \in Nat \ {0} /\ meas.samples \in Seq(Sample) /\ Len(meas.samples) \in Nat
        /\ WarmupFrames \in Nat /\ MeasuredFrames \in Nat /\ MaxSamples \in Nat
    BY <2>1, JobAssumption DEF Measures_
  <2>3. meas.at \in 1..(Wanted + MaxSamples + 1) BY <2>1, <2>2 DEF Fine, Wanted
  <2>4. Len(meas.samples) <= IF kind = "matmul" THEN MaxSamples ELSE MeasuredFrames
    BY <2>1, <2>2 DEF Fine, Wanted
  <2>5. \A i \in DOMAIN meas.samples : meas.samples[i] \in Sample BY <2>2
  <2>6. receiver.memory \in Kept /\ receiver.file \in Kept \cup {Torn} BY <2>1, ReceiverFields
  <2>7. receiver.memory \in Records BY <2>1, <2>6, RecordIs DEF Keeping, Lengths
  <2>8. receiver.file \in Records BY <2>1, <2>6, RecordIs DEF Keeping, Lengths
  <2>9. \A m \in metrics : m.run \in Runs /\ m.backend \in Backends BY <2>1 DEF Results
  <2>. QED BY <2>1, <2>3, <2>4, <2>5, <2>7, <2>8, <2>9 DEF TypeOK, Fixed, Control, Bodies
<1>. QED BY <1>1, PipeAlways, PTL
=============================================================================
