----------------------------- MODULE TaskPipeline -----------------------------
(***************************************************************************)
(* The workers of one order's instance and what they leave behind          *)
(* (src/workers): a source posts a job to the compute worker, which        *)
(* measures it, archives the evidence in MinIO and hands the result to the *)
(* sink, which reports the metric.  An order of mode "direct" has only a   *)
(* compute worker: the source is the user's, and the compute worker        *)
(* reports, and calls back a receiver that the user keeps.                 *)
(*                                                                         *)
(* Every call between two processes may be served and its reply be lost;   *)
(* a caller repeats it until its deadline.  A worker that raises exits and *)
(* is not restarted; the instance can be stopped and started again, with   *)
(* the same instance id and so the same keys in MinIO, while a handler of  *)
(* the manager still works for the earlier run.                            *)
(***************************************************************************)
EXTENDS WorkerMeasure, MetricBackend

CONSTANT Scenarios   \* what an order of the model may be: see Init
ASSUME ScenarioAssumption ==
  \A s \in Scenarios : s.kind \in Kinds /\ s.direct \in BOOLEAN /\ s.formal \in BOOLEAN
\* The runs of an instance are counted from one.
ASSUME FirstRunAssumption == 1 \in Runs

VARIABLES
  direct,     \* compute only
  extras,     \* the parts of the environment this behaviour has
  run,        \* which start of the instance it is
  started,    \* it is not stopped
  pc,         \* worker -> where its main() is
  slot,       \* worker -> PostDataHandler.received_data
  meas,       \* the compute worker's measurement
  result,     \* what it made of it; the sink gets a copy
  objects,    \* key in MinIO -> the run that wrote it, 0 for none
  attempts,   \* of report_metric
  receiver    \* the user's receiver: up, memory, file, and the put it does

workers == <<run, started, pc, slot, meas, result, objects, attempts>>
fixed == <<kind, formal, direct, extras>>
vars == <<fixed, workers, receiver, backend>>

Workers == {"source", "compute", "sink"}
Keys == {"frames", "manifest", "video", "preview", "result"}
None == [status |-> "none"]
Down == [w \in Workers |-> "down"]
Empty == [w \in Workers |-> "none"]

Init ==
  /\ \E s \in Scenarios :
       kind = s.kind /\ formal = s.formal /\ direct = s.direct /\ extras = s.extras
  /\ BackendInit
  /\ run = 1
  /\ started = TRUE
  /\ pc = Down
  /\ slot = Empty
  /\ meas = Fresh("gpu")
  /\ result = None
  /\ objects = [k \in Keys |-> 0]
  /\ attempts = 0
  /\ receiver = [up |-> TRUE, memory |-> None, file |-> None, writing |-> FALSE,
                waiting |-> {}]

Goto(w, place) == pc' = [pc EXCEPT ![w] = place]
Alive(w) == pc[w] \notin {"down", "failed"}

(***************************************************************************)
(* The environment of a worker.                                            *)
(***************************************************************************)
\* PEER_SOURCE_URL is set in a chain, and for a fusion, which downloads.
KnowsSource == ~ direct \/ kind = "fusion"

\* The source of a matrix product never waits for the ready signal.
SourceWaits == kind # "matmul" /\ KnowsSource

HasCallback == direct /\ "receiver" \in extras

\* A full chain is started along its edges; the user's source is started by the user.
Before(w) == CASE w = "source" -> {}
               [] w = "compute" -> IF direct THEN {} ELSE {"source"}
               [] w = "sink" -> {"compute"}

Launch(w) ==
  /\ started
  /\ pc[w] = "down"
  /\ w = "sink" => ~ direct
  /\ \A v \in Before(w) : pc[v] # "down"
  /\ Goto(w, CASE w = "source" -> IF SourceWaits THEN "wait" ELSE "post"
               [] w = "compute" -> IF KnowsSource THEN "ready" ELSE "wait"
               [] w = "sink" -> "wait")
  /\ UNCHANGED <<fixed, receiver, backend, run, started, slot, meas, result, objects, attempts>>

(***************************************************************************)
(* Calls between workers.  _post_json: the peer's handler keeps the last   *)
(* body, which nobody reads a second time; without a reply the call is     *)
(* repeated.                                                               *)
(***************************************************************************)
Post(w, peer, body, next) ==
  /\ Alive(peer)
  /\ slot' = IF pc[peer] \in {"ready", "wait"} THEN [slot EXCEPT ![peer] = body] ELSE slot
  /\ \/ Goto(w, next)
     \/ UNCHANGED pc
  /\ UNCHANGED <<fixed, receiver, backend, run, started, meas, result, objects, attempts>>

\* wait_for_data_handler
Receive(w, next) ==
  /\ pc[w] = "wait"
  /\ slot[w] # "none"
  /\ slot' = [slot EXCEPT ![w] = "none"]
  /\ Goto(w, next)

\* Every wait and every call has a deadline; after it the worker raises.
Deadlines == {"wait", "post", "ready", "download", "deliver", "reporting"}

Expire_bug(w) ==
  /\ pc[w] \in Deadlines \ {"wait"}
  /\ Goto(w, "failed")
  /\ UNCHANGED <<fixed, receiver, backend, run, started, slot, meas, result, objects, attempts>>
Expire(w) ==
  /\ pc[w] \in Deadlines
  /\ Goto(w, "failed")
  /\ UNCHANGED <<fixed, receiver, backend, run, started, slot, meas, result, objects, attempts>>

SourceStep ==
  \/ /\ Receive("source", "post")
     /\ UNCHANGED <<fixed, receiver, backend, run, started, meas, result, objects, attempts>>
  \/ pc["source"] = "post" /\ Post("source", "compute", "job", "serve")

(***************************************************************************)
(* The compute worker measures.                                            *)
(***************************************************************************)
ComputeReady == pc["compute"] = "ready" /\ Post("compute", "source", "ready", "wait")

GetJob ==
  /\ Receive("compute", IF kind = "fusion" THEN "download" ELSE "run")
  /\ UNCHANGED <<fixed, receiver, backend, run, started, meas, result, objects, attempts>>

\* _download_source_inputs; a file that does not come is an error.
Download ==
  /\ pc["compute"] = "download"
  /\ Alive("source")
  /\ Goto("compute", "run")
  /\ UNCHANGED <<fixed, receiver, backend, run, started, slot, meas, result, objects, attempts>>

Measures(m, place) ==
  /\ pc["compute"] = "run"
  /\ meas' = m
  /\ Goto("compute", place)
  /\ UNCHANGED <<fixed, receiver, backend, run, started, slot, result, objects, attempts>>

\* A callback for every measured frame of a video that nobody else will report.
AfterFrame == IF kind = "video" /\ HasCallback /\ ~ Warming(meas) THEN "progress" ELSE "run"

Frame(lat) ==
  /\ kind # "matmul"
  /\ ~ AllFrames(meas)
  /\ Measures(Took(kind, meas, lat, meas.backend), AfterFrame)

\* The frame fails on the GPU and runs on the CPU.
FrameFallsBack(lat) ==
  /\ kind = "video"
  /\ meas.backend = "gpu"
  /\ ~ AllFrames(meas)
  /\ Measures(OnCpu(Took(kind, meas, lat, "cpu")), AfterFrame)

\* There is no GPU to begin with: _configure_inference_backend.
StartOnCpu ==
  /\ kind = "video"
  /\ meas = Fresh("gpu")
  /\ Measures(Fresh("cpu"), "run")

\* run_video_profile: any other error is answered by the surrogate, from the start,
\* unless the job says strict_yolo.
Surrogate ==
  /\ kind = "video"
  /\ meas.backend # "surrogate"
  /\ ~ AllFrames(meas)
  /\ Measures(Fresh("surrogate"), "run")

\* Whatever goes wrong in a fusion or a matrix product is fatal, and with strict_yolo
\* in a video.
MeasureFails ==
  /\ kind = "video" => meas.backend # "surrogate" /\ ~ AllFrames(meas)
  /\ Measures(meas, "failed")

Window(lat) ==
  /\ kind = "matmul"
  /\ Len(meas.samples) < MaxSamples
  /\ Measures(Sampled(meas, lat), "run")

Finished == IF kind = "matmul" THEN meas.samples # <<>> ELSE AllFrames(meas)

(***************************************************************************)
(* It archives and passes on.                                              *)
(***************************************************************************)
Archive == CASE kind = "video" -> <<"frames", "manifest">>
             [] kind = "fusion" -> <<"video", "preview", "result">>
             [] kind = "matmul" -> <<>>

Summary(uris) ==
  [run |-> run, value |-> Aggregate(kind, meas.samples), backend |-> meas.backend,
   samples |-> meas.samples, uris |-> uris]

MeasureEnds ==
  /\ pc["compute"] = "run"
  /\ Finished
  /\ Goto("compute", "archive")
  /\ UNCHANGED <<fixed, receiver, backend, run, started, slot, meas, result, objects, attempts>>

ArchivePut ==
  /\ pc["compute"] = "archive"
  /\ \E i \in DOMAIN Archive :
       /\ objects[Archive[i]] # run
       /\ \A j \in 1..(i - 1) : objects[Archive[j]] = run
       /\ objects' = [objects EXCEPT ![Archive[i]] = run]
  /\ UNCHANGED <<fixed, receiver, backend, run, started, pc, slot, meas, result, attempts>>

ArchiveFails ==
  /\ pc["compute"] = "archive"
  /\ Archive # <<>>
  /\ Goto("compute", "failed")
  /\ UNCHANGED <<fixed, receiver, backend, run, started, slot, meas, result, objects, attempts>>

Archived_bug == TRUE
Archived == \A i \in DOMAIN Archive : objects[Archive[i]] = run

\* A matrix product names its result's object whether or not anybody writes it.
Named == IF kind = "matmul" THEN {"result"} ELSE {Archive[i] : i \in DOMAIN Archive}

ArchiveEnds ==
  /\ pc["compute"] = "archive"
  /\ Archived
  /\ result' = Summary(Named)
  /\ Goto("compute", IF direct THEN "report" ELSE "deliver")
  /\ UNCHANGED <<fixed, receiver, backend, run, started, slot, meas, objects, attempts>>

Deliver == pc["compute"] = "deliver" /\ Post("compute", "sink", "result", "idle")

(***************************************************************************)
(* The sink.  Of a matrix product it uploads the result if it can.         *)
(***************************************************************************)
SinkGets ==
  /\ Receive("sink", IF kind = "matmul" THEN "upload" ELSE "report")
  /\ UNCHANGED <<fixed, receiver, backend, run, started, meas, result, objects, attempts>>

SinkUploads ==
  /\ pc["sink"] = "upload"
  /\ objects' \in {objects, [objects EXCEPT !["result"] = run]}
  /\ Goto("sink", "report")
  /\ UNCHANGED <<fixed, receiver, backend, run, started, slot, meas, result, attempts>>

(***************************************************************************)
(* report_metric: three attempts, of which only a 5xx is repeated; a reply *)
(* that does not come raises, whether or not the metric was stored.        *)
(***************************************************************************)
Reporter == IF direct THEN "compute" ELSE "sink"
AfterReport == IF direct THEN "callback" ELSE "idle"

ReportBegins ==
  /\ pc[Reporter] = "report"
  /\ call' = [call EXCEPT ![run] = [phase |-> "begun", snap |-> Snapshot, result |-> result]]
  /\ attempts' = attempts + 1
  /\ Goto(Reporter, "reporting")
  /\ UNCHANGED <<fixed, receiver, metrics, evals, advance, baselines, bench>>
  /\ UNCHANGED <<run, started, slot, meas, result, objects>>

ReportAnswered_bug ==
  /\ pc[Reporter] = "reporting"
  /\ call[run].phase \in {"stored", "error"}
  /\ Goto(Reporter, AfterReport)
  /\ attempts' = 0
  /\ UNCHANGED <<fixed, receiver, backend, run, started, slot, meas, result, objects>>
ReportAnswered ==
  /\ pc[Reporter] = "reporting"
  /\ call[run].phase \in {"stored", "error"}
  /\ Goto(Reporter, IF call[run].phase = "stored" THEN AfterReport
                    ELSE IF attempts < 3 THEN "report" ELSE "failed")
  /\ attempts' = IF call[run].phase = "stored" THEN 0 ELSE attempts
  /\ UNCHANGED <<fixed, receiver, backend, run, started, slot, meas, result, objects>>

(***************************************************************************)
(* The user's receiver, one request at a time: ReceiverStore.put updates   *)
(* the memory and then the file, which a crash may leave half written.     *)
(* Whatever the caller does about a lost reply ends at its deadline, and   *)
(* what goes wrong is only printed.                                        *)
(***************************************************************************)
Frames_(samples) == [i \in DOMAIN samples |-> samples[i].frame]

\* ReceiverStore.get: a torn file is not JSON, and every request that needs it raises.
Known == IF receiver.memory # None THEN receiver.memory ELSE receiver.file
Torn == [status |-> "torn"]

\* _merge_result_list: of the samples with one key, the first stays.  The key is the
\* frame's index; only index 0, which is never measured, would give way to the label.
Deduped(frames, new) ==
  IF new \in {frames[i] : i \in DOMAIN frames} THEN frames ELSE Append(frames, new)

OnProgress_bug(record, frame) ==
  [status |-> "running",
   frames |-> Deduped(IF record = None THEN <<>> ELSE record.frames, frame), run |-> 0]
OnProgress(record, frame) ==
  IF record.status = "completed" THEN record
  ELSE [status |-> "running",
        frames |-> Deduped(IF record = None THEN <<>> ELSE record.frames, frame), run |-> 0]

Progress == [status |-> "running", frame |-> Last(meas.samples).frame]
Final == [status |-> "completed", frames |-> Frames_(result.samples), run |-> result.run]

Asked == CASE pc["compute"] \in {"progress", "progressing"} -> Progress
           [] pc["compute"] \in {"callback", "calling"} -> Final

\* post_json_to_url: a request that is sent is served even when its caller has
\* given up on it.
Call ==
  /\ pc["compute"] \in {"progress", "callback"}
  /\ HasCallback
  /\ receiver.up
  /\ receiver' = [receiver EXCEPT !.waiting = @ \cup {Asked}]
  /\ Goto("compute", IF pc["compute"] = "progress" THEN "progressing" ELSE "calling")
  /\ UNCHANGED <<fixed, backend, run, started, slot, meas, result, objects, attempts>>

Put ==
  /\ receiver.up /\ ~ receiver.writing
  /\ \E request \in receiver.waiting :
       receiver' = IF Known = Torn THEN [receiver EXCEPT !.waiting = @ \ {request}]
                   ELSE [receiver EXCEPT !.waiting = @ \ {request}, !.writing = TRUE,
                           !.memory = IF request.status = "completed" THEN request
                                      ELSE OnProgress(Known, request.frame)]
  /\ UNCHANGED <<fixed, backend, workers>>

PutWritten ==
  /\ receiver.writing
  /\ receiver' = [receiver EXCEPT !.file = receiver.memory, !.writing = FALSE]
  /\ UNCHANGED <<fixed, backend, workers>>

\* The reply: taken, or lost and the call repeated.
Served_bug == Asked \notin receiver.waiting
Served == ~ receiver.writing /\ Asked \notin receiver.waiting /\ Known # Torn

CallAnswered ==
  /\ \/ pc["compute"] = "progressing" /\ Served /\ Goto("compute", "run")
     \/ pc["compute"] = "progressing" /\ Goto("compute", "progress")
     \/ pc["compute"] = "calling" /\ Served /\ Goto("compute", "told")
     \/ pc["compute"] = "calling" /\ Goto("compute", "callback")
  /\ UNCHANGED <<fixed, receiver, backend, run, started, slot, meas, result, objects, attempts>>

GiveUp ==
  /\ \/ pc["compute"] \in {"progress", "progressing"} /\ Goto("compute", "run")
     \/ pc["compute"] \in {"callback", "calling"} /\ Goto("compute", "idle")
  /\ UNCHANGED <<fixed, receiver, backend, run, started, slot, meas, result, objects, attempts>>

\* A crash breaks every connection: the caller tries again.
ReceiverCrashes ==
  /\ receiver.up
  /\ \E file \in {receiver.file} \cup (IF receiver.writing THEN {receiver.memory, Torn} ELSE {}) :
       receiver' = [up |-> FALSE, memory |-> None, file |-> file, writing |-> FALSE, waiting |-> {}]
  /\ Goto("compute", CASE pc["compute"] = "progressing" -> "progress"
                       [] pc["compute"] = "calling" -> "callback"
                       [] OTHER -> pc["compute"])
  /\ UNCHANGED <<fixed, backend, run, started, slot, meas, result, objects, attempts>>

ReceiverRestarts ==
  /\ ~ receiver.up
  /\ receiver' = [receiver EXCEPT !.up = TRUE]
  /\ UNCHANGED <<fixed, backend, workers>>

(***************************************************************************)
(* The instance is stopped and started again; a handler goes on.           *)
(***************************************************************************)
StopRun ==
  /\ started
  /\ started' = FALSE
  /\ pc' = Down
  /\ slot' = Empty
  /\ meas' = Fresh("gpu")
  /\ result' = None
  /\ attempts' = 0
  /\ UNCHANGED <<fixed, receiver, backend, run, objects>>

StartRun ==
  /\ ~ started
  /\ run + 1 \in Runs
  /\ started' = TRUE
  /\ run' = run + 1
  /\ UNCHANGED <<fixed, receiver, backend, pc, slot, meas, result, objects, attempts>>

ComputeStep ==
  \/ ComputeReady
  \/ GetJob
  \/ Download
  \/ \E lat \in Latencies : Frame(lat)
  \/ \E lat \in Latencies : FrameFallsBack(lat)
  \/ StartOnCpu
  \/ Surrogate
  \/ MeasureFails
  \/ \E lat \in Latencies : Window(lat)
  \/ MeasureEnds
  \/ ArchivePut
  \/ ArchiveFails
  \/ ArchiveEnds
  \/ Deliver

SinkStep == SinkGets \/ SinkUploads

ReportStep == ReportBegins \/ ReportAnswered

CallbackStep == Call \/ CallAnswered

HandlerStep(r) ==
  \/ MetricWritten(r) /\ UNCHANGED <<fixed, workers, receiver>>
  \/ MetricFails(r) /\ UNCHANGED <<fixed, workers, receiver>>

Next ==
  \/ \E w \in Workers : Launch(w)
  \/ \E w \in Workers : Expire(w)
  \/ SourceStep
  \/ ComputeStep
  \/ SinkStep
  \/ ReportStep
  \/ CallbackStep
  \/ Put
  \/ PutWritten
  \/ GiveUp
  \/ HasCallback /\ ReceiverCrashes
  \/ HasCallback /\ ReceiverRestarts
  \/ \E r \in Runs : HandlerStep(r)
  \/ "restart" \in extras /\ StopRun
  \/ "restart" \in extras /\ StartRun
  \/ "baseline" \in extras /\ BaselineStep /\ UNCHANGED <<fixed, workers, receiver>>
  \/ "advance" \in extras /\ ReevaluateRead /\ UNCHANGED <<fixed, workers, receiver>>
  \/ ReevaluateWrite /\ UNCHANGED <<fixed, workers, receiver>>

\* The DAG starts its workers, a process that can go on does, and a deadline passes.
\* Nobody has to start the source of a compute-only order: that is the user's.
Spec ==
  /\ Init
  /\ [][Next]_vars
  /\ \A w \in Workers : WF_vars(~ (direct /\ w = "source") /\ Launch(w))
  /\ \A w \in Workers : WF_vars(Expire(w))
  /\ WF_vars(SourceStep) /\ WF_vars(ComputeStep) /\ WF_vars(SinkStep) /\ WF_vars(ReportStep)
  /\ WF_vars(GiveUp)
  /\ \A r \in Runs : WF_vars(HandlerStep(r))

(***************************************************************************)
(* Properties.                                                             *)
(***************************************************************************)
Places == {"down", "wait", "post", "serve", "ready", "download", "run", "progress", "progressing",
           "archive", "deliver", "upload", "report", "reporting", "callback", "calling", "told",
           "idle", "failed"}

Records == {None, Torn} \cup
  [status : {"running", "completed"}, frames : UNION {[1..n -> Frames] : n \in 0..(Wanted + MaxSamples)},
   run : Runs \cup {0}]

\* The values the variables take; a measurement never outgrows its job.
TypeOK ==
  /\ kind \in Kinds /\ direct \in BOOLEAN /\ formal \in BOOLEAN
  /\ run \in Runs /\ started \in BOOLEAN
  /\ pc \in [Workers -> Places]
  /\ slot \in [Workers -> {"none", "ready", "job", "result"}]
  /\ meas.at \in 1..(Wanted + MaxSamples + 1)
  /\ \A i \in DOMAIN meas.samples : meas.samples[i] \in Sample
  /\ Len(meas.samples) <= IF kind = "matmul" THEN MaxSamples ELSE MeasuredFrames
  /\ objects \in [Keys -> Runs \cup {0}]
  /\ attempts \in 0..3
  /\ receiver.memory \in Records /\ receiver.file \in Records
  /\ \A m \in metrics : m.run \in Runs /\ m.backend \in Backends

\* What a metric row says is what happened: the value is the quantile it claims to
\* be, of the frames of the job after its warm-up, each once and in order, and a
\* result that names the GPU had every frame there.  A fall back in the middle, a
\* surrogate that starts again, or a frame of the warm-up must not hide.
MetricHonest ==
  \A m \in metrics :
    /\ IsQuantile(kind, m.samples, m.value)
    /\ m.backend = "gpu" => \A i \in DOMAIN m.samples : m.samples[i].on = "gpu"
    /\ kind # "matmul" =>
         /\ Len(m.samples) = MeasuredFrames
         /\ \A i \in DOMAIN m.samples : m.samples[i].frame = FrameAt(kind, WarmupFrames + i)

\* What the metric row of a video or a fusion points at is in MinIO, written by
\* that run or a later one: an archive that failed half way, or the objects of an
\* earlier run under the same keys, never stand behind a result.
EvidenceThere ==
  kind # "matmul" => \A m \in metrics : \A k \in m.uris : objects[k] >= m.run

\* A worker that is done has a metric in the database, and so has every run that
\* the user's receiver calls completed: no error, no lost reply and no restart in
\* between makes it announce a result that the manager does not have.
ReportedBeforeDone ==
  LET stored(r) == \E m \in metrics : m.run = r
  IN  /\ pc[Reporter] \in {"callback", "calling", "told", "idle"} => stored(run)
      /\ \A record \in {receiver.memory, receiver.file} :
           record.status = "completed" => stored(record.run)

\* The receiver's progress shows a frame once, although a call whose reply is lost
\* is repeated and a surrogate measures the same frames again.
ProgressOnce ==
  receiver.memory.status = "running" =>
    \A i, j \in DOMAIN receiver.memory.frames :
      receiver.memory.frames[i] = receiver.memory.frames[j] => i = j

\* A completed record is never taken back: not by the progress of a second run, a
\* repeated call or a crash.  (A crash in the middle of a write can tear the file.)
CompletedSticks ==
  [][receiver.file.status = "completed" => receiver.file'.status \in {"completed", "torn"}]_vars

\* A final result that was acknowledged is in the file, whatever crashes: unless the
\* crash tore the file in a later put, of a request its caller had given up on.
FinalKept ==
  pc["compute"] = "told" =>
    receiver.file = Torn \/ receiver.file.status = "completed"

\* Both, of what the receiver keeps for the user.
ReceiverKeeps == ProgressOnce /\ FinalKept

\* A started run ends: with its metric reported, with a worker that exited, or by
\* a stop.  Nobody waits forever for a peer, a reply or a receiver.
Ended ==
  \/ ~ started
  \/ \E w \in Workers : pc[w] = "failed"
  \/ pc[Reporter] \in {"idle", "told"}
RunEnds == [](started => <>Ended)
=============================================================================
