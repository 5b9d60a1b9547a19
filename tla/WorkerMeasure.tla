----------------------------- MODULE WorkerMeasure -----------------------------
(***************************************************************************)
(* What a compute worker measures (src/workers/.../video_core.py,          *)
(* fusion_core.py, matmul's compute_main.py): which frames are warmed up   *)
(* and which are measured, on which backend each of them really ran, which *)
(* backend the result names, and how the samples become one value.         *)
(*                                                                         *)
(* A measurement is a record: the position in the frame list, the samples  *)
(* taken, and the backend of the next frame, which is also the one the     *)
(* result will name.  Values are scaled by 10, so that the interpolation   *)
(* of the P90 stays in the integers.                                       *)
(***************************************************************************)
EXTENDS Naturals, Sequences, FiniteSets, SequencesExt

CONSTANTS
  Latencies,    \* what one frame or sample may take
  FrameCount,   \* of the job; a video reads 0 as 1, a fusion as its default
  FrameStride, WarmupFrames, MeasuredFrames,
  Readable,     \* bound: frame pairs the two input videos really have
  MaxSamples    \* of the observation window; its minimum is 1

\* A job warms up, as every profile says: frame 0 is then never measured in a video.
ASSUME JobAssumption ==
  /\ Latencies \subseteq Nat
  /\ {FrameCount, FrameStride, WarmupFrames, MeasuredFrames, Readable, MaxSamples}
       \subseteq Nat \ {0}

Kinds == {"video", "fusion", "matmul"}
Backends == {"gpu", "cpu", "surrogate"}
Frames == {i * FrameStride : i \in 0..(WarmupFrames + MeasuredFrames)}
Sample == [frame : Frames, lat : Latencies, on : Backends]
Measurement == [at : 1..(WarmupFrames + MeasuredFrames + MaxSamples),
                samples : UNION {[1..n -> Sample] : n \in 0..(MeasuredFrames + MaxSamples)},
                backend : Backends]

Fresh(backend) == [at |-> 1, samples |-> <<>>, backend |-> backend]

Least(a, b) == IF a < b THEN a ELSE b
Most(a, b) == IF a < b THEN b ELSE a

(***************************************************************************)
(* The frames.  range(0, frame_count, stride), padded until it is long     *)
(* enough; a fusion reads pairs one after the other and pads with the      *)
(* first (pairs[len(pairs) % len(pairs)] is pairs[0]).                     *)
(***************************************************************************)
Wanted == WarmupFrames + MeasuredFrames

VideoFrames ==
  LET ranged == (Most(FrameCount, 1) + FrameStride - 1) \div FrameStride
  IN  [i \in 1..Most(ranged, Wanted) |-> (i - 1) * FrameStride]

PairsRead ==
  LET strides == (Least(FrameCount, Readable) + FrameStride - 1) \div FrameStride
  IN  [i \in 1..Least(Wanted, strides) |-> (i - 1) * FrameStride]

FusionFrames ==
  [i \in 1..Wanted |-> IF i <= Len(PairsRead) THEN PairsRead[i] ELSE PairsRead[1]]

FrameAt(kind, i) == IF kind = "video" THEN VideoFrames[i] ELSE FusionFrames[i]

Warming_bug(m) == m.at < WarmupFrames
Warming(m) == m.at <= WarmupFrames
AllFrames(m) == m.at > Wanted

(***************************************************************************)
(* One frame.  A frame of the warm-up is run and forgotten.                *)
(***************************************************************************)
Took(kind, m, lat, on) ==
  [m EXCEPT !.at = @ + 1,
            !.samples = IF Warming(m) THEN @
                        ELSE Append(@, [frame |-> FrameAt(kind, m.at), lat |-> lat, on |-> on])]

\* _detect_frame_with_backend: an error on the GPU is answered by the CPU, for
\* this frame and, because the caller keeps the information, for all that follow.
OnCpu_bug(m) == m
OnCpu(m) == [m EXCEPT !.backend = "cpu"]

\* One turn of the observation window: the seed, not a frame, names the sample.
Sampled(m, lat) ==
  [m EXCEPT !.at = @ + 1, !.samples = Append(@, [frame |-> 0, lat |-> lat, on |-> m.backend])]

(***************************************************************************)
(* One value.  percentile(values, 0.90) interpolates between two order     *)
(* statistics; the window of the matrix product reports its median.        *)
(***************************************************************************)
\* sorted: a permutation after which no value is below an earlier one
Ranking(samples) ==
  LET D == DOMAIN samples
  IN  CHOOSE p \in [D -> D] :
        /\ \A i, j \in D : p[i] = p[j] => i = j
        /\ \A i, j \in D : i <= j => samples[p[i]].lat <= samples[p[j]].lat

Ordered(samples) == [i \in DOMAIN samples |-> samples[Ranking(samples)[i]].lat]

Percentile90(samples) ==
  LET ordered == Ordered(samples)
      rank == (Len(samples) - 1) * 9
      lower == rank \div 10
      upper == (rank + 9) \div 10
      weight == rank % 10
  IN  IF samples = <<>> THEN 0
      ELSE ordered[lower + 1] * (10 - weight) + ordered[upper + 1] * weight

Median(samples) ==
  LET ordered == Ordered(samples)
      n == Len(samples)
  IN  IF n % 2 = 1 THEN 10 * ordered[(n + 1) \div 2]
      ELSE 5 * (ordered[n \div 2] + ordered[n \div 2 + 1])

Aggregate(kind, samples) ==
  IF kind = "matmul" THEN Median(samples) ELSE Percentile90(samples)

(***************************************************************************)
(* The definition the values are compared with: a number with so many      *)
(* samples at or below it and so many at or above it.                      *)
(***************************************************************************)
AtMost(samples, v) == Cardinality({i \in DOMAIN samples : 10 * samples[i].lat <= v})
AtLeast(samples, v) == Cardinality({i \in DOMAIN samples : 10 * samples[i].lat >= v})

IsQuantile(kind, samples, v) ==
  LET n == Len(samples)
  IN  IF kind = "matmul" THEN /\ 2 * AtMost(samples, v) >= n
                              /\ 2 * AtLeast(samples, v) >= n
      ELSE /\ AtMost(samples, v) >= 1 + ((n - 1) * 9) \div 10
           /\ n - AtLeast(samples, v) <= 1 + ((n - 1) * 9) \div 10
=============================================================================
