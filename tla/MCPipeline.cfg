SPECIFICATION Spec
CONSTANTS
  Latencies = {1, 3}
  FrameCount = 3
  FrameStride = 2
  WarmupFrames = 1
  MeasuredFrames = 2
  Readable = 2
  MaxSamples = 2
  Runs = {1, 2}
  Benches = {b1, b2}
  b1 = b1
  b2 = b2
  BaselineValues = {1}
  Goal = 0
  MaxRows = 2
  Scenarios <- MCScenarios
INVARIANTS TypeOK MetricHonest EvidenceThere ReportedBeforeDone ReceiverKeeps
PROPERTIES CompletedSticks RunEnds
CHECK_DEADLOCK FALSE
