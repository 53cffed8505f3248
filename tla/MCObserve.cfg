\* A consumer with its three watchers, two shadows of a graduation, a flight recorder of
\* three events, and two incident hooks on two streams, one at a time.
SPECIFICATION Spec
CONSTANTS
  Feeders = {"watch", "canary", "recorders", "handlers"}
  Watched = {"slow", "soft", "behavior"}
  MaxTip = 3
  MaxDelay = 2
  MaxAckPending = 2
  PendingThreshold = 3
  LagThreshold = 2
  AckPendingLimit = 2
  SustainFor = 2
  StallAfter = 2
  RisingWindows = 2
  Latencies = {1, 3}
  Window = 1
  Warmup = 2
  MinSamples = 2
  LatencyFactor = 3
  MaxSamples = 2
  Shadows = {s1, s2}
  StartRate = 1
  Step = 2
  MaxRate = 6
  FullRate = 6
  EvalWindow = 2
  MaxMismatch = 25
  MaxInFlight = 1
  MaxCompared = 4
  MaxOperatorCalls = 2
  Kinds = {"supervisor", "stall", "dlq", "shadow", "reconnect"}
  Capacity = 3
  Hooks = {h1, h2}
  Anomaly = h1
  Streams = {A, B}
  Home = A
  LastSeq = 3
  CaptureWindow = 2
  MaxCapsules = 2
  MaxDeletes = 1
INVARIANTS TypeOK AlarmsAreSustained RampIsPaced RingIsRecent 
 
CHECK_DEADLOCK FALSE
