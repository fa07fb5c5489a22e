SPECIFICATION Spec
CHECK_DEADLOCK FALSE
CONSTANTS
  Docs = {d1, d2, d3}
  Extractions = 1
  Storers = 2
  Durations = {5, 8}
  StageCalls = {c1}
  Parts = {"entity", "citation", "topic"}
  StageConfigs = {{"entity", "topic"}, {"entity", "citation", "topic"}}
  Available = {"entity", "topic"}
  SystemWorkers = {w1, w2}
  MaxStarts = 2
  Subscribers = {s1, s2}
  Submitters = {r1}
  MaxTicks = 1
  EventCapacity = 1
  ListenerCapacity = 1
  EnabledSubsystems <- SubsystemOrder
  p1 = p1
  p2 = p2
  p3 = p3
  NilPipeline = NilPipeline
  ToAdd <- ThreePipelines
  NumWorkers = 3
  CoordSize = 2
  SelectSize = 1
  LoadBalancing = "round_robin"
INVARIANT MetricsTruthful
INVARIANT StagesSound
INVARIANT EveryEventOnce
INVARIANT LifecyclesSound
INVARIANT PipelinesAsAdded
INVARIANT FairShares
PROPERTY StartReturns
PROPERTY NobodyWaits
PROPERTY StopsEnd
