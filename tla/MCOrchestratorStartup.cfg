SPECIFICATION StartupSpec
CONSTANTS
  p1 = p1
  p2 = p2
  p3 = p3
  NilPipeline = NilPipeline
  ToAdd <- ThreePipelines
  NumWorkers = 3
  CoordSize = 2
  SelectSize = 1
  LoadBalancing = "least_busy"
INVARIANT PrivatePipelines
CHECK_DEADLOCK FALSE
