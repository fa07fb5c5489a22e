SPECIFICATION Spec
CHECK_DEADLOCK FALSE
CONSTANTS
  Managers = {"m1", "m2"}
  Main = "m1"
  Users = {"u1", "u2"}
  Own <- OwnNames
  Meta <- MetaNames
  MaxRetries = 1
  MaxLate = 1
  LLMRetries = 1
  LLMAnswers <- SampleAnswers
  Entities <- SampleEntities
  MaxPerAnswer = 4
  MaxBraced = 2
  MinConfidence = 3
  MaxEntities = 2
  MaxProcessing = 2
  ExtractCalls = {"x1", "x2"}
  LongCalls = {"x1"}
  LongDocument = 7
  ChunkConfigs <- SampleChunkConfigs
  MaxConcurrentChunks = 2
  MaxMemoryUsage = 1
  MaxResets = 1
INVARIANT CachesAgree
INVARIANT SuccessIsEffect
INVARIANT NothingLost
INVARIANT MemoryIsGivenBack
INVARIANT KeptAreBest
 
INVARIANT YearsDefeatHealing
INVARIANT OneTryAfterDeadline
PROPERTY CallsReturn
