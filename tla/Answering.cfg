CONSTANTS
  MaxTokens = 2
  MaxLines = 4
  Files <- MCFiles
  MaxPages = 2
  EmbedBatchSize = 3
  ProviderBatchSize = 2
  CorpusAttempts = 2
  QuestionAttempts = 2
  MaxRuns = 2
  K = 3
  MaxSources = 2
  Budget = 10
  Scores = {0, 1, 2}
  MaxCorpus = 4
SPECIFICATION Spec
INVARIANTS
  BlocksFollowFile
  AnchorsAreExact
  SectionsDoNotBleed
  ChunksFit
  VectorsAreOwn
  OnlyRemainderIsAsked
  AnswerIsGated
  BestSourcesFit
  GroundedMeansCited
\* A file is read once and asked about once.
CHECK_DEADLOCK FALSE
