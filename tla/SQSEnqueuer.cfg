\* Zero to three messages in chunks of two: empty, full and short last chunks;
\* ids may be missing or repeated; one retry,
\* after deduplication intervals have ended or while they last.
SPECIFICATION FairSpec
CONSTANTS
  MaxMessages = 3
  ChunkSize = 2
  Ids = {a, b, c}
  NoId = NoId
  MaxCalls = 2
  MaxIntervals = 1
INVARIANTS ResolvedMeansQueued RetryDuplicatesNothing
PROPERTIES EnqueueSettles
\* Nothing is left to do when the last call has settled.
CHECK_DEADLOCK FALSE
