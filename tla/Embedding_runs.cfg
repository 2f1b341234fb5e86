\* A re-embed run among stores, edits, deletions, settings and restarts.
SPECIFICATION MCSpec
CONSTANTS
  e1 = e1 e2 = e2 e3 = e3
  EntryIds = {e1, e2, e3}
  Texts <- TwoTexts
  Providers <- AllProviders
  EnvDim = 1
  EnvChunking <- OneChunk
  Chunkings <- TeamChunkings
  PageSize = 1
  MaxChanges = 3
  None = None
INVARIANTS TypeOK ChunksTile
PROPERTIES ReportTrue
CHECK_DEADLOCK FALSE
