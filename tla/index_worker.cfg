CONSTANTS
    Files = {f1, f2}
    Watched = {f1, f2}
    Indexers = {w}
    Workers = {w}
    MaxVersion = 2
    ChunkCount <- MCChunkCount2
    BatchLimit = 3
    Env = {"panic", "scan", "revert"}
SPECIFICATION Spec
INVARIANTS NoOrphanChunks SettledStatus
