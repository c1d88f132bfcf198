CONSTANTS
    Files = {f1}
    Watched = {f1}
    Indexers = {w}
    Workers = {w}
    MaxVersion = 3
    ChunkCount <- MCChunkCount
    BatchLimit = 3
    Env = {"watch"}
SPECIFICATION Spec
INVARIANTS GhostFree
