CONSTANTS
    Files = {f1}
    Watched = {f1}
    Indexers = {w}
    Workers = {w}
    MaxVersion = 2
    ChunkCount <- MCChunkCount2
    BatchLimit = 3
    Env = {"watch", "clear", "crash", "query", "insert", "embed", "panic", "scan"}
SPECIFICATION Spec
INVARIANTS TypeOK StampedFresh
