CONSTANTS
    Files = {f1, f2}
    Watched = {f1, f2}
    Indexers = {w}
    Workers = {w}
    MaxVersion = 2
    ChunkCount <- MCChunkCount2
    BatchLimit = 3
    Env = {}
SPECIFICATION FairSpec
INVARIANTS FullyIndexedIsComplete
PROPERTIES Converges CompletedMeansIndexed
