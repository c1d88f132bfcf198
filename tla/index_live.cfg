CONSTANTS
    Files = {f1, f2}
    Watched = {f1}
    Indexers = {}
    Workers = {}
    MaxVersion = 3
    ChunkCount <- MCChunkCount
    BatchLimit = 3
    Env = {"watch", "unseen"}
SPECIFICATION LiveSpec
PROPERTIES LiveConverges
CHECK_DEADLOCK FALSE
