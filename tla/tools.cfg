CONSTANTS
    MaxText = 6
    MaxRunes = 3
    Overlap = 1
    ChunkSize = 4
    FastOverlap = 2
    Requests = {r1, r2, r3, r4}
    Keys = {k1, k2}
    NoBucket = NoBucket
    Rate = 1
    Burst = 2
    MaxTime = 2
    root = root
    sub = sub
    subsub = subsub
    leaf = leaf
    vendor = vendor
    package = package
    Dirs = {root, sub, subsub, leaf, vendor, package}
    Roots = {root, sub}
    Ignored = {vendor}
    Parent <- ParentDir
    NoRoot = NoRoot
    MaxSteps = 4
    target = target
    imported = imported
    other = other
    i1 = i1
    i2 = i2
    Chunks = {c1, c2, c3}
    Paths = {target, imported, other}
    Target = target
    Imports = {i1, i2}
    Symbols = {s1}
    Exact <- ExactPath
    Loose <- LoosePaths
    MaxContextTokens = 3
    MaxUsages = 2
    Clients = {q1, v1, v2}
    Checks = {v1, v2}
    Files = {f1}
    MaxServers = 2
    Env = {"exit", "idle", "cancel", "start", "ask"}
SPECIFICATION RequestsSpec
SYMMETRY CheckSymmetry
INVARIANTS EveryTextServed RateKept EveryDirectoryWatched ContextKept
    OneServer InitializeFirst OwnAnswer NoStrandedCall
CHECK_DEADLOCK FALSE
