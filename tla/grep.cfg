CONSTANTS
    Files = {f1, f2}
    Dirs = {d1}
    Workers = {w1, w2}
    Lines = {1, 2}
    PathsCap = 1
    MaxMatches = 3
    Deadline = TRUE
SPECIFICATION FairSpec
INVARIANTS NothingDropped SoundAnswer
PROPERTIES NoLeak
CHECK_DEADLOCK FALSE
