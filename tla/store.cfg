CONSTANTS
    r1 = r1  r2 = r2  r3 = r3
    p1 = p1  p2 = p2
    c1 = c1  c2 = c2
    t1 = t1  t2 = t2
    Records = {r1, r2, r3}
    Paths = {p1, p2}
    PathOf <- MCPathOf
    Clients = {c1, c2}
    Scope <- MCDisjoint
    MaxVersion = 2
    Failing = {c2}
    Terms = {t1, t2}
    Tokens <- MCTokens
    projA = projA  projB = projB
    Documents = {r1, r2, r3}
    ProjectOf <- MCProjectOf
    projectIDs <- MCBoth
    topK = 1
    Priority <- MCPriority
    Boost <- MCBoost
    lexicalWeight = 3
    FetchMultiplier = 1
    Expanded = 2
    Similarities <- MCSimilarities
    MaxScore = 1
    MaxChanges = 2
SPECIFICATION StoreSpec
INVARIANTS Findable  StatisticsExact 
    AnswerSound  ServedInFull
CHECK_DEADLOCK FALSE
