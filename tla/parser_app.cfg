CONSTANTS
    c1 = c1
    c2 = c2
    site = site
    p1 = p1
    p2 = p2
    NoCycle = NoCycle
    NoProblem = NoProblem
    Cycles = {c1, c2}
    Sources = {site}
    Problems = {p1, p2}
    SourceOf <- MCSourceOf
SPECIFICATION FairSpec
INVARIANTS OneHolder SeenIsAccounted GracefulMeansIdle
PROPERTY CycleEnds
