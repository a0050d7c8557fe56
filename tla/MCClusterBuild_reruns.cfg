SPECIFICATION FairSpec
CONSTANTS
    m1 = m1
    m2 = m2
    m3 = m3
    w1 = w1
    w2 = w2
    first = m1
    Master <- OneMaster
    Worker <- OneWorker
    MaxRuns = 3
PROPERTY EveryCommandEnds
\* The operator stops after MaxRuns commands.
CHECK_DEADLOCK FALSE
