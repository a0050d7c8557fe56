SPECIFICATION FairSpec
CONSTANTS
    m1 = m1
    m2 = m2
    m3 = m3
    m4 = m4
    m5 = m5
    w1 = w1
    N = 5
    Masters <- FiveMasters
    Worker <- OneWorker
INVARIANTS IInv MajorityRuns FinishedIsWhole
PROPERTIES EveryHostJoins SerialGrowth
\* The script ends, or waits for an etcd that never answers again.
CHECK_DEADLOCK FALSE
