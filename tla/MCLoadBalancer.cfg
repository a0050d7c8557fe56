SPECIFICATION FairSpec
CONSTANTS
    m1 = m1
    m2 = m2
    m3 = m3
    w1 = w1
    first = m1
    Master <- ThreeMasters
    Worker <- OneWorker
    DexChoices = {TRUE, FALSE}
    Tries <- FewTries
    OuterTries = 2
    MaxRuns = 3
INVARIANTS IInv BuiltIsWhole BuiltAnswers RemovedIsGone NeverWaitsInVain
PROPERTIES APIPoolSpec EveryCommandEnds EveryStepCounts
\* The operator stops after MaxRuns commands.
CHECK_DEADLOCK FALSE
