SPECIFICATION Spec
CONSTANTS
    m1 = m1
    m2 = m2
    m3 = m3
    w1 = w1
    first = m1
    Master <- ThreeMasters
    Worker <- OneWorker
    DexChoices = {TRUE}
    Tries <- FewTries
    OuterTries = 2
    MaxRuns = 1
INVARIANT AllAPIServersUsed
\* The operator stops after MaxRuns commands.
CHECK_DEADLOCK FALSE
