SPECIFICATION Spec
CONSTANTS
    Masters0 = 2
    Nodes0 = 1
    MaxIndex = 4
    MaxAmount = 2
    MaxRuns = 3
INVARIANTS IInv NamesUnique ConfigCounts PoolLive
PROPERTIES ServerGoesLast
\* no command after a destroy, and no more than MaxRuns
CHECK_DEADLOCK FALSE
