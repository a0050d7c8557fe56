SPECIFICATION Spec
CONSTANTS
    Masters0 = 1
    Nodes0 = 2
    MaxIndex = 4
    MaxAmount = 2
    MaxRuns = 2
INVARIANTS DestroyLeavesNoServer
\* no command after a destroy, and no more than MaxRuns
CHECK_DEADLOCK FALSE
