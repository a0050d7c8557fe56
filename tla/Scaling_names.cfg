SPECIFICATION Spec
CONSTANTS
    Masters0 = 1
    Nodes0 = 9
    MaxIndex = 11
    MaxAmount = 1
    MaxRuns = 2
INVARIANTS NamesUnique
\* no command after a destroy, and no more than MaxRuns
CHECK_DEADLOCK FALSE
