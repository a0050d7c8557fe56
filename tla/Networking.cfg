\* Three rules stand for the twelve: an earlier process has left any of them.
SPECIFICATION Spec
CONSTANTS
    Rules = 3
    MaxRuns = 4
INVARIANTS IInv NoDuplicates SetupIsWhole
PROPERTY Idempotent
