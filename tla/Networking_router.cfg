SPECIFICATION Spec
CONSTANTS
    Rules = 2
    MaxRuns = 2
INVARIANT RouterIsWired
