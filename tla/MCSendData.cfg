SPECIFICATION Spec
CONSTANTS
    Size = 3
    Cap = 2
INVARIANT
    CompletedMeansSent
