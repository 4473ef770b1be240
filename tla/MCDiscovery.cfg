CONSTANTS
    Request <- MCRequest
    Signature <- MCSignature
    Resource <- MCResource
    Noise <- MCNoise
    Second = 2
    PollInterval = 2
    SafetyLag = 1
    MaxSignatures = 2
    MaxTime = 6
    MaxFaults = 2
SPECIFICATION Spec
CHECK_DEADLOCK FALSE
INVARIANTS
    CountedOnce
    NothingSkipped
