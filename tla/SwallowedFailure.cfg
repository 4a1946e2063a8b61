SPECIFICATION Spec
CONSTANTS
    MaxEvents = 2
    ChanSize = 1
INVARIANT FailureIsReported
