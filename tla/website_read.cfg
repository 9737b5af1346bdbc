CONSTANTS
    MaxSamples = 2
    Interval <- MCInterval
SPECIFICATION Spec
INVARIANTS ReturnedIsWhole ErrorHasCause
PROPERTIES RateIsBounded ShutdownEnds
