CONSTANTS
    MaxSamples = 2
    Interval <- MCInterval
SPECIFICATION Spec
PROPERTY RequestsAreSpaced
