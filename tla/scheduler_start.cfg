CONSTANTS
    Replicas = {r1, r2}
    Channels = {1, 2}
    MaxSlot = 1
    MaxFaults = 1
SPECIFICATION FairSpec
INVARIANT BootstrapCovers
PROPERTIES RunningUndisturbed FailedBootstrapRepeats
