CONSTANTS
    w1 = w1
    w2 = w2
    chan = chan
    url = url
    host1 = host1
    host2 = host2
    NoOwner = NoOwner
    NoJob = NoJob
    NoTarget = NoTarget
    Workers = {w1, w2}
    Jobs = {1, 2}
    Targets = {chan, url}
    Owners = {host1, host2}
    OwnerOf <- MCOwnerOf
    TriggerOf <- MCTriggerOf
    FaultKinds = {"crash", "shutdown", "store", "hang"}
    MaxFaults = 2
SPECIFICATION Spec
SYMMETRY Symmetry
INVARIANTS OneWorkerPerJob AloneUntilFault TerminalMatchesSources
PROPERTIES DoneIsKept OutcomeIsFinal ImplementsLifecycle
CHECK_DEADLOCK FALSE
