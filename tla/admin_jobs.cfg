CONSTANTS
    Clients = {1, 2}
    Actors = {1, 2}
    Wishes <- MCWishes
    AllowedChannels = {"news"}
    DefaultLimit = 1
    MaxItems = 2
    MaxURLs = 2
    MaxFaults = 2
SPECIFICATION Spec
INVARIANTS AnswersAgree AcceptedIsWanted StoredIsRunnable AcceptedIsNotified
PROPERTIES RetriedIsAnswered
CHECK_DEADLOCK FALSE
