CONSTANTS
    Ids <- Three
    Kind <- MotionsAndTell
    FirstIndex = 1
    MaxRuns = 1
    MaxQueries = 2
    Faults <- AllFaults
SPECIFICATION FairSpec
INVARIANTS RespondedOnce NobodyForgotten FinishedMeansDone PollingAlive
PROPERTY EventuallyResponded
