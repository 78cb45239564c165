CONSTANTS
    Reqs <- MCReqs
    Keys <- MCKeys
    KeyOf <- MCKeyOf
    Kind <- MCKind
    None = None
    ListMax = 2
    DefaultResend = 1
    ResendLimits = {0}
SPECIFICATION FairSpec
INVARIANTS CallsAccounted StoppedMeansIdle KeyOrder ResendBudget LoopSendsThose
PROPERTY PortSpec EventuallyAnswered
