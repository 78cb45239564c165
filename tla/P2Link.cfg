CONSTANTS
    Reqs <- MCReqs
    Keys <- MCKeys
    KeyOf <- MCKeyOf
    Kind <- MCKind
    None = None
    ListMax = 2
    DefaultResend = 0
    ResendLimits = {}
SPECIFICATION LinkSpec
INVARIANT RepliesBacked
