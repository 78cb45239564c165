CONSTANTS
    Calls = {1, 2, 3, 4}
    NoCall = NoCall
SPECIFICATION FairSpec
INVARIANTS OneProbe OpenIsOwned
PROPERTY UnplugNoticed
