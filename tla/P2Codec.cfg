CONSTANTS
    Types = {"Magician", "MagicianLite", "MagicBox", "M1", "VirtualLite"}
    MaxCalls = 2
SPECIFICATION Spec
INVARIANTS NamedAsAsked ReadBack ReadsInside Understood
CHECK_DEADLOCK FALSE
