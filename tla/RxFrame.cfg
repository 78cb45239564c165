CONSTANTS
    Scripts <- MixedScripts
    Crc16 <- MCCrc16
SPECIFICATION Spec
INVARIANTS PromptAndExact
CHECK_DEADLOCK FALSE
