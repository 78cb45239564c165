CONSTANTS
    Queued = {"MOVJ", "JUMP", "Home", "Jog", "Circle", "Wait", "Trig", "IO"}
    Direct = {"MOVL", "PTPOther", "Arc", "Jog", "Leveling", "Effector", "Start", "Stop", "ForceStop", "Clear"}
    QueueSize = 2
    IndexSpan = 64
    MaxPackets = 4

SPECIFICATION Spec
INVARIANTS IndexHonest PlanFresh
PROPERTIES StartsAfterEnd QueueDrains
CHECK_DEADLOCK FALSE
