CONSTANTS
    s1 = s1
    s2 = s2
    Subs = {s1, s2}
    Messages = {m1}
    Signals = {p1}
    Pulses = {p1}
    Wants <- MCWants
    MaxRetries = 2
    Faults = {"replay", "bench", "age", "unreadable", "cursorFails", "stateFails", "unknown", "restart", "succession"}
    MaxFaults = 1
SPECIFICATION FairSpec
PROPERTY NextFlushReincludes
CHECK_DEADLOCK FALSE
