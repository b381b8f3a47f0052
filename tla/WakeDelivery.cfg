CONSTANTS
    s1 = s1
    s2 = s2
    Subs = {s1, s2}
    Messages = {m1}
    Signals = {p1}
    Pulses = {p1}
    Wants <- MCWants
    MaxRetries = 2
    Faults = {"replay", "bench", "age", "unreadable", "cursorFails", "stateFails", "unknown", "restart", "succession"}
    MaxFaults = 2
SPECIFICATION FairSpec
INVARIANTS
    TypeOK
    OneDeliveryOwner
    OnePrompt
PROPERTIES
    ImplementsHandover
    EveryWakeIsSettled
CHECK_DEADLOCK FALSE
