CONSTANTS
    Writers = {w1}
    Consumers = {k1}
    wakeA = wakeA
    wakeB = wakeB
    digest = digest
    Wakes = {wakeA, wakeB}
    Ids = {digest}
    IdOf <- MCIdOf
    MaxOwner = 2
    None = None
    Gone = Gone
    Torn = Torn
    Faults = {"crash", "writeFails", "lateReturn"}
    MaxFaults = 1
SPECIFICATION FairSpec
INVARIANTS
    TypeOK
    OneInside
    ShownOnce
    LettersAreForeign
PROPERTIES
    ImplementsHandover
    EveryEntryIsRead
CHECK_DEADLOCK FALSE
