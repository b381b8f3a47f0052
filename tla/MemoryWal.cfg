SPECIFICATION FairSpec
CONSTANTS
    Records = {r0, r1, r2}
    Earlier = {r0}
    Purgeable = {r0, r1}
    Poison = {r2}
    MaxDay = 3
    RetentionLimit = 1
    BatchSize = 1
    BackoffBase = 2
    PollInterval = 3
    MaxCooling = 1
    MaxFailures = 1
    Faults = {"interrupted", "embedFails", "answerLost", "noVector", "unverifiable", "deleteFails", "tombstonesFail", "markerFails"}
    MaxFaults = 1
INVARIANTS
    TypeOK
    KeptUntilProjected
    PurgedStaysGone
CHECK_DEADLOCK FALSE
PROPERTIES
    ImplementsHandover
    EveryTurnIsEmbedded
