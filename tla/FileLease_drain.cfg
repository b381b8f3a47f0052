\* The drain lock: reclaim what cannot be judged, liveness by pid.
SPECIFICATION FairSpec
CONSTANTS
    Proc = {p1, p2}
    NoOne = NoOne
    Abandoned = Abandoned
    Stalls = TRUE
    OnCorrupt = "reclaim"
    Liveness = "pid"
    Ttl = 1
    TornWrites = TRUE
INVARIANTS
    SoleDrainUnlessExposed
PROPERTIES
    DeadFileIsReclaimed
