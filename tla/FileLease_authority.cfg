\* The authority lease: refuse what cannot be judged, liveness by age.
SPECIFICATION FairSpec
CONSTANTS
    Proc = {p1, p2}
    NoOne = NoOne
    Abandoned = Abandoned
    Stalls = TRUE
    OnCorrupt = "refuse"
    Liveness = "age"
    Ttl = 1
    TornWrites = TRUE
INVARIANTS
    TypeOK
    SoleAuthority
PROPERTIES
    ImplementsContract
    DisplacedStops
    DeadHolderIsSucceeded
