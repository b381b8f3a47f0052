\* Two entrants that call again and again, with crashes, restarts and stalls
\* unrestricted: a race of an owner, a thief and a successor needs two, since
\* the owner that left may be the successor.  Three tokens are always enough.
SPECIFICATION FairSpec
CONSTANTS
    Entrant = {p1, p2}
    Token = {t1, t2, t3}
    NoToken = NoToken
    NoOne = NoOne
    Abandoned = Abandoned
    MaxAttempts = 2
    Stalls = TRUE
INVARIANTS
    TypeOK
    OverlapNeedsStall
PROPERTIES
    OnlyStaleFilesAreStolen
    ImplementsMutex
    AbandonedIsReclaimed
