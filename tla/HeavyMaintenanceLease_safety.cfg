\* Three incarnations, two pids, stalls, half-written creates, crashes and a
\* change of boot; a renewal moves a deadline before it passes.
\* Every incarnation may be over: the system really stops.
CHECK_DEADLOCK FALSE
SPECIFICATION Spec
CONSTANTS
    Proc = {p1, p2, p3}
    NoOne = NoOne
    Abandoned = Abandoned
    Stalls = TRUE
    Pid = {n1, n2}
    NoPid = NoPid
    Token = {t1, t2, t3}
    NoToken = NoToken
    NoProc = NoProc
    Renewers = {p1, p2, p3}
    StaleAfter = 2
    MaxClock = 2
    MaxBoot = 1
    TornWrites = TRUE
SYMMETRY Symmetry
CONSTRAINT BeforeExposure
INVARIANTS
    TypeOK
    ExclusiveWork
PROPERTIES
    ImplementsContract
