\* Two incarnations that may share a pid, within a boot or over two, with
\* half-written creates; time may pass once, or never.
\* Every incarnation may be over: the system really stops.
CHECK_DEADLOCK FALSE
SPECIFICATION FairSpec
CONSTANTS
    Proc = {p1, p2}
    NoOne = NoOne
    Abandoned = Abandoned
    Stalls = FALSE
    Pid = {n1, n2}
    NoPid = NoPid
    Token = {t1, t2, t3}
    NoToken = NoToken
    NoProc = NoProc
    Renewers = {p1}
    StaleAfter = 1
    MaxClock = 1
    MaxBoot = 1
    TornWrites = TRUE
PROPERTIES
    DeadLeaseIsRecovered
    LapsedLeaseIsRecovered
