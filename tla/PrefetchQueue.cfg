\* Accesses to one page; two blocks of another page fit in
\* pfqMissingTranslation, so that only pfq overflows.
SPECIFICATION FairSpec
CONSTANTS
    Addr = {0, 1, 4, 5}
    Page <- MCPage
    Demand = {0, 1}
    QueueSize = 2
    HasTLB = TRUE
    CacheSnoop = FALSE
    ThrottleControlPct = 60
    MaxCandidates = 2
    NumMshrs = 4
    DemandReserve = 1
    WriteBuffers = 1
INVARIANTS
    TypeOK
    QueuedOnce
    TranslationFindsPacket
    SendScheduled
PROPERTIES
    IssueKeepsTheRest
    NoLostWakeup
    ReadyPacketLeaves
