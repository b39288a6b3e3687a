\* Three blocks of another page: one more than pfqMissingTranslation holds.
SPECIFICATION FairSpec
CONSTANTS
    Addr = {0, 4, 5, 6}
    Page <- MCPage
    Demand = {0}
    QueueSize = 2
    HasTLB = TRUE
    CacheSnoop = FALSE
    ThrottleControlPct = 0
    MaxCandidates = 2
    NumMshrs = 2
    DemandReserve = 0
    WriteBuffers = 1
INVARIANTS
    TranslationFindsPacket
