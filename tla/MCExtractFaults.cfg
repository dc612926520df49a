\* Two short items, three starts, crashes and wipes anywhere.
SPECIFICATION FairSpec
CONSTANTS
    Survey <- TwoItems
    Replies <- FaultReplies
    Limits <- FlagValues
    Refreshes = {FALSE, TRUE}
    MaxRuns = 3
INVARIANTS
    TypeOK
    Reconciles
    WholeItems
PROPERTIES
    KeepsLedger
    EveryRunEnds
CHECK_DEADLOCK FALSE
