\* Three items that share base item, spell and attuner; every kind of child row,
\* duplicates, and replies that break one rule each.
SPECIFICATION Spec
CONSTANTS
    Survey <- ThreeItems
    Replies <- CatalogReplies
    Limits = {0}
    Refreshes = {FALSE}
    MaxRuns = 1
INVARIANTS
    NoOrphanReferences
    FirstStatedWins
    ReportIsTrue
    ItemChecksMirrored
    UniqueGrain
    AttunableAsSaid
    FoundAsSaid
    LatestKindWins
CHECK_DEADLOCK FALSE
