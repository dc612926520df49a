\* A white-space base item name passes Validate and is refused by the database.
SPECIFICATION Spec
CONSTANTS
    Survey <- OneItem
    Replies <- BlankBase
    Limits = {0}
    Refreshes = {FALSE}
    MaxRuns = 1
INVARIANT ValidateComesFirst
CHECK_DEADLOCK FALSE
