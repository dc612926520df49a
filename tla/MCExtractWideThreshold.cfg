\* A threshold wider than smallint is stored modulo 65536.
SPECIFICATION Spec
CONSTANTS
    Survey <- OneItem
    Replies <- WideThreshold
    Limits = {0}
    Refreshes = {FALSE}
    MaxRuns = 1
INVARIANT NeverBentToFit
CHECK_DEADLOCK FALSE
