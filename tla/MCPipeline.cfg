\* Two extracts and a discover at once, killed anywhere, and resets.
SPECIFICATION Spec
CONSTANTS
    Extracts = {"e1", "e2"}
    Slices <- OneItem
    Whole <- TwoItems
    MaxRuns = 3
INVARIANTS
    OneLoader
PROPERTIES
    ReconciledIsTrue
CHECK_DEADLOCK FALSE
