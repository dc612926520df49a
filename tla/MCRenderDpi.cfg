\* A page that is too big at 300 dpi and fits at 150.
SPECIFICATION Spec
CONSTANTS
    Pages = {1, 2}
    Resolutions = {150, 300}
    Suffixes = {"5"}
    Fits <- FitsAt
    MaxRuns = 2
INVARIANTS
    LowerDpiHelps
CHECK_DEADLOCK FALSE
