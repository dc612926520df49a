\* Calls at two resolutions with two versions of the converter, killed anywhere.
SPECIFICATION Spec
CONSTANTS
    Pages = {1, 2}
    Resolutions = {150, 300}
    Suffixes = {"5", "05"}
    Fits <- FitsAt
    MaxRuns = 4
INVARIANTS
    ImagesWhole
    ReturnedPagesFit
CHECK_DEADLOCK FALSE
