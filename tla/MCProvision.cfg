\* All headers of three files, two calls, failures and wipes between them.
SPECIFICATION FairSpec
CONSTANTS
    Files <- ThreeFiles
    Headers <- AllHeaders
    MaxRuns = 2
INVARIANTS
    TypeOK
    DependenciesFirst
    CycleMeansKnot
PROPERTIES
    AllOrNothing
    CallReturns
CHECK_DEADLOCK FALSE
