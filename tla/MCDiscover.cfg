\* The two entry points one after the other: every reading and order of arrival,
\* slices, failures and crashes.
SPECIFICATION FairSpec
CONSTANTS
    SectionStarts = {1, 2}
    PageCount = 3
    Readings <- ThreePages
    Ranges <- SliceOrAll
    MaxRuns = 3
    Surveys <- AllSurveys
    SecondReadings <- SomeReadings
INVARIANTS
    StitchedInOrder
    TextConserved
    CrossingNeedsEmptyStart
    CleanMeansComplete
    ArtifactsAgree
    CountsAreItems
    RelabelLosesNothing
PROPERTIES
    EveryRunEnds
CHECK_DEADLOCK FALSE
