\* A section whose first page holds no item.
SPECIFICATION Spec
CONSTANTS
    SectionStarts = {1, 2}
    PageCount = 3
    Readings <- ThreePages
    Ranges <- SliceOrAll
    MaxRuns = 1
    Surveys <- AllSurveys
    SecondReadings <- SomeReadings
INVARIANT NeverCrossesSections
CHECK_DEADLOCK FALSE
