\* A single history with every limit; the matcher always has threads at hand.
CONSTANTS
    RuleList <- PathRules
    InitialStates <- SinglewayStates
    MaxDestroyerEvents = 1
    Disabled = 100
    LargestAtom = 9
    StepSpecs <- SinglewaySpecs
    GenerationsOnlyGrow = TRUE
    MatchStorages = {"NewMatches"}
    MaxEvents = 4
SPECIFICATION APISpec
INVARIANTS
    TypeOK
    QueueIsExact
    CompleteMeansFixedPoint
    MaxCompleteGenerationRight
    CountersAgree
    TensorsReadBack
    ResultIsTrue
PROPERTIES
    EventsRespectFinalLimits
    EventsWithinGenerations
    NewAtomsAreNew
