\* Two destroyer events per token and rules of both selection functions.
CONSTANTS
    RuleList <- UnaryRules
    InitialStates <- UnaryStates
    MaxDestroyerEvents = 2
    Disabled = 100
    LargestAtom = 6
    StepSpecs <- MultiwaySpecs
    GenerationsOnlyGrow = TRUE
    MatchStorages = {"Main"}
    MaxEvents = 3
SPECIFICATION APISpec
INVARIANTS
    QueueIsExact
    EventsDiffer
PROPERTY ImplementsGraph
