\* One history; the number of threads differs between an aborted call and its retry.
CONSTANTS
    RuleList <- TwoLoopRules
    InitialStates <- NamingStates
    MaxDestroyerEvents = 1
    Disabled = 100
    LargestAtom = 100
    StepSpecs <- LoopSpecs
    GenerationsOnlyGrow = TRUE
    MatchStorages = {"Main", "NewMatches"}
    MaxEvents = 3
SPECIFICATION Spec
INVARIANT DestroyersWithinMaximum
