\* A multihistory is asked for limits of the final state, without a time constraint.
CONSTANTS
    RuleList <- OneUnaryRule
    InitialStates <- UnaryStates
    MaxDestroyerEvents = 2
    Disabled = 100
    LargestAtom = 9
    StepSpecs <- MultiwaySpecs
    GenerationsOnlyGrow = TRUE
    MatchStorages = {"Main"}
    MaxEvents = 3
SPECIFICATION APISpec
INVARIANT TimeConstraintOnlyIfAsked
