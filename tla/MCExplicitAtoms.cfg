\* A rule that names atoms of its own, in a full multihistory.
CONSTANTS
    RuleList <- NamingRules
    InitialStates <- NamingStates
    MaxDestroyerEvents = 100
    Disabled = 100
    LargestAtom = 100
    StepSpecs <- NamingSpecs
    GenerationsOnlyGrow = TRUE
    MatchStorages = {"Main"}
    MaxEvents = 2
SPECIFICATION Spec
PROPERTY NewAtomsAreNew
