\* Two-input rules that are all Spacelike; tokens may be destroyed twice.
CONSTANTS
    Rules = {0}
    SpacelikeRules = {0}
    MaxDestroyerEvents = 2
    SeparationTracking = "DestroyerChoices"
    InitialTokenCounts = {1}
    OutputCounts = {1, 2}
    InputCounts = {1, 2}
    MaxEvents = 4
SPECIFICATION Spec
INVARIANTS
    TypeOK
    CausalLayers
    DestroyersCounted
    SpacelikeRulesKeepTracking
    SeparationAgreesWithCones
    PairwiseSpacelikeTokensAssemble
    MergeIsTheLoop
PROPERTY SeparationStable
CHECK_DEADLOCK FALSE
