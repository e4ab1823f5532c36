\* The same system, asked whether non-spacelike events are always noticed.
CONSTANTS
    Rules = {0, 1}
    SpacelikeRules = {0}
    MaxDestroyerEvents = 3
    SeparationTracking = "DestroyerChoices"
    InitialTokenCounts = {1, 2}
    OutputCounts = {1, 2}
    InputCounts = {1, 2}
    MaxEvents = 3
SPECIFICATION Spec
INVARIANT TrackedEvolutionIsSpacelike
CHECK_DEADLOCK FALSE
