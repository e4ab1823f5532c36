\* Searches for matches of a rule and comparisons of outcomes.
CONSTANTS
    Problems <- MCProblems
    Outcomes <- MCOutcomes
    ConnectingAtom = 100
SPECIFICATION SearchOrCompareSpec
INVARIANTS
    TypeOK
    SearchIsExact
    ErrorOnlyIfDisconnected
    ComparisonIsExact
CHECK_DEADLOCK FALSE
