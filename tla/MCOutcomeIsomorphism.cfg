\* Comparisons only.
CONSTANTS
    Problems <- MCProblems
    Outcomes <- MCOutcomes
    ConnectingAtom = 100
SPECIFICATION CompareSpec
INVARIANT OnlyIsomorphicIdentified
CHECK_DEADLOCK FALSE
