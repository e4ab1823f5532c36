\* A random choice from the first bucket, with and without deduplication.
CONSTANTS
    Matches <- MCMatches
    InputTokens <- MCInputTokens
    SortKey <- MCSortKey
    NewMatchRank <- MCNewMatchRank
    RuleOf <- MCRuleOf
    SameOutcome <- MCSameOutcome
    MatchAny = FALSE
    Deduplications = {"None", "SameInputSetIsomorphicOutputs"}
    NoMatch = NoMatch
SPECIFICATION Spec
INVARIANTS
    TypeOK
    ContainersAgree
PROPERTIES
    ImplementsMatchSet
    NoEventLost
