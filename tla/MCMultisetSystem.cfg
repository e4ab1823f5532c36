\* Multiset and atomic-state systems with all combinations of limits.
CONSTANTS
    MultisetSystems <- MCMultisetSystems
    AtomicStateSystems <- MCAtomicStateSystems
    ReplaceList <- MCReplaceList
    InstantiationFails <- MCInstantiationFails
    InputCountRange <- MCInputCountRange
    Infinity = 100
    All = All
    MaxInputs = 3
    MaxOutputs = 2
SPECIFICATION Spec
INVARIANTS
    CompleteMeansExhausted
    TablesAreExact
PROPERTY ImplementsGraph
