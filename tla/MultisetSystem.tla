--------------------------- MODULE MultisetSystem ---------------------------
(***************************************************************************)
(* Kernel/MultisetSubstitutionSystem: multihistories of rules that rewrite *)
(* subsets of a multiset of arbitrary expressions, and AtomicStateSystem,  *)
(* which is run by it.                                                     *)
(*                                                                         *)
(* Matches are found by trying all tuples of distinct expressions in a     *)
(* fixed order.  Two tables remember what was tried: instantiationCounts   *)
(* the number of events a match had, or All if it may have no more, and    *)
(* instantiations the results of a match that has more to come.            *)
(*                                                                         *)
(* Patterns are the Wolfram Language's: ReplaceList and the input counts   *)
(* of rules are constants.                                                 *)
(***************************************************************************)
EXTENDS Integers, Sequences, FiniteSets, FiniteSetsExt, SequencesExt

CONSTANTS
    MultisetSystems,            \* [rules, init, parameters] of multiset systems
    AtomicStateSystems,         \* [rules, state, parameters] of atomic-state ones
    ReplaceList(_, _),          \* the outputs of a rule for a tuple of contents
    InstantiationFails(_, _),   \* whether this prints messages or gives no list
    InputCountRange(_),         \* a rule's <<least, largest>> number of inputs
    Infinity,                   \* a limit that is larger than any number there is
    All,                        \* the count of a match that may have no more events
    MaxInputs, MaxOutputs       \* bounds on the inputs and outputs of an event

ASSUME AllAssumption == All \notin Nat

VARIABLES
    system,                          \* the evaluated system
    expressions,                     \* contents of the expressions
    eventRuleIndices, eventInputs, eventOutputs, eventGenerations,
    expressionCreatorEvents,
    expressionDestroyerEventCounts,
    destroyerChoices,                \* of each event
    instantiationCounts,             \* [rule, inputs] -> Nat \cup {All}
    instantiations,                  \* [rule, inputs] -> outputs
    terminationReason                \* "none" while the evaluation goes on

eventVars == <<expressions, eventRuleIndices, eventInputs, eventOutputs, eventGenerations,
               expressionCreatorEvents, expressionDestroyerEventCounts, destroyerChoices>>
vars == <<system, eventVars, instantiationCounts, instantiations, terminationReason>>

Parameters == system.parameters
Rules == DOMAIN system.rules
EventsCount == Len(eventInputs) - 1

\* An atomic-state system has one expression and takes one at a time.
ToMultisetSystem(atomic) ==
    [rules |-> atomic.rules, init |-> <<atomic.state>>,
     parameters |-> [atomic.parameters EXCEPT !.minEventInputs = 1, !.maxEventInputs = 1]]

Systems == MultisetSystems \cup {ToMultisetSystem(atomic) : atomic \in AtomicStateSystems}

ASSUME SystemsAssumption ==
    /\ Infinity \in Nat
    /\ \A s \in Systems :
         /\ s.rules \in Seq(ToSet(s.rules)) /\ Len(s.rules) <= Infinity
         /\ s.init \in Seq(ToSet(s.init))
         /\ s.parameters \in [maxGeneration : 0..Infinity, maxDestroyerEvents : 0..Infinity,
                              minEventInputs : 0..Infinity, maxEventInputs : 0..Infinity,
                              maxEvents : 0..Infinity]
         /\ \A rule \in ToSet(s.rules) : InputCountRange(rule) \in (0..Infinity) \X (0..Infinity)

NoEntries == [key \in {} |-> 0]

Init ==
    /\ system \in Systems
    /\ expressions = system.init
    /\ eventRuleIndices = <<0>>
    /\ eventInputs = << <<>> >>
    /\ eventOutputs = << [i \in DOMAIN system.init |-> i] >>
    /\ eventGenerations = <<0>>
    /\ expressionCreatorEvents = [i \in DOMAIN system.init |-> 1]
    /\ expressionDestroyerEventCounts = [i \in DOMAIN system.init |-> 0]
    /\ destroyerChoices = <<NoEntries>>
    /\ instantiationCounts = NoEntries
    /\ instantiations = NoEntries
    /\ terminationReason = "none"

-----------------------------------------------------------------------------
(* Separation of expressions.                                              *)

ExpressionsSeparation(first, second) ==
    LET firstChoices == destroyerChoices[expressionCreatorEvents[first]]
        secondChoices == destroyerChoices[expressionCreatorEvents[second]]
    IN  IF first = second THEN "Identical"
        ELSE IF second \in DOMAIN firstChoices \/ first \in DOMAIN secondChoices THEN "Timelike"
        ELSE IF \E expression \in DOMAIN firstChoices \cap DOMAIN secondChoices :
                  firstChoices[expression] # secondChoices[expression] THEN "Branchlike"
        ELSE "Spacelike"

SpacelikeExpressionsQ(inputs) ==
    \A i, j \in DOMAIN inputs :
        i < j => ExpressionsSeparation(inputs[i], inputs[j]) = "Spacelike"

-----------------------------------------------------------------------------
(* Matching.                                                               *)

\* The numbers of inputs to try: parameters, narrowed to what rules can match.
MinEventInputs ==
    Max({Parameters.minEventInputs,
         Min({Infinity} \cup {InputCountRange(system.rules[r])[1] : r \in Rules})})
MaxEventInputs ==
    Min({Parameters.maxEventInputs, Len(expressions),
         Max({0} \cup {InputCountRange(system.rules[r])[2] : r \in Rules})})

InjectiveTuples(n) ==
    {inputs \in [1..n -> DOMAIN expressions] : IsInjective(inputs)}

PossibleKeys ==
    [rule : Rules, inputs : UNION {InjectiveTuples(n) : n \in MinEventInputs..MaxEventInputs}]

LexicographicallyBefore(s, t) ==
    \E i \in DOMAIN s : s[i] < t[i] /\ \A j \in 1..(i - 1) : s[j] = t[j]

\* Of two subsets of a size the one that has the first of what they differ in.
ListedBefore(subset, other) == \E x \in subset \ other : \A y \in other \ subset : x < y

\* Subsets by size and then in order, their permutations in order, rules.
TriedBefore(key, other) ==
    LET subset == ToSet(key.inputs)
        otherSubset == ToSet(other.inputs)
    IN  \/ Len(key.inputs) < Len(other.inputs)
        \/ /\ Len(key.inputs) = Len(other.inputs)
           /\ \/ ListedBefore(subset, otherSubset)
              \/ subset = otherSubset /\ LexicographicallyBefore(key.inputs, other.inputs)
              \/ key.inputs = other.inputs /\ key.rule < other.rule

InstantiationCount(key) ==
    IF key \in DOMAIN instantiationCounts THEN instantiationCounts[key] ELSE 0

\* The keys for which findMatch asks whether they can be instantiated.
TriedKeys ==
    {key \in PossibleKeys :
        /\ InstantiationCount(key) # All
        /\ \A i \in DOMAIN key.inputs :
             /\ expressionDestroyerEventCounts[key.inputs[i]] < Parameters.maxDestroyerEvents
             /\ eventGenerations[expressionCreatorEvents[key.inputs[i]]] < Parameters.maxGeneration}

InputContents(key) == [i \in DOMAIN key.inputs |-> expressions[key.inputs[i]]]
ReplacedBy(key) == ReplaceList(system.rules[key.rule], InputContents(key))
Stored(key) == key \in DOMAIN instantiations

KeyFails(key) == ~Stored(key) /\ InstantiationFails(system.rules[key.rule], InputContents(key))

\* createInstantiationsIfPossible does not look at the separation again if it
\* has instantiations already.
CanInstantiate(key) ==
    Stored(key) \/ (ReplacedBy(key) # <<>> /\ SpacelikeExpressionsQ(key.inputs))

\* The keys that end the search, as a match or with a failure, and the first of them.
Ends == {key \in TriedKeys : KeyFails(key) \/ CanInstantiate(key)}
FirstEnds == {key \in Ends : \A other \in Ends \ {key} : TriedBefore(key, other)}

\* The counts after some keys were found not to be possible.
CountsAfter(impossible) ==
    [key \in DOMAIN instantiationCounts \cup impossible |->
        IF key \in impossible THEN All ELSE instantiationCounts[key]]

-----------------------------------------------------------------------------
(* Events.                                                                 *)

\* Mutation: only what the event itself destroys is remembered.
DirectDestroyerChoices(inputs, event) == [expression \in ToSet(inputs) |-> event]

\* The choices of the creators of later inputs overwrite those before.
NewDestroyerChoices(inputs, event) ==
    LET ChoicesOf(i) == destroyerChoices[expressionCreatorEvents[inputs[i]]]
        Deciding(expression) ==
          {i \in DOMAIN inputs : inputs[i] = expression \/ expression \in DOMAIN ChoicesOf(i)}
    IN  [expression \in ToSet(inputs) \cup UNION {DOMAIN ChoicesOf(i) : i \in DOMAIN inputs} |->
            LET last == Max(Deciding(expression))
            IN  IF expression \in DOMAIN ChoicesOf(last) THEN ChoicesOf(last)[expression] ELSE event]

\* Mutation: every match is taken to have one instantiation.
CountAfterFirst(key, possibleOutputs) == All

\* The number of instantiations after one more.
NextCount(key, possibleOutputs) ==
    LET index == InstantiationCount(key) + 1
    IN  IF index = Len(possibleOutputs) THEN All ELSE index

\* Mutation: all that was stored is kept.
StoredForever(key, possibleOutputs) ==
    [other \in DOMAIN instantiations \cup {key} |->
        IF other = key THEN possibleOutputs ELSE instantiations[other]]

\* Results are stored by findMatch and dropped with their last event.
StoredAfter(key, possibleOutputs) ==
    LET last == NextCount(key, possibleOutputs) = All
    IN  [other \in IF last THEN DOMAIN instantiations \ {key} ELSE DOMAIN instantiations \cup {key} |->
            IF other = key THEN possibleOutputs ELSE instantiations[other]]

\* createEvent, with what the search for its match has changed
EvaluateSingleEvent(key) ==
    LET possibleOutputs == IF Stored(key) THEN instantiations[key] ELSE ReplacedBy(key)
        outputs == possibleOutputs[InstantiationCount(key) + 1]
        event == Len(eventInputs) + 1
        generations == {eventGenerations[expressionCreatorEvents[id]] : id \in ToSet(key.inputs)}
        impossible == {other \in TriedKeys : TriedBefore(other, key)}
    IN  /\ terminationReason = "none" /\ EventsCount < Parameters.maxEvents
        /\ ~KeyFails(key)
        /\ expressions' = expressions \o outputs
        /\ eventRuleIndices' = Append(eventRuleIndices, key.rule)
        /\ eventInputs' = Append(eventInputs, key.inputs)
        /\ eventOutputs' = Append(eventOutputs, [i \in DOMAIN outputs |-> Len(expressions) + i])
        /\ eventGenerations' = Append(eventGenerations, Max(generations \cup {-1}) + 1)
        /\ expressionCreatorEvents' = expressionCreatorEvents \o [i \in DOMAIN outputs |-> event]
        /\ expressionDestroyerEventCounts' =
             [id \in DOMAIN expressionDestroyerEventCounts |->
                expressionDestroyerEventCounts[id] + (IF id \in ToSet(key.inputs) THEN 1 ELSE 0)]
             \o [i \in DOMAIN outputs |-> 0]
        /\ destroyerChoices' = Append(destroyerChoices, NewDestroyerChoices(key.inputs, event))
        /\ instantiationCounts' =
             [other \in DOMAIN CountsAfter(impossible) \cup {key} |->
                IF other = key THEN NextCount(key, possibleOutputs) ELSE CountsAfter(impossible)[other]]
        /\ instantiations' = StoredAfter(key, possibleOutputs)
        /\ UNCHANGED <<system, terminationReason>>

Stop(reason) ==
    /\ terminationReason' = reason
    /\ UNCHANGED <<system, eventVars, instantiations>>

\* No key is possible, so that all that were tried are remembered not to be.
ThrowComplete ==
    /\ terminationReason = "none" /\ EventsCount < Parameters.maxEvents
    /\ Ends = {}
    /\ instantiationCounts' = CountsAfter(TriedKeys)
    /\ Stop("Complete")

\* A failure is thrown past the evaluation: there is no multihistory.
ThrowFailure ==
    /\ terminationReason = "none" /\ EventsCount < Parameters.maxEvents
    /\ \E key \in FirstEnds : KeyFails(key)
    /\ UNCHANGED instantiationCounts
    /\ Stop("Failure")

StopAtMaxEvents ==
    /\ terminationReason = "none" /\ EventsCount = Parameters.maxEvents
    /\ UNCHANGED instantiationCounts
    /\ Stop("MaxEvents")

Terminated == terminationReason # "none" /\ UNCHANGED vars

Next ==
    \/ \E key \in FirstEnds : EvaluateSingleEvent(key)
    \/ ThrowComplete \/ ThrowFailure \/ StopAtMaxEvents
    \/ Terminated

Spec == Init /\ [][Next]_vars

-----------------------------------------------------------------------------
(* Properties.                                                             *)

EventsOf(key) ==
    {e \in DOMAIN eventInputs : eventRuleIndices[e] = key.rule /\ eventInputs[e] = key.inputs}

CreatedContents(event) ==
    [i \in DOMAIN eventOutputs[event] |-> expressions[eventOutputs[event][i]]]

\* What findMatch should find, had nothing been remembered: every tuple the
\* parameters admit, of which no expression is used up or too late, that is
\* spacelike separated and has an instantiation no event was made of.
NextInstantiationPossible(key) ==
    /\ \A i \in DOMAIN key.inputs :
         /\ Cardinality({e \in DOMAIN eventInputs : key.inputs[i] \in ToSet(eventInputs[e])})
              < Parameters.maxDestroyerEvents
         /\ eventGenerations[expressionCreatorEvents[key.inputs[i]]] < Parameters.maxGeneration
    /\ SpacelikeExpressionsQ(key.inputs)
    /\ Cardinality(EventsOf(key)) < Len(ReplacedBy(key))

\* Matches remembered as impossible stay impossible, and the narrowed range of
\* input counts leaves out none: when the evaluation is called complete nothing
\* the parameters admit is left to be done.
CompleteMeansExhausted ==
    terminationReason = "Complete" =>
        \A n \in Parameters.minEventInputs..Min({Parameters.maxEventInputs, Len(expressions)}) :
            \A key \in [rule : Rules, inputs : InjectiveTuples(n)] : ~NextInstantiationPossible(key)

\* The place of an event among those of its match.
EventNumber(key, event) == Cardinality({e \in EventsOf(key) : e <= event})

\* The events of a match have its results in their order, each once; the count is
\* their number, or All if there are no more results or the match is impossible.
CountIsExact(key) ==
    LET used == Cardinality(EventsOf(key))
        results == ReplacedBy(key)
    IN  /\ \A e \in EventsOf(key) :
             /\ EventNumber(key, e) \in DOMAIN results
             /\ CreatedContents(e) = results[EventNumber(key, e)]
        /\ \/ instantiationCounts[key] = used /\ used \in 1..(Len(results) - 1)
           \/ instantiationCounts[key] = All /\ used = Len(results)
           \/ instantiationCounts[key] = All /\ ~SpacelikeExpressionsQ(key.inputs)

\* The two tables tell what happened: what is counted is right, and results are
\* stored, as the rule gives them, of just the matches that wait to be used again.
TablesAreExact ==
    /\ \A e \in 2..Len(eventInputs) :
         [rule |-> eventRuleIndices[e], inputs |-> eventInputs[e]] \in DOMAIN instantiationCounts
    /\ \A key \in DOMAIN instantiationCounts : CountIsExact(key)
    /\ DOMAIN instantiations = {key \in DOMAIN instantiationCounts : instantiationCounts[key] # All}
    /\ \A key \in DOMAIN instantiations : instantiations[key] = ReplacedBy(key)

\* The evaluation is one of the causal graph of libSetReplace in which every rule
\* is Spacelike: both implementations have the same generations, destroyer choices
\* and separations, and the same events are possible.
Graph == INSTANCE TokenEventGraph WITH
    Rules <- 1..Max({Len(s.rules) : s \in Systems}),
    SpacelikeRules <- 1..Max({Len(s.rules) : s \in Systems}),
    MaxDestroyerEvents <- Max({s.parameters.maxDestroyerEvents : s \in Systems}),
    SeparationTracking <- "DestroyerChoices",
    InitialTokenCounts <- {Len(s.init) : s \in Systems},
    OutputCounts <- 0..MaxOutputs,
    InputCounts <- 0..MaxInputs,
    MaxEvents <- Max({s.parameters.maxEvents : s \in Systems}),
    events <- [e \in DOMAIN eventInputs |->
                [rule |-> IF eventRuleIndices[e] = 0 THEN -1 ELSE eventRuleIndices[e],
                 inputTokens |-> eventInputs[e], outputTokens |-> eventOutputs[e],
                 generation |-> eventGenerations[e]]],
    creatorEvents <- expressionCreatorEvents,
    destroyerEventsCount <- expressionDestroyerEventCounts,
    largestGeneration <- Max(ToSet(eventGenerations)),
    destroyerChoices <- destroyerChoices,
    isSpacelikeEvolution <- TRUE

ImplementsGraph == Graph!Spec
=============================================================================
