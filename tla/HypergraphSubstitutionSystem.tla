-------------------- MODULE HypergraphSubstitutionSystem --------------------
(***************************************************************************)
(* HypergraphSubstitutionSystem: tokens (hyperedges) rewritten by rules,   *)
(* one event at a time, until a limit of the step specification, a fixed   *)
(* point or an abort is reached.                                           *)
(*                                                                         *)
(* The module composes the causal graph (TokenEventGraph, as an instance), *)
(* the index of atoms and the matcher.  Of the matcher it keeps the set of *)
(* matches its queue holds (MatchSet, which MatchQueue implements) and     *)
(* newMatches_, where an aborted scan may leave matches behind.  Any match *)
(* of the queue may come next: the ordering is MatchQueue's subject.       *)
(*                                                                         *)
(* A system is driven by one caller; the threads of a scan are joined      *)
(* before it ends, so indexing is one step here.  An abort is noticed only *)
(* by a scan: the caller gets an exception and may call again.             *)
(***************************************************************************)
EXTENDS Substitution

CONSTANTS
    RuleList,             \* sequence of [inputs, outputs, spacelike]
    InitialStates,        \* the initial tokens the system may be created with
    MaxDestroyerEvents,   \* allowed destroyer events per token
    Disabled,             \* stepLimitDisabled, larger than every count
    LargestAtom,          \* the largest value of an atom
    StepSpecs,            \* the step specifications callers use
    GenerationsOnlyGrow,  \* callers never lower maxGenerationsLocal
    MatchStorages,        \* subset of {"Main", "NewMatches"}, by threads at hand
    MaxEvents             \* bound on the instantiated events

\* Only a scan for several rules is given threads, and then uses newMatches_.
ASSUME StorageAssumption ==
    /\ MatchStorages \subseteq {"Main", "NewMatches"} /\ MatchStorages # {}
    /\ "NewMatches" \in MatchStorages => Len(RuleList) > 1

ASSUME RuleListAssumption ==
    /\ RuleList \in Seq([inputs : Seq(Seq(Int)), outputs : Seq(Seq(Int)), spacelike : BOOLEAN])
    /\ InitialStates \subseteq Seq(Seq(Nat))

ASSUME LimitsAssumption ==
    /\ Disabled \in Nat /\ MaxDestroyerEvents \in 0..Disabled
    /\ MaxEvents \in 1..(Disabled - 1)
    /\ StepSpecs \subseteq [maxEvents : 0..MaxEvents, maxGenerationsLocal : 0..Disabled,
                            maxFinalAtoms : 0..Disabled, maxFinalAtomDegree : 0..Disabled,
                            maxFinalTokens : 0..Disabled]
    /\ LargestAtom \in Nat \ {0}
    /\ \A state \in InitialStates : \A atom \in AtomsOf(state) : atom \in 1..(LargestAtom - 1)

VARIABLES
    \* causalGraph_
    events, creatorEvents, destroyerEventsCount, largestGeneration,
    destroyerChoices, isSpacelikeEvolution,
    tokens,               \* tokens_, the atoms of each token
    nextAtom,             \* nextAtom_
    atomDegrees,          \* atomDegrees_, on the atoms it has an entry for
    destroyedTokenCount,  \* destroyedTokenCount_
    indexedTokens,        \* the tokens in atomsIndex_
    unindexedTokens,      \* unindexedTokens_
    matches,              \* the matches in the queue of matcher_
    newMatches,           \* the matches in its newMatches_
    stepSpec,             \* stepSpec_
    terminationReason,    \* terminationReason_
    call,                 \* the public call that is running
    stage                 \* how far its current replaceOnce is

graphVars == <<events, creatorEvents, destroyerEventsCount, largestGeneration,
               destroyerChoices, isSpacelikeEvolution>>
stateVars == <<tokens, nextAtom, atomDegrees, destroyedTokenCount>>
matcherVars == <<indexedTokens, unindexedTokens, matches, newMatches>>
vars == <<graphVars, stateVars, matcherVars, stepSpec, terminationReason, call, stage>>

RuleIDs == DOMAIN RuleList
HasMultipleHistories == MaxDestroyerEvents > 1

\* optimizeRules: with one destroyer event per token every rule is treated as All.
SpacelikeRuleIDs ==
    {r \in RuleIDs : MaxDestroyerEvents # 1 /\ RuleList[r].spacelike}

SeparationTrackingMethod ==
    IF SpacelikeRuleIDs = {} THEN "None" ELSE "DestroyerChoices"

Graph == INSTANCE TokenEventGraph WITH
    Rules <- RuleIDs,
    SpacelikeRules <- SpacelikeRuleIDs,
    SeparationTracking <- SeparationTrackingMethod,
    InitialTokenCounts <- {Len(state) : state \in InitialStates},
    OutputCounts <- {Len(RuleList[r].outputs) : r \in RuleIDs},
    InputCounts <- {Len(RuleList[r].inputs) : r \in RuleIDs}

-----------------------------------------------------------------------------
(* Matching and substitution.  Negative atoms of a rule are patterns.      *)

InputAtoms(match) == [i \in DOMAIN match.inputTokens |-> tokens[match.inputTokens[i]]]

\* The outputs of the match's rule with all that the inputs determine filled in.
ExplicitOutputs(match) ==
    LET rule == RuleList[match.rule] IN Substituted(rule.outputs, rule.inputs, InputAtoms(match))

\* Mutation: an atom is skipped before each event.
NameAfterSkip(atomLists, pattern) ==
    nextAtom + 1 + Cardinality({other \in NewPatterns(atomLists) :
        ~AppearsBefore(atomLists, pattern, other)})

\* nameAnonymousAtoms: the patterns left are named in order of first appearance.
NameOf(atomLists, pattern) ==
    nextAtom + Cardinality({other \in NewPatterns(atomLists) :
        ~AppearsBefore(atomLists, pattern, other)})

NamedOutputs(atomLists) ==
    [i \in DOMAIN atomLists |->
        [p \in DOMAIN atomLists[i] |->
            IF atomLists[i][p] < 0 THEN NameOf(atomLists, atomLists[i][p])
            ELSE atomLists[i][p]]]

\* Mutation: the event selection function is ignored.
SeparatedAlways(match) == TRUE

Separated(match) ==
    match.rule \in SpacelikeRuleIDs =>
        \A i, j \in DOMAIN match.inputTokens :
            i # j => Graph!TokenSeparation(match.inputTokens[i], match.inputTokens[j]) = "Spacelike"

\* The matches among some of the tokens.
MatchesAmong(ids) ==
    UNION {{match \in [rule : {r}, inputTokens : [DOMAIN RuleList[r].inputs -> ids]] :
              /\ IsInjective(match.inputTokens)
              /\ Fits(RuleList[r].inputs, InputAtoms(match))
              /\ Separated(match)} : r \in RuleIDs}

-----------------------------------------------------------------------------
(* Atom degrees and the limits of the final state.                         *)

DegreeIn(atom, atomLists) == Cardinality({i \in DOMAIN atomLists : atom \in Range(atomLists[i])})
CurrentDegree(atom) == IF atom \in DOMAIN atomDegrees THEN atomDegrees[atom] ELSE 0

\* Mutation: entries that become zero stay.
UpdatedDegreesKeepingZeros(removed, added) ==
    [atom \in DOMAIN atomDegrees \cup AtomsOf(removed) \cup AtomsOf(added) |->
        CurrentDegree(atom) - DegreeIn(atom, removed) + DegreeIn(atom, added)]

\* updateAtomDegrees: entries that become zero are erased.
UpdatedDegrees(removed, added) ==
    LET Degree(atom) == CurrentDegree(atom) - DegreeIn(atom, removed) + DegreeIn(atom, added)
        all == DOMAIN atomDegrees \cup AtomsOf(removed) \cup AtomsOf(added)
    IN  [atom \in {a \in all : Degree(a) # 0} |-> Degree(atom)]

\* Mutation: the limits are compared with the state before the event.
FinalStateLimitBefore(inputs, outputs) ==
    IF \E a \in AtomsOf(inputs) : CurrentDegree(a) > stepSpec.maxFinalAtomDegree
      THEN "MaxFinalAtomDegree"
    ELSE IF Cardinality(DOMAIN atomDegrees) > stepSpec.maxFinalAtoms THEN "MaxFinalAtoms"
    ELSE IF Len(creatorEvents) - destroyedTokenCount > stepSpec.maxFinalTokens
      THEN "MaxFinalTokens"
    ELSE "NotTerminated"

\* willExceedAtomLimits, then willExceedTokenLimit
FinalStateLimit(inputs, outputs) ==
    LET touched == AtomsOf(inputs) \cup AtomsOf(outputs)
        Delta(atom) == DegreeIn(atom, outputs) - DegreeIn(atom, inputs)
        created == {a \in touched : CurrentDegree(a) = 0 /\ Delta(a) > 0}
        deleted == {a \in touched : CurrentDegree(a) > 0 /\ CurrentDegree(a) + Delta(a) = 0}
        atomsCount == Cardinality(DOMAIN atomDegrees) + Cardinality(created) - Cardinality(deleted)
        tokensCount == Len(creatorEvents) - destroyedTokenCount - Len(inputs) + Len(outputs)
    IN  IF \E a \in touched : CurrentDegree(a) + Delta(a) > stepSpec.maxFinalAtomDegree
          THEN "MaxFinalAtomDegree"
        ELSE IF atomsCount > stepSpec.maxFinalAtoms THEN "MaxFinalAtoms"
        ELSE IF tokensCount > stepSpec.maxFinalTokens THEN "MaxFinalTokens"
        ELSE "NotTerminated"

-----------------------------------------------------------------------------
(* The calls.                                                              *)

NoSteps == [maxEvents |-> 0, maxGenerationsLocal |-> 0, maxFinalAtoms |-> 0,
            maxFinalAtomDegree |-> 0, maxFinalTokens |-> 0]
AllSteps == [maxEvents |-> Disabled, maxGenerationsLocal |-> Disabled,
             maxFinalAtoms |-> Disabled, maxFinalAtomDegree |-> Disabled,
             maxFinalTokens |-> Disabled]

\* Mutation: the last initial atom is taken for the largest.
FirstAtomAfterLast(state) == 1 + Last(FlattenSeq(state))

\* nextAtom_ once the initial atoms have been read
FirstAtom(state) == 1 + Max({0} \cup AtomsOf(state))

Init ==
    /\ Graph!Init
    /\ \E state \in InitialStates :
         /\ Len(state) = Len(creatorEvents)
         /\ tokens = state
         /\ nextAtom = FirstAtom(state)
         /\ atomDegrees = IF HasMultipleHistories THEN [a \in {} |-> 0]
                          ELSE [a \in AtomsOf(state) |-> DegreeIn(a, state)]
    /\ destroyedTokenCount = 0
    /\ indexedTokens = {} /\ unindexedTokens = {}
    /\ matches = {} /\ newMatches = {}
    /\ stepSpec = NoSteps
    /\ terminationReason = "NotTerminated"
    /\ call = "none" /\ stage = "begin"

\* throwIfInvalidStepSpec lets the specification pass.
ValidStepSpec(spec) ==
    HasMultipleHistories =>
        Disabled = spec.maxFinalAtoms /\ Disabled = spec.maxFinalAtomDegree
            /\ Disabled = spec.maxFinalTokens

\* updateStepSpec: tokens of the previous last generation can be used now.
UpdateStepSpec(spec) ==
    /\ stepSpec' = spec
    /\ unindexedTokens' =
         IF spec.maxGenerationsLocal > stepSpec.maxGenerationsLocal
         THEN unindexedTokens \cup
                {id \in DOMAIN tokens :
                    Graph!TokenGeneration(id) = stepSpec.maxGenerationsLocal}
         ELSE unindexedTokens

\* replace is called; it returns at once when tokens may not be destroyed.
Replace(spec) ==
    /\ call = "none"
    /\ ValidStepSpec(spec)
    /\ GenerationsOnlyGrow => spec.maxGenerationsLocal >= stepSpec.maxGenerationsLocal
    /\ UpdateStepSpec(spec)
    /\ call' = IF MaxDestroyerEvents = 0 THEN "none" ELSE "replace"
    /\ UNCHANGED <<graphVars, stateVars, indexedTokens, matches, newMatches,
                   terminationReason, stage>>

\* The public replaceOnce is called.
ReplaceOnce ==
    /\ call = "none" /\ Graph!EventsCount < MaxEvents
    /\ UpdateStepSpec(AllSteps)
    /\ call' = "replaceOnce"
    /\ UNCHANGED <<graphVars, stateVars, indexedTokens, matches, newMatches,
                   terminationReason, stage>>

\* The call returns, or leaves with an exception, for this reason.
Return(reason) ==
    /\ terminationReason' = reason
    /\ call' = "none" /\ stage' = "begin"

StopAtMaxEvents ==
    /\ call # "none" /\ stage = "begin"
    /\ Graph!EventsCount >= stepSpec.maxEvents
    /\ Return("MaxEvents")
    /\ UNCHANGED <<graphVars, stateVars, matcherVars, stepSpec>>

\* Mutation: the atoms index is updated after the scan.
ScannedBeforeIndexing ==
    {match \in MatchesAmong(indexedTokens \cup unindexedTokens) :
        Cardinality(Range(match.inputTokens) \cap unindexedTokens) = 1}

\* What a scan for matches that involve the unindexed tokens finds.
ScannedMatches ==
    {match \in MatchesAmong(indexedTokens \cup unindexedTokens) :
        Range(match.inputTokens) \cap unindexedTokens # {}}

\* indexNewTokens up to its end
IndexNewTokens ==
    /\ indexedTokens' = indexedTokens \cup unindexedTokens
    /\ unindexedTokens' = {}
    /\ \E storage \in MatchStorages :
         \/ /\ storage = "Main"
            /\ matches' = matches \cup ScannedMatches
            /\ UNCHANGED newMatches
         \/ /\ storage = "NewMatches"
            /\ matches' = matches \cup newMatches \cup ScannedMatches
            /\ newMatches' = {}

\* indexNewTokens until its scan, which has stored some matches, is aborted
AbortIndexing ==
    /\ unindexedTokens # {}
    /\ indexedTokens' = indexedTokens \cup unindexedTokens
    /\ UNCHANGED unindexedTokens
    /\ \E storage \in MatchStorages, stored \in SUBSET ScannedMatches :
         \/ /\ storage = "Main"
            /\ matches' = matches \cup stored
            /\ UNCHANGED newMatches
         \/ /\ storage = "NewMatches"
            /\ newMatches' = newMatches \cup stored
            /\ UNCHANGED matches

\* replaceOnce goes past its first check and indexes.
Index ==
    /\ call # "none" /\ stage = "begin"
    /\ Graph!EventsCount < stepSpec.maxEvents
    /\ IndexNewTokens
    /\ terminationReason' = "NotTerminated"
    /\ stage' = "indexed"
    /\ UNCHANGED <<graphVars, stateVars, stepSpec, call>>

\* The caller's abort or, in replace, the time constraint ends the scan.
Abort ==
    /\ call # "none" /\ stage = "begin"
    /\ Graph!EventsCount < stepSpec.maxEvents
    /\ AbortIndexing
    /\ \/ call = "replace" /\ \E reason \in {"Aborted", "TimeConstrained"} : Return(reason)
       \/ call = "replaceOnce" /\ Return("NotTerminated")
    /\ UNCHANGED <<graphVars, stateVars, stepSpec>>

\* Mutation: whenever there is nothing to match a fixed point is reported.
StopAsComplete ==
    /\ stage = "indexed" /\ matches = {}
    /\ Return("Complete")
    /\ UNCHANGED <<graphVars, stateVars, matcherVars, stepSpec>>

StopWithoutMatches ==
    /\ stage = "indexed" /\ matches = {}
    /\ Return(IF largestGeneration = stepSpec.maxGenerationsLocal
              THEN "MaxGenerationsLocal" ELSE "Complete")
    /\ UNCHANGED <<graphVars, stateVars, matcherVars, stepSpec>>

StopAtFinalStateLimit(match) ==
    /\ stage = "indexed" /\ match \in matches
    /\ ~HasMultipleHistories
    /\ FinalStateLimit(InputAtoms(match), ExplicitOutputs(match)) # "NotTerminated"
    /\ Return(FinalStateLimit(InputAtoms(match), ExplicitOutputs(match)))
    /\ UNCHANGED <<graphVars, stateVars, matcherVars, stepSpec>>

\* Mutation: tokens of the last generation are indexed too.
AddTokensUpToLimit(atomLists) ==
    /\ tokens' = tokens \o atomLists
    /\ unindexedTokens' = unindexedTokens \cup
         {id \in DOMAIN tokens' \ DOMAIN tokens :
             Graph!TokenGeneration(id)' <= stepSpec.maxGenerationsLocal}

\* addTokens, after the event has been added to the graph
AddTokens(atomLists) ==
    /\ tokens' = tokens \o atomLists
    /\ unindexedTokens' = unindexedTokens \cup
         {id \in DOMAIN tokens' \ DOMAIN tokens :
             Graph!TokenGeneration(id)' < stepSpec.maxGenerationsLocal}

Involving(ids) == {match \in matches : Range(match.inputTokens) \cap ids # {}}

\* Mutation: destroyed tokens stay in the atoms index.
ForgetMatchesOnly(match) ==
    LET inputs == Range(match.inputTokens)
        exhausted == {id \in inputs : destroyerEventsCount'[id] >= MaxDestroyerEvents}
    IN  /\ matches' = matches \ ({match} \cup Involving(exhausted))
        /\ UNCHANGED indexedTokens
        /\ destroyedTokenCount' =
             IF MaxDestroyerEvents = 1 THEN destroyedTokenCount + Len(match.inputTokens)
             ELSE destroyedTokenCount

\* Mutation: the other matches of destroyed tokens stay in the queue.
ForgetMatchOnly(match) ==
    LET inputs == Range(match.inputTokens)
    IN  /\ matches' = matches \ {match}
        /\ indexedTokens' = indexedTokens
             \ {id \in inputs : destroyerEventsCount'[id] >= MaxDestroyerEvents}
        /\ destroyedTokenCount' =
             IF MaxDestroyerEvents = 1 THEN destroyedTokenCount + Len(match.inputTokens)
             ELSE destroyedTokenCount

\* Mutation: the instantiated match is not deleted in a multihistory.
ForgetTokensOnly(match) ==
    LET exhausted == {id \in Range(match.inputTokens) :
                        destroyerEventsCount'[id] >= MaxDestroyerEvents}
    IN  /\ matches' = matches \ Involving(exhausted)
        /\ indexedTokens' = indexedTokens \ exhausted
        /\ UNCHANGED destroyedTokenCount

\* Lines 105-124: the matches and tokens that cannot be used any more are removed.
ForgetDestroyed(match) ==
    LET inputs == Range(match.inputTokens)
        exhausted == {id \in inputs : destroyerEventsCount'[id] >= MaxDestroyerEvents}
    IN  \/ /\ MaxDestroyerEvents = 1
           /\ matches' = matches \ Involving(inputs)
           /\ indexedTokens' = indexedTokens \ inputs
           /\ destroyedTokenCount' = destroyedTokenCount + Len(match.inputTokens)
        \/ /\ MaxDestroyerEvents = Disabled
           /\ matches' = matches \ {match}
           /\ UNCHANGED <<indexedTokens, destroyedTokenCount>>
        \/ /\ MaxDestroyerEvents \notin {1, Disabled}
           /\ matches' = matches \ ({match} \cup Involving(exhausted))
           /\ indexedTokens' = indexedTokens \ exhausted
           /\ UNCHANGED destroyedTokenCount

\* The names of new atoms are used up: incrementNextAtom throws, when some atoms
\* of the event may already have been counted.
RunOutOfAtoms(match) ==
    LET explicitOutputs == ExplicitOutputs(match)
    IN  /\ stage = "indexed" /\ match \in matches
        /\ HasMultipleHistories
             \/ FinalStateLimit(InputAtoms(match), explicitOutputs) = "NotTerminated"
        /\ nextAtom + Cardinality(NewPatterns(explicitOutputs)) > LargestAtom
        /\ nextAtom' = LargestAtom
        /\ Return("NotTerminated")
        /\ UNCHANGED <<graphVars, tokens, atomDegrees, destroyedTokenCount, matcherVars, stepSpec>>

\* The rest of replaceOnce instantiates the match that was chosen.
Instantiate(match) ==
    LET explicitOutputs == ExplicitOutputs(match)
        namedOutputs == NamedOutputs(explicitOutputs)
    IN  /\ stage = "indexed" /\ match \in matches
        /\ HasMultipleHistories
             \/ FinalStateLimit(InputAtoms(match), explicitOutputs) = "NotTerminated"
        /\ nextAtom + Cardinality(NewPatterns(explicitOutputs)) <= LargestAtom
        /\ nextAtom' = nextAtom + Cardinality(NewPatterns(explicitOutputs))
        /\ Graph!AddEvent(match.rule, match.inputTokens, Len(namedOutputs))
        /\ AddTokens(namedOutputs)
        /\ ForgetDestroyed(match)
        /\ \/ HasMultipleHistories /\ UNCHANGED atomDegrees
           \/ /\ ~HasMultipleHistories
              /\ atomDegrees' = UpdatedDegrees(
                   IF MaxDestroyerEvents = 1 THEN InputAtoms(match) ELSE <<>>, namedOutputs)
        /\ call' = IF call = "replaceOnce" THEN "none" ELSE call
        /\ stage' = "begin"
        /\ UNCHANGED <<newMatches, stepSpec, terminationReason>>

\* maxCompleteGeneration indexes, and returns CompleteGeneration or throws.
MaxCompleteGeneration ==
    /\ call = "none"
    /\ IndexNewTokens \/ AbortIndexing
    /\ UNCHANGED <<graphVars, stateVars, stepSpec, terminationReason, call, stage>>

Next ==
    \/ \E spec \in StepSpecs : Replace(spec)
    \/ ReplaceOnce
    \/ StopAtMaxEvents
    \/ Index
    \/ Abort
    \/ StopWithoutMatches
    \/ \E match \in matches : StopAtFinalStateLimit(match)
    \/ \E match \in matches : RunOutOfAtoms(match)
    \/ \E match \in matches : Instantiate(match)
    \/ MaxCompleteGeneration

Spec == Init /\ [][Next]_vars

-----------------------------------------------------------------------------
(* Properties.                                                             *)

Match == [rule : RuleIDs, inputTokens : Seq(DOMAIN tokens)]
Limits == {"MaxFinalAtoms", "MaxFinalAtomDegree", "MaxFinalTokens"}

\* Every variable of the system, apart from the graph, has its type.
TypeOK ==
    /\ tokens \in Seq(Seq(1..nextAtom)) /\ Len(tokens) = Len(creatorEvents)
    /\ nextAtom \in 1..LargestAtom
    /\ \A atom \in DOMAIN atomDegrees : atom \in 1..nextAtom /\ atomDegrees[atom] \in Nat \ {0}
    /\ destroyedTokenCount \in 0..Len(tokens)
    /\ indexedTokens \subseteq DOMAIN tokens /\ unindexedTokens \subseteq DOMAIN tokens
    /\ matches \subseteq Match /\ newMatches \subseteq Match
    /\ stepSpec \in StepSpecs \cup {NoSteps, AllSteps}
    /\ terminationReason \in Limits \cup {"NotTerminated", "MaxEvents", "MaxGenerationsLocal",
                                          "Complete", "Aborted", "TimeConstrained"}
    /\ call \in {"none", "replace", "replaceOnce"} /\ stage \in {"begin", "indexed"}

LiveTokens == {id \in DOMAIN tokens : destroyerEventsCount[id] < MaxDestroyerEvents}

\* The matches a search through all live tokens would find and the history does
\* not already have.
PossibleMatches ==
    {match \in MatchesAmong(LiveTokens) :
        \A e \in DOMAIN events :
            <<events[e].rule, events[e].inputTokens>> # <<match.rule, match.inputTokens>>}

MatchGeneration(match) ==
    Max({Graph!TokenGeneration(id) : id \in Range(match.inputTokens)})

\* The incremental search is exact: when the next match is about to be taken, the
\* queue holds every possible match of tokens below the last generation, and no
\* other, whatever calls, aborts and changes of the limits came before.
QueueIsExact ==
    stage = "indexed" =>
        matches = {match \in PossibleMatches :
                      MatchGeneration(match) < stepSpec.maxGenerationsLocal}

\* A system that reports a fixed point is at one.
CompleteMeansFixedPoint == terminationReason = "Complete" => PossibleMatches = {}

\* Mutation: the generation of the next event in place of that of its inputs.
CompleteGenerationOfEvents ==
    Min({largestGeneration} \cup {MatchGeneration(match) + 1 : match \in matches})

\* maxCompleteGeneration and smallestGeneration: what the code answers.
CompleteGeneration ==
    Min({largestGeneration} \cup {MatchGeneration(match) : match \in matches})

\* maxCompleteGeneration, once it has indexed, returns the largest generation that
\* has been reached and that no possible match would add an event to.
LargestCompleteGeneration ==
    Max({g \in 0..largestGeneration :
            \A match \in PossibleMatches : MatchGeneration(match) + 1 > g})

MaxCompleteGenerationRight ==
    (call = "none" /\ unindexedTokens = {}) => CompleteGeneration = LargestCompleteGeneration

\* The counters behind the limits of the final state, which are only ever updated
\* by differences, agree with the tokens that are left.
FinalState == [i \in LiveTokens |-> tokens[i]]

CountersAgree ==
    ~HasMultipleHistories =>
        /\ Len(tokens) - destroyedTokenCount = Cardinality(LiveTokens)
        /\ DOMAIN atomDegrees = AtomsOf(FinalState)
        /\ \A atom \in DOMAIN atomDegrees : atomDegrees[atom] = DegreeIn(atom, FinalState)

\* An event never leaves the final state over a limit: not over the number of
\* atoms or tokens, and no atom it touches over the degree.
WithinFinalLimits ==
    /\ Cardinality(AtomsOf(FinalState)) <= stepSpec.maxFinalAtoms
    /\ Cardinality(LiveTokens) <= stepSpec.maxFinalTokens
    /\ LET newest == events[Len(events)]
       IN  \A id \in Range(newest.inputTokens) \cup Range(newest.outputTokens) :
             \A atom \in Range(tokens[id]) :
                 DegreeIn(atom, FinalState) <= stepSpec.maxFinalAtomDegree

EventsRespectFinalLimits ==
    [][~HasMultipleHistories /\ events' # events => WithinFinalLimits']_vars

\* No token is destroyed by more events than the caller allowed.
DestroyersWithinMaximum ==
    \A id \in DOMAIN tokens : destroyerEventsCount[id] <= MaxDestroyerEvents

\* No event is instantiated twice.
EventsDiffer ==
    \A e, f \in DOMAIN events :
        e # f => \/ events[e].rule # events[f].rule
                 \/ events[e].inputTokens # events[f].inputTokens

\* Tokens of the last generation are never matched.
EventsWithinGenerations ==
    [][events' # events => events'[Len(events')].generation <= stepSpec.maxGenerationsLocal]_vars

\* The atoms an event names anew are in no token and in no rule before, and
\* differ from each other.
RuleAtoms == UNION {AtomsOf(RuleList[r].inputs) \cup AtomsOf(RuleList[r].outputs) : r \in RuleIDs}

NewestEventNamesNewAtoms ==
    LET newest == events'[Len(events')]
        outputs == ExplicitOutputs([rule |-> newest.rule, inputTokens |-> newest.inputTokens])
        Named(place) == tokens'[newest.outputTokens[place[1]]][place[2]]
    IN  \A place \in Places(outputs) :
          AtomAt(outputs, place) < 0 =>
            /\ Named(place) \notin AtomsOf(tokens) \cup RuleAtoms
            /\ \A other \in Places(outputs) :
                 AtomAt(outputs, other) = AtomAt(outputs, place) <=> Named(other) = Named(place)

NewAtomsAreNew == [][events' # events => NewestEventNamesNewAtoms]_vars

\* The system is an environment the graph may have: it instantiates only distinct
\* inputs that are not used up and, for a Spacelike rule, were found spacelike.
ImplementsGraph == Graph!Spec
=============================================================================
