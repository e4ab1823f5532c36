-------------------------- MODULE TokenEventGraph --------------------------
(***************************************************************************)
(* The causal graph of tokens and events: libSetReplace/TokenEventGraph.   *)
(*                                                                         *)
(* Tokens are created by exactly one event and may be destroyed by several *)
(* (a multihistory).  The graph remembers creators, counts destroyers,     *)
(* layers events into generations and, when separations are tracked, keeps *)
(* for every event the destroyer each token must have for the event to be  *)
(* possible.                                                               *)
(*                                                                         *)
(* Identifiers are the source's plus one: event 1 is the "fake" initial    *)
(* event and token 1 the first initial token.  The caller of addEvent      *)
(* (HypergraphSubstitutionSystem::replaceOnce) is the environment; all the *)
(* graph may assume of it is CanInstantiate.                               *)
(***************************************************************************)
EXTENDS Integers, Sequences, FiniteSets, Functions

CONSTANTS
    Rules,               \* rule identifiers
    SpacelikeRules,      \* those whose eventSelectionFunction is Spacelike
    MaxDestroyerEvents,  \* allowed destroyer events per token
    SeparationTracking,  \* "None" or "DestroyerChoices"
    InitialTokenCounts,  \* the possible numbers of initial tokens
    OutputCounts,        \* the possible numbers of output tokens of an event
    InputCounts,         \* the possible numbers of input tokens of an event
    MaxEvents            \* bound on the instantiated events

InitialConditionRule == -1

ASSUME RulesAssumption == Rules \subseteq Nat /\ SpacelikeRules \subseteq Rules

ASSUME CountsAssumption ==
    /\ InitialTokenCounts \subseteq Nat
    /\ OutputCounts \subseteq Nat
    /\ MaxDestroyerEvents \in Nat
    /\ InputCounts \subseteq Nat
    /\ MaxEvents \in Nat

ASSUME TrackingAssumption == SeparationTracking \in {"None", "DestroyerChoices"}

VARIABLES
    events,                \* events_
    creatorEvents,         \* tokenIDsToCreatorEvents_
    destroyerEventsCount,  \* tokenIDsToDestroyerEventsCount_
    largestGeneration,     \* largestGeneration_
    destroyerChoices,      \* destroyerChoices_
    isSpacelikeEvolution   \* isSpacelikeEvolution_

vars == <<events, creatorEvents, destroyerEventsCount, largestGeneration,
          destroyerChoices, isSpacelikeEvolution>>

AllEventIDs == DOMAIN events
AllTokenIDs == DOMAIN creatorEvents
EventsCount == Len(events) - 1

Larger(m, n) == IF m >= n THEN m ELSE n

TokenGeneration(id) == events[creatorEvents[id]].generation

\* The choices an existing token's creator imposes.
PrerequisiteChoices(id) == destroyerChoices[creatorEvents[id]]

-----------------------------------------------------------------------------
(* Separation of two tokens.  The order of the cases is the code's.        *)

TimelikeByChoices(first, second) ==
    \/ second \in DOMAIN PrerequisiteChoices(first)
    \/ first \in DOMAIN PrerequisiteChoices(second)

BranchlikeByChoices(first, second) ==
    \E token \in DOMAIN PrerequisiteChoices(first)
                   \cap DOMAIN PrerequisiteChoices(second) :
        PrerequisiteChoices(first)[token] # PrerequisiteChoices(second)[token]

\* Mutation: destroyers chosen differently are not compared.
SeparationByAncestry(first, second) ==
    IF ~isSpacelikeEvolution \/ SeparationTracking = "None" THEN "Unknown"
    ELSE IF first = second THEN "Identical"
    ELSE IF TimelikeByChoices(first, second) THEN "Timelike"
    ELSE "Spacelike"

TokenSeparation(first, second) ==
    IF ~isSpacelikeEvolution \/ SeparationTracking = "None" THEN "Unknown"
    ELSE IF first = second THEN "Identical"
    ELSE IF TimelikeByChoices(first, second) THEN "Timelike"
    ELSE IF BranchlikeByChoices(first, second) THEN "Branchlike"
    ELSE "Spacelike"

-----------------------------------------------------------------------------
(* Parts of addEvent.                                                      *)

IsInjectiveTuple(tuple) ==
    \A i, j \in DOMAIN tuple : i # j => tuple[i] # tuple[j]

InputTuples == UNION {[1..n -> AllTokenIDs] : n \in InputCounts}

\* Mutation: the generation after that of the first input.
GenerationAfterFirst(inputTokens) ==
    IF inputTokens = <<>> THEN 0 ELSE 1 + TokenGeneration(inputTokens[1])

NewEventGeneration(inputTokens) ==
    IF inputTokens = <<>>
    THEN 0
    ELSE LET generations == {TokenGeneration(id) : id \in Range(inputTokens)}
         IN  1 + (CHOOSE g \in generations : \A h \in generations : h <= g)

\* Mutation: identifiers start one too far.
NewTokensShifted(count) == [i \in 1..count |-> Len(creatorEvents) + i + 1]

NewTokens(count) == [i \in 1..count |-> Len(creatorEvents) + i]

\* Mutation: inputs are compared in both orders.
InconsistentInAnyOrder(inputTokens) ==
    \E i, j \in DOMAIN inputTokens :
        \/ inputTokens[i] \in DOMAIN PrerequisiteChoices(inputTokens[j])
        \/ BranchlikeByChoices(inputTokens[i], inputTokens[j])

\* The merge of the prerequisites of all inputs fails.  The code goes through
\* the inputs in order and first makes the new event the destroyer of the
\* input, overwriting what an earlier input required: only a requirement that
\* comes with the input or after it is compared.
InconsistentPrerequisites(inputTokens) ==
    \E i, j \in DOMAIN inputTokens :
        /\ i <= j
        /\ \/ inputTokens[i] \in DOMAIN PrerequisiteChoices(inputTokens[j])
           \/ BranchlikeByChoices(inputTokens[i], inputTokens[j])

\* Mutation: what the inputs' creators require is not inherited.
DirectChoices(inputTokens, newEvent) == [token \in Range(inputTokens) |-> newEvent]

\* The merged prerequisites of event newEvent, when they are consistent.
MergedChoices(inputTokens, newEvent) ==
    LET inputs == Range(inputTokens)
        inherited == UNION {DOMAIN PrerequisiteChoices(id) : id \in inputs}
        carrier(token) ==
            CHOOSE id \in inputs : token \in DOMAIN PrerequisiteChoices(id)
    IN  [token \in inputs \cup inherited |->
            IF token \in inputs THEN newEvent
            ELSE PrerequisiteChoices(carrier(token))[token]]

\* Mutation: the new destroyer is also entered in the choices of the inputs'
\* creators, as if they were changed through a reference.
AddChoicesInPlace(inputTokens, newEvent) ==
    \/ /\ SeparationTracking = "None" \/ ~isSpacelikeEvolution
       /\ UNCHANGED <<destroyerChoices, isSpacelikeEvolution>>
    \/ /\ SeparationTracking = "DestroyerChoices" /\ isSpacelikeEvolution
       /\ destroyerChoices' =
            [e \in 1..newEvent |->
                IF e = newEvent THEN MergedChoices(inputTokens, newEvent)
                ELSE LET changed == {id \in Range(inputTokens) : creatorEvents[id] = e}
                     IN  [id \in DOMAIN destroyerChoices[e] \cup changed |->
                            IF id \in changed THEN newEvent ELSE destroyerChoices[e][id]]]
       /\ UNCHANGED isSpacelikeEvolution

\* addLastEventDestroyerChoices, with newEvent = Len(events) + 1.
AddLastEventDestroyerChoices(inputTokens, newEvent) ==
    \/ /\ SeparationTracking = "None" \/ ~isSpacelikeEvolution
       /\ UNCHANGED <<destroyerChoices, isSpacelikeEvolution>>
    \/ /\ SeparationTracking = "DestroyerChoices" /\ isSpacelikeEvolution
       /\ InconsistentPrerequisites(inputTokens)
       /\ isSpacelikeEvolution' = FALSE
       /\ destroyerChoices' = <<>>
    \/ /\ SeparationTracking = "DestroyerChoices" /\ isSpacelikeEvolution
       /\ ~InconsistentPrerequisites(inputTokens)
       /\ destroyerChoices' =
            Append(destroyerChoices, MergedChoices(inputTokens, newEvent))
       /\ UNCHANGED isSpacelikeEvolution

-----------------------------------------------------------------------------
(* The state machine.                                                      *)

NoChoices == [token \in {} |-> 0]

Init ==
    \E count \in InitialTokenCounts :
        /\ events = <<[rule |-> InitialConditionRule,
                       inputTokens |-> <<>>,
                       outputTokens |-> [i \in 1..count |-> i],
                       generation |-> 0]>>
        /\ creatorEvents = [i \in 1..count |-> 1]
        /\ destroyerEventsCount = [i \in 1..count |-> 0]
        /\ largestGeneration = 0
        /\ destroyerChoices =
            IF SeparationTracking = "DestroyerChoices" THEN <<NoChoices>> ELSE <<>>
        /\ isSpacelikeEvolution = TRUE

\* addEvent(ruleID, inputTokens, outputTokenCount)
AddEvent(rule, inputTokens, outputTokenCount) ==
    LET newEvent == Len(events) + 1
        generation == NewEventGeneration(inputTokens)
    IN  /\ destroyerEventsCount' =
             [id \in 1..(Len(creatorEvents) + outputTokenCount) |->
                IF id \in Range(inputTokens) THEN destroyerEventsCount[id] + 1
                ELSE IF id \in AllTokenIDs THEN destroyerEventsCount[id] ELSE 0]
        /\ creatorEvents' =
             creatorEvents \o [i \in 1..outputTokenCount |-> newEvent]
        /\ events' = Append(events, [rule |-> rule,
                                     inputTokens |-> inputTokens,
                                     outputTokens |-> NewTokens(outputTokenCount),
                                     generation |-> generation])
        /\ largestGeneration' = Larger(largestGeneration, generation)
        /\ AddLastEventDestroyerChoices(inputTokens, newEvent)

\* Mutation: a token may be used once more than allowed.
CanInstantiateOnceMore(rule, inputTokens) ==
    /\ IsInjectiveTuple(inputTokens)
    /\ \A id \in Range(inputTokens) : destroyerEventsCount[id] <= MaxDestroyerEvents
    /\ (rule \in SpacelikeRules /\ isSpacelikeEvolution) =>
         \A i, j \in DOMAIN inputTokens :
             i # j => TokenSeparation(inputTokens[i], inputTokens[j]) = "Spacelike"

\* What replaceOnce and the matcher guarantee of the events they add: inputs
\* are distinct, none is used up, and those of a Spacelike rule are pairwise
\* spacelike separated (HypergraphMatcher::isSpacelikeSeparated).  A match found
\* spacelike stays in the queue when the tracking is abandoned.
CanInstantiate(rule, inputTokens) ==
    /\ IsInjectiveTuple(inputTokens)
    /\ \A id \in Range(inputTokens) : destroyerEventsCount[id] < MaxDestroyerEvents
    /\ (rule \in SpacelikeRules /\ isSpacelikeEvolution) =>
         \A i, j \in DOMAIN inputTokens :
             i # j => TokenSeparation(inputTokens[i], inputTokens[j]) = "Spacelike"

Next ==
    /\ EventsCount < MaxEvents
    /\ \E rule \in Rules, inputTokens \in InputTuples, count \in OutputCounts :
         /\ CanInstantiate(rule, inputTokens)
         /\ AddEvent(rule, inputTokens, count)

Spec == Init /\ [][Next]_vars

-----------------------------------------------------------------------------
(* Properties.                                                             *)

Event == [rule : Rules \cup {InitialConditionRule},
          inputTokens : Seq(AllTokenIDs),
          outputTokens : Seq(AllTokenIDs),
          generation : Nat]

\* Every variable has its type; while an evolution is tracked there is one
\* entry of destroyerChoices_ per event, over existing tokens and events.
TypeOK ==
    /\ events \in Seq(Event)
    /\ creatorEvents \in Seq(AllEventIDs)
    /\ destroyerEventsCount \in Seq(Nat)
    /\ Len(destroyerEventsCount) = Len(creatorEvents)
    /\ largestGeneration \in Nat
    /\ isSpacelikeEvolution \in BOOLEAN
    /\ (SeparationTracking = "DestroyerChoices" /\ isSpacelikeEvolution) =>
         /\ DOMAIN destroyerChoices = AllEventIDs
         /\ \A e \in AllEventIDs : /\ DOMAIN destroyerChoices[e] \subseteq AllTokenIDs
                                   /\ Range(destroyerChoices[e]) \subseteq AllEventIDs

\* An event comes after the events that created its inputs.
CausalOrder ==
    \A e \in AllEventIDs : \A id \in Range(events[e].inputTokens) : creatorEvents[id] < e

\* An event is one generation above the latest of its inputs.
GenerationLayers ==
    \A e \in AllEventIDs :
        /\ \A id \in Range(events[e].inputTokens) :
             TokenGeneration(id) < events[e].generation
        /\ events[e].inputTokens # <<>> =>
             \E id \in Range(events[e].inputTokens) :
                 events[e].generation = TokenGeneration(id) + 1

\* The creator of a token is the event that lists it as an output.
CreatorsOfOutputs ==
    \A e \in AllEventIDs : \A id \in AllTokenIDs :
        creatorEvents[id] = e <=> id \in Range(events[e].outputTokens)

\* largestGeneration_ is reached by an event and exceeded by none.
LargestGenerationReached ==
    /\ \A e \in AllEventIDs : events[e].generation <= largestGeneration
    /\ \E e \in AllEventIDs : events[e].generation = largestGeneration

\* The graph is causal and layered: tokens never depend on their own
\* generation, and the bookkeeping of creators and of the largest generation
\* agrees with the list of events.
CausalLayers ==
    CausalOrder /\ GenerationLayers /\ CreatorsOfOutputs /\ LargestGenerationReached

Destroyers(id) == {e \in AllEventIDs : id \in Range(events[e].inputTokens)}

\* The counter that decides when a token is used up is the number of events in
\* the history that have the token as an input, and it never passes the maximum.
DestroyersCounted ==
    \A id \in AllTokenIDs :
        /\ destroyerEventsCount[id] = Cardinality(Destroyers(id))
        /\ destroyerEventsCount[id] <= MaxDestroyerEvents

\* When every rule is Spacelike, comparing the inputs pairwise is enough: the
\* prerequisites of more than two inputs always merge consistently, so tracking
\* is never abandoned (the return at the "not spacelike" comment is not taken).
SpacelikeRulesKeepTracking ==
    (SpacelikeRules = Rules /\ SeparationTracking = "DestroyerChoices") =>
        isSpacelikeEvolution

\* A match is checked for separation when it is found and instantiated much
\* later: the answer for two existing tokens must not change in between, except
\* to Unknown when tracking is abandoned.
SeparationsKept ==
    \A first, second \in AllTokenIDs :
        TokenSeparation(first, second)' \in {TokenSeparation(first, second), "Unknown"}

SeparationStable == [][SeparationsKept]_vars
=============================================================================
