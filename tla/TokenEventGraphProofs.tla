----------------------- MODULE TokenEventGraphProofs -----------------------
(***************************************************************************)
(* Theorems about TokenEventGraph, for every set of rules, every number of *)
(* tokens, inputs, outputs and events.                                     *)
(***************************************************************************)
EXTENDS CausalCones, ArithmeticLemmas, FiniteSetTheorems, SequenceTheorems, TLAPS

-----------------------------------------------------------------------------
(* The types, with the shapes the provers like.                            *)

\* The prerequisites of an event: a destroyer event for some of the tokens.
DestroyerMaps == UNION {[ids -> AllEventIDs] : ids \in SUBSET AllTokenIDs}

GraphTyped ==
    /\ events \in Seq(Event)
    /\ creatorEvents \in Seq(AllEventIDs)
    /\ destroyerEventsCount \in Seq(Nat)
    /\ Len(destroyerEventsCount) = Len(creatorEvents)
    /\ largestGeneration \in Nat
    /\ isSpacelikeEvolution \in BOOLEAN
    /\ (SeparationTracking = "DestroyerChoices" /\ isSpacelikeEvolution) =>
         destroyerChoices \in Seq(DestroyerMaps) /\ Len(destroyerChoices) = Len(events)

\* These types are at least those the runs check.
LEMMA GraphTypedIsTypeOK == GraphTyped => TypeOK
<1> SUFFICES ASSUME GraphTyped, SeparationTracking = "DestroyerChoices", isSpacelikeEvolution
             PROVE  /\ DOMAIN destroyerChoices = AllEventIDs
                    /\ \A e \in AllEventIDs :
                         /\ DOMAIN destroyerChoices[e] \subseteq AllTokenIDs
                         /\ Range(destroyerChoices[e]) \subseteq AllEventIDs
  BY DEF GraphTyped, TypeOK
<1>1. /\ destroyerChoices \in Seq(DestroyerMaps) /\ events \in Seq(Event)
      /\ Len(destroyerChoices) = Len(events)
  BY DEF GraphTyped
<1>2. DOMAIN destroyerChoices = AllEventIDs
  BY <1>1 DEF AllEventIDs
<1>3. ASSUME NEW e \in AllEventIDs
      PROVE  /\ DOMAIN destroyerChoices[e] \subseteq AllTokenIDs
             /\ Range(destroyerChoices[e]) \subseteq AllEventIDs
  <2>1. destroyerChoices[e] \in DestroyerMaps
    BY <1>1, <1>2, <1>3
  <2>2. PICK ids \in SUBSET AllTokenIDs : destroyerChoices[e] \in [ids -> AllEventIDs]
    BY <2>1 DEF DestroyerMaps
  <2> QED  BY <2>2 DEF Range
<1> QED  BY <1>2, <1>3

-----------------------------------------------------------------------------
(* What an event added by the caller is, and what adding it does.          *)

\* The inputs of a new event: a tuple of existing tokens.
LEMMA InputTupleType ==
    ASSUME GraphTyped, NEW inputTokens \in InputTuples
    PROVE  /\ inputTokens \in Seq(AllTokenIDs)
           /\ Len(inputTokens) \in Nat
           /\ DOMAIN inputTokens = 1..Len(inputTokens)
           /\ \A i \in DOMAIN inputTokens : inputTokens[i] \in AllTokenIDs
           /\ Range(inputTokens) \subseteq AllTokenIDs
           /\ inputTokens # <<>> => Range(inputTokens) # {}
<1>1. PICK n \in InputCounts : inputTokens \in [1..n -> AllTokenIDs]
  BY DEF InputTuples
<1>2. n \in Nat
  BY <1>1, CountsAssumption
<1>3. inputTokens \in Seq(AllTokenIDs) /\ Len(inputTokens) = n
  BY <1>1, <1>2
<1>4. DOMAIN inputTokens = 1..n
  BY <1>1
<1>5. Range(inputTokens) \subseteq AllTokenIDs
  BY <1>1 DEF Range
<1>6. ASSUME inputTokens # <<>> PROVE Range(inputTokens) # {}
  <2>1. 1 \in DOMAIN inputTokens
    BY <1>2, <1>3, <1>4, <1>6
  <2> QED  BY <2>1 DEF Range
<1> QED  BY <1>1, <1>2, <1>3, <1>4, <1>5, <1>6

\* Lengths and domains, as the provers like them.
LEMMA Domains ==
    ASSUME GraphTyped
    PROVE  /\ Len(events) \in Nat /\ AllEventIDs = 1..Len(events)
           /\ Len(creatorEvents) \in Nat /\ AllTokenIDs = 1..Len(creatorEvents)
           /\ DOMAIN destroyerEventsCount = 1..Len(creatorEvents)
           /\ \A id \in AllTokenIDs : /\ creatorEvents[id] \in AllEventIDs
                                      /\ destroyerEventsCount[id] \in Nat
                                      /\ TokenGeneration(id) \in Nat
           /\ \A e \in AllEventIDs : /\ events[e] \in Event
                                     /\ events[e].generation \in Nat
                                     /\ events[e].inputTokens \in Seq(AllTokenIDs)
                                     /\ events[e].outputTokens \in Seq(AllTokenIDs)
                                     /\ Range(events[e].inputTokens) \subseteq AllTokenIDs
<1>1. events \in Seq(Event) /\ creatorEvents \in Seq(AllEventIDs)
  BY DEF GraphTyped
<1>2. Len(events) \in Nat /\ AllEventIDs = 1..Len(events)
  BY <1>1 DEF AllEventIDs
<1>3. Len(creatorEvents) \in Nat /\ AllTokenIDs = 1..Len(creatorEvents)
  BY <1>1 DEF AllTokenIDs
<1>4. /\ DOMAIN destroyerEventsCount = 1..Len(creatorEvents)
      /\ \A id \in AllTokenIDs : destroyerEventsCount[id] \in Nat
  BY <1>3 DEF GraphTyped
<1>5. \A e \in AllEventIDs : events[e] \in Event
  BY <1>1, <1>2
<1>6. \A e \in AllEventIDs : /\ events[e].generation \in Nat
                             /\ events[e].inputTokens \in Seq(AllTokenIDs)
                             /\ events[e].outputTokens \in Seq(AllTokenIDs)
  BY <1>5 DEF Event
<1>7. \A id \in AllTokenIDs : creatorEvents[id] \in AllEventIDs
  BY <1>1, <1>3
<1>8. \A id \in AllTokenIDs : TokenGeneration(id) \in Nat
  BY <1>6, <1>7 DEF TokenGeneration
<1>9. \A e \in AllEventIDs : Range(events[e].inputTokens) \subseteq AllTokenIDs
  BY <1>6 DEF Range
<1> QED  BY <1>2, <1>3, <1>4, <1>5, <1>6, <1>7, <1>8, <1>9

\* A new event that has inputs is one generation above the latest of them.
LEMMA NewGenerationAboveInputs ==
    ASSUME GraphTyped, CausalLayers, NEW inputTokens \in InputTuples, inputTokens # <<>>
    PROVE  /\ NewEventGeneration(inputTokens) \in Nat
           /\ \A id \in Range(inputTokens) :
                TokenGeneration(id) < NewEventGeneration(inputTokens)
           /\ \E id \in Range(inputTokens) :
                NewEventGeneration(inputTokens) = TokenGeneration(id) + 1
<1> DEFINE generations == {TokenGeneration(id) : id \in Range(inputTokens)}
           latest == CHOOSE g \in generations : \A h \in generations : h <= g
<1>1. Range(inputTokens) \subseteq AllTokenIDs /\ Range(inputTokens) # {}
  BY InputTupleType
<1>2. generations \subseteq Nat /\ generations # {}
  BY <1>1, Domains
<1>3. largestGeneration \in Nat /\ \A g \in generations : g <= largestGeneration
  BY <1>1, Domains DEF CausalLayers, LargestGenerationReached, GraphTyped, TokenGeneration
<1>4. \E g \in generations : \A h \in generations : h <= g
  <2> HIDE DEF generations
  <2> QED  BY <1>2, <1>3, LargestElement
<1>5. latest \in generations /\ \A h \in generations : h <= latest
  BY <1>4
<1>6. NewEventGeneration(inputTokens) = 1 + latest
  BY InputTupleType DEF NewEventGeneration
<1>7. latest \in Nat
  BY <1>2, <1>5
<1>8. \A id \in Range(inputTokens) :
        TokenGeneration(id) \in Nat /\ TokenGeneration(id) <= latest
  BY <1>2, <1>5
<1>9. \E id \in Range(inputTokens) : latest = TokenGeneration(id)
  BY <1>5
<1> HIDE DEF latest, generations
<1> QED  BY <1>6, <1>7, <1>8, <1>9

\* The same for any event: one without inputs is in generation zero.
LEMMA NewGeneration ==
    ASSUME GraphTyped, CausalLayers, NEW inputTokens \in InputTuples
    PROVE  /\ NewEventGeneration(inputTokens) \in Nat
           /\ \A id \in Range(inputTokens) :
                TokenGeneration(id) < NewEventGeneration(inputTokens)
           /\ inputTokens # <<>> =>
                \E id \in Range(inputTokens) :
                  NewEventGeneration(inputTokens) = TokenGeneration(id) + 1
<1>1. CASE inputTokens = <<>>
  <2>1. NewEventGeneration(inputTokens) = 0
    BY <1>1 DEF NewEventGeneration
  <2>2. Range(inputTokens) = {}
    BY <1>1 DEF Range
  <2> QED  BY <1>1, <2>1, <2>2
<1>2. CASE inputTokens # <<>>
  BY <1>2, NewGenerationAboveInputs
<1> QED  BY <1>1, <1>2

\* What addEvent leaves of the earlier graph, and what it adds to it.
GraphGrows(rule, inputTokens, count) ==
    /\ count \in Nat
    /\ Len(events') = Len(events) + 1
    /\ AllEventIDs' = AllEventIDs \cup {Len(events) + 1}
    /\ Len(events) + 1 \notin AllEventIDs
    /\ \A e \in AllEventIDs : events'[e] = events[e]
    /\ events'[Len(events) + 1] = [rule |-> rule,
                                  inputTokens |-> inputTokens,
                                  outputTokens |-> NewTokens(count),
                                  generation |-> NewEventGeneration(inputTokens)]
    /\ Len(creatorEvents') = Len(creatorEvents) + count
    /\ AllTokenIDs' = 1..(Len(creatorEvents) + count)
    /\ AllTokenIDs \subseteq AllTokenIDs'
    /\ \A id \in AllTokenIDs : creatorEvents'[id] = creatorEvents[id]
    /\ \A id \in AllTokenIDs' \ AllTokenIDs : creatorEvents'[id] = Len(events) + 1
    /\ \A id \in AllTokenIDs : TokenGeneration(id)' = TokenGeneration(id)
    /\ creatorEvents' \in Seq(AllEventIDs')
    /\ Range(NewTokens(count)) = AllTokenIDs' \ AllTokenIDs
    /\ NewTokens(count) \in Seq(AllTokenIDs')

\* Adding an event appends it, its tokens and nothing else.
LEMMA AddEventEffect ==
    ASSUME GraphTyped, CausalLayers,
           NEW rule \in Rules, NEW inputTokens \in InputTuples, NEW count \in OutputCounts,
           AddEvent(rule, inputTokens, count)
    PROVE  GraphGrows(rule, inputTokens, count)
<1> DEFINE newEvent == Len(events) + 1
           record == [rule |-> rule, inputTokens |-> inputTokens,
                      outputTokens |-> NewTokens(count),
                      generation |-> NewEventGeneration(inputTokens)]
           created == [i \in 1..count |-> newEvent]
           oldTokens == Len(creatorEvents)
<1>1. count \in Nat
  BY CountsAssumption
<1>2. Len(events) \in Nat /\ AllEventIDs = 1..Len(events)
      /\ oldTokens \in Nat /\ AllTokenIDs = 1..oldTokens
  BY Domains
<1>3. events \in Seq(Event) /\ creatorEvents \in Seq(AllEventIDs)
  BY DEF GraphTyped
<1>4. events' = Append(events, record) /\ creatorEvents' = creatorEvents \o created
  BY DEF AddEvent
<1>5. /\ Len(events') = newEvent
      /\ AllEventIDs' = 1..newEvent
      /\ \A e \in AllEventIDs : events'[e] = events[e]
      /\ events'[newEvent] = record
  BY <1>2, <1>3, <1>4, AppendProperties DEF AllEventIDs
<1>6. created \in Seq(AllEventIDs') /\ Len(created) = count
  BY <1>1, <1>2, <1>5
<1>7. creatorEvents \in Seq(AllEventIDs')
  BY <1>2, <1>3, <1>5
<1>8. /\ creatorEvents' \in Seq(AllEventIDs')
      /\ Len(creatorEvents') = oldTokens + count
      /\ \A i \in 1..(oldTokens + count) :
           creatorEvents'[i] = IF i <= oldTokens THEN creatorEvents[i]
                               ELSE created[i - oldTokens]
  <2> HIDE DEF created
  <2> QED  BY <1>4, <1>6, <1>7, ConcatProperties
<1>9. AllTokenIDs' = 1..(oldTokens + count)
  BY <1>1, <1>2, <1>8 DEF AllTokenIDs
<1>10. /\ AllTokenIDs \subseteq AllTokenIDs'
       /\ \A id \in AllTokenIDs : creatorEvents'[id] = creatorEvents[id]
       /\ \A id \in AllTokenIDs' \ AllTokenIDs : creatorEvents'[id] = newEvent
  BY <1>1, <1>2, <1>8, <1>9
<1>11. \A id \in AllTokenIDs : TokenGeneration(id)' = TokenGeneration(id)
  BY <1>5, <1>10, Domains DEF TokenGeneration
<1>12. /\ Range(NewTokens(count)) = AllTokenIDs' \ AllTokenIDs
       /\ NewTokens(count) \in Seq(AllTokenIDs')
  <2>1. NewTokens(count) = [i \in 1..count |-> oldTokens + i]
    BY DEF NewTokens
  <2>2. Range(NewTokens(count)) = {oldTokens + i : i \in 1..count}
    BY <2>1 DEF Range
  <2>3. \A id \in AllTokenIDs' \ AllTokenIDs : id - oldTokens \in 1..count
                                               /\ id = oldTokens + (id - oldTokens)
    BY <1>1, <1>2, <1>9
  <2>4. \A i \in 1..count : oldTokens + i \in AllTokenIDs' \ AllTokenIDs
    BY <1>1, <1>2, <1>9
  <2>5. NewTokens(count) \in Seq(AllTokenIDs')
    BY <1>1, <2>1, <2>4
  <2> QED  BY <2>2, <2>3, <2>4, <2>5
<1>13. AllEventIDs' = AllEventIDs \cup {newEvent} /\ newEvent \notin AllEventIDs
  BY <1>2, <1>5
<1> HIDE DEF created
<1> QED  BY <1>1, <1>5, <1>8, <1>9, <1>10, <1>11, <1>12, <1>13 DEF GraphGrows

-----------------------------------------------------------------------------
(* Types and causal layers hold in every reachable graph.                  *)

\* The graph of the initial event alone is well typed and layered.
LEMMA InitialGraph == Init => GraphTyped /\ CausalLayers
<1> SUFFICES ASSUME Init PROVE GraphTyped /\ CausalLayers
  OBVIOUS
<1> DEFINE initial(count) == [rule |-> InitialConditionRule,
                              inputTokens |-> <<>>,
                              outputTokens |-> [i \in 1..count |-> i],
                              generation |-> 0]
<1>1. PICK count \in InitialTokenCounts :
        /\ events = <<initial(count)>>
        /\ creatorEvents = [i \in 1..count |-> 1]
        /\ destroyerEventsCount = [i \in 1..count |-> 0]
        /\ largestGeneration = 0
        /\ destroyerChoices =
            IF SeparationTracking = "DestroyerChoices" THEN <<NoChoices>> ELSE <<>>
        /\ isSpacelikeEvolution = TRUE
  BY DEF Init
<1>2. count \in Nat
  BY CountsAssumption
<1>3. AllEventIDs = {1} /\ Len(events) = 1 /\ events[1] = initial(count)
  BY <1>1 DEF AllEventIDs
<1>4. AllTokenIDs = 1..count /\ Len(creatorEvents) = count
  BY <1>1, <1>2 DEF AllTokenIDs
<1>5. [i \in 1..count |-> i] \in Seq(AllTokenIDs) /\ <<>> \in Seq(AllTokenIDs)
  BY <1>2, <1>4
<1>6. initial(count) \in Event
  BY <1>5 DEF Event
<1>7. GraphTyped
  <2>1. events \in Seq(Event)
    BY <1>1, <1>6
  <2>2. creatorEvents \in Seq(AllEventIDs)
    BY <1>1, <1>2, <1>3
  <2>3. destroyerEventsCount \in Seq(Nat) /\ Len(destroyerEventsCount) = Len(creatorEvents)
    BY <1>1, <1>2, <1>4
  <2>4. SeparationTracking = "DestroyerChoices" =>
            destroyerChoices \in Seq(DestroyerMaps) /\ Len(destroyerChoices) = Len(events)
    <3>1. NoChoices \in [{} -> AllEventIDs] /\ {} \in SUBSET AllTokenIDs
      BY DEF NoChoices
    <3>2. NoChoices \in DestroyerMaps
      BY <3>1 DEF DestroyerMaps
    <3> QED  BY <1>1, <1>3, <3>2
  <2> QED  BY <1>1, <2>1, <2>2, <2>3, <2>4 DEF GraphTyped
<1>8. CausalLayers
  <2>1. Range(events[1].inputTokens) = {} /\ events[1].inputTokens = <<>>
    BY <1>3 DEF Range
  <2>2. Range(events[1].outputTokens) = AllTokenIDs
    BY <1>3, <1>4 DEF Range
  <2>3. \A id \in AllTokenIDs : creatorEvents[id] = 1
    BY <1>1, <1>4
  <2>4. CausalOrder /\ GenerationLayers
    BY <1>3, <2>1 DEF CausalOrder, GenerationLayers
  <2>5. CreatorsOfOutputs
    BY <1>3, <2>2, <2>3 DEF CreatorsOfOutputs
  <2>6. LargestGenerationReached
    BY <1>1, <1>3 DEF LargestGenerationReached
  <2> QED  BY <2>4, <2>5, <2>6 DEF CausalLayers
<1> QED  BY <1>7, <1>8

\* More tokens and events allow more destroyer choices.
LEMMA ChoicesGrow ==
    ASSUME NEW S, NEW T, NEW S2, NEW T2, S \subseteq S2, T \subseteq T2
    PROVE  UNION {[ids -> T] : ids \in SUBSET S} \subseteq
             UNION {[ids -> T2] : ids \in SUBSET S2}
<1> SUFFICES ASSUME NEW ids \in SUBSET S, NEW f \in [ids -> T]
             PROVE  f \in [ids -> T2] /\ ids \in SUBSET S2
  OBVIOUS
<1> QED  OBVIOUS

\* What the creator of an existing token requires of its history.
LEMMA PrerequisitesType ==
    ASSUME GraphTyped, SeparationTracking = "DestroyerChoices", isSpacelikeEvolution,
           NEW id \in AllTokenIDs
    PROVE  /\ PrerequisiteChoices(id) \in DestroyerMaps
           /\ DOMAIN PrerequisiteChoices(id) \subseteq AllTokenIDs
           /\ \A token \in DOMAIN PrerequisiteChoices(id) :
                PrerequisiteChoices(id)[token] \in AllEventIDs
<1>1. creatorEvents[id] \in 1..Len(destroyerChoices) /\ destroyerChoices \in Seq(DestroyerMaps)
  BY Domains DEF GraphTyped
<1>2. PrerequisiteChoices(id) \in DestroyerMaps
  BY <1>1 DEF PrerequisiteChoices
<1> QED  BY <1>2 DEF DestroyerMaps

\* The merged prerequisites are over existing tokens; the inputs are destroyed
\* by the new event, all other tokens as some input requires.
LEMMA MergedChoicesType ==
    ASSUME GraphTyped, SeparationTracking = "DestroyerChoices", isSpacelikeEvolution,
           NEW inputTokens \in InputTuples, NEW newEvent
    PROVE  LET merged == MergedChoices(inputTokens, newEvent)
           IN  /\ merged \in UNION {[ids -> AllEventIDs \cup {newEvent}] :
                                     ids \in SUBSET AllTokenIDs}
               /\ \A token \in DOMAIN merged :
                    \/ token \in Range(inputTokens) /\ merged[token] = newEvent
                    \/ /\ token \notin Range(inputTokens)
                       /\ \E id \in Range(inputTokens) :
                            /\ token \in DOMAIN PrerequisiteChoices(id)
                            /\ merged[token] = PrerequisiteChoices(id)[token]
               /\ Range(inputTokens) \subseteq DOMAIN merged
               /\ \A id \in Range(inputTokens) :
                    DOMAIN PrerequisiteChoices(id) \subseteq DOMAIN merged
<1> DEFINE inputs == Range(inputTokens)
           inherited == UNION {DOMAIN PrerequisiteChoices(id) : id \in inputs}
           carrier(token) ==
               CHOOSE id \in inputs : token \in DOMAIN PrerequisiteChoices(id)
           merged == MergedChoices(inputTokens, newEvent)
<1>1. inputs \subseteq AllTokenIDs
  BY InputTupleType
<1>2. inherited \subseteq AllTokenIDs
  BY <1>1, PrerequisitesType
<1>3. merged = [token \in inputs \cup inherited |->
                  IF token \in inputs THEN newEvent
                  ELSE PrerequisiteChoices(carrier(token))[token]]
  BY DEF MergedChoices
<1>4. \A token \in inherited : /\ carrier(token) \in inputs
                               /\ token \in DOMAIN PrerequisiteChoices(carrier(token))
  OBVIOUS
<1>5. \A token \in inherited :
        PrerequisiteChoices(carrier(token))[token] \in AllEventIDs
  BY <1>1, <1>4, PrerequisitesType
<1>6. \A id \in inputs : DOMAIN PrerequisiteChoices(id) \subseteq inherited
  OBVIOUS
<1> HIDE DEF inputs, inherited, carrier, merged
<1>7. merged \in [inputs \cup inherited -> AllEventIDs \cup {newEvent}]
  BY <1>3, <1>5
<1>8. inputs \cup inherited \in SUBSET AllTokenIDs
  BY <1>1, <1>2
<1>9. merged \in UNION {[ids -> AllEventIDs \cup {newEvent}] : ids \in SUBSET AllTokenIDs}
  BY <1>7, <1>8
<1>10. \A token \in DOMAIN merged :
          \/ token \in inputs /\ merged[token] = newEvent
          \/ /\ token \notin inputs
             /\ \E id \in inputs :
                  /\ token \in DOMAIN PrerequisiteChoices(id)
                  /\ merged[token] = PrerequisiteChoices(id)[token]
  BY <1>3, <1>4
<1>11. inputs \subseteq DOMAIN merged
       /\ \A id \in inputs : DOMAIN PrerequisiteChoices(id) \subseteq DOMAIN merged
  BY <1>3, <1>6
<1> QED  BY <1>9, <1>10, <1>11 DEF merged, inputs

\* An event added to a good graph leaves it well typed.
LEMMA AddEventKeepsTypes ==
    ASSUME GraphTyped, CausalLayers,
           NEW rule \in Rules, NEW inputTokens \in InputTuples, NEW count \in OutputCounts,
           AddEvent(rule, inputTokens, count)
    PROVE  GraphTyped'
<1> DEFINE newEvent == Len(events) + 1
<1>1. GraphGrows(rule, inputTokens, count)
  BY AddEventEffect
<1>2. events' \in Seq(Event')
  <2>1. \A e \in AllEventIDs : events'[e] \in Event'
    <3> SUFFICES ASSUME NEW e \in AllEventIDs PROVE events[e] \in Event'
      BY <1>1 DEF GraphGrows
    <3>1. events[e] \in Event
      BY Domains
    <3>2. AllTokenIDs \subseteq AllTokenIDs'
      BY <1>1 DEF GraphGrows
    <3>3. /\ events[e].inputTokens \in Seq(AllTokenIDs')
          /\ events[e].outputTokens \in Seq(AllTokenIDs')
      BY <3>2, Domains, SeqMonotonic
    <3> QED  BY <3>1, <3>3 DEF Event
  <2>2. events'[newEvent] \in Event'
    <3>1. inputTokens \in Seq(AllTokenIDs')
      BY <1>1, InputTupleType, SeqMonotonic DEF GraphGrows
    <3>2. NewTokens(count) \in Seq(AllTokenIDs')
      BY <1>1 DEF GraphGrows
    <3>3. NewEventGeneration(inputTokens) \in Nat
      BY NewGeneration
    <3> QED  BY <1>1, <3>1, <3>2, <3>3 DEF GraphGrows, Event
  <2>3. Len(events') = newEvent /\ Len(events) \in Nat /\ AllEventIDs = 1..Len(events)
    BY <1>1, Domains DEF GraphGrows
  <2>4. DOMAIN events' = 1..newEvent /\ events' = [e \in 1..newEvent |-> events'[e]]
    <3>1. events \in Seq(Event)
      BY DEF GraphTyped
    <3> QED  BY <2>3, <3>1 DEF AddEvent
  <2>5. \A e \in 1..newEvent : events'[e] \in Event'
    BY <2>1, <2>2, <2>3
  <2> HIDE DEF newEvent
  <2>6. newEvent \in Nat
    BY <2>3 DEF newEvent
  <2> QED  BY <2>4, <2>5, <2>6
<1>3. creatorEvents' \in Seq(AllEventIDs')
  BY <1>1 DEF GraphGrows
<1>4. destroyerEventsCount' \in Seq(Nat) /\ Len(destroyerEventsCount') = Len(creatorEvents')
  <2>1. Len(creatorEvents) \in Nat /\ count \in Nat
        /\ Len(creatorEvents') = Len(creatorEvents) + count
    BY <1>1, Domains DEF GraphGrows
  <2>2. \A id \in AllTokenIDs : destroyerEventsCount[id] \in Nat
    BY Domains
  <2>3. Range(inputTokens) \subseteq AllTokenIDs
    BY InputTupleType
  <2>4. destroyerEventsCount' =
             [id \in 1..(Len(creatorEvents) + count) |->
                IF id \in Range(inputTokens) THEN destroyerEventsCount[id] + 1
                ELSE IF id \in AllTokenIDs THEN destroyerEventsCount[id] ELSE 0]
    BY DEF AddEvent
  <2>5. destroyerEventsCount' \in [1..(Len(creatorEvents) + count) -> Nat]
    BY <2>2, <2>3, <2>4
  <2> QED  BY <2>1, <2>5
<1>5. largestGeneration' \in Nat
  BY NewGeneration DEF AddEvent, GraphTyped, Larger
<1>6. isSpacelikeEvolution' \in BOOLEAN
  BY DEF AddEvent, AddLastEventDestroyerChoices, GraphTyped
<1>7. (SeparationTracking = "DestroyerChoices" /\ isSpacelikeEvolution)' =>
         destroyerChoices' \in Seq(DestroyerMaps') /\ Len(destroyerChoices') = Len(events')
  <2> SUFFICES ASSUME SeparationTracking = "DestroyerChoices", isSpacelikeEvolution'
               PROVE  destroyerChoices' \in Seq(DestroyerMaps') /\ Len(destroyerChoices') = Len(events')
    OBVIOUS
  <2> DEFINE merged == MergedChoices(inputTokens, newEvent)
  <2>1. isSpacelikeEvolution /\ destroyerChoices' = Append(destroyerChoices, merged)
    BY DEF AddEvent, AddLastEventDestroyerChoices
  <2>2. destroyerChoices \in Seq(DestroyerMaps) /\ Len(destroyerChoices) = Len(events)
    BY <2>1 DEF GraphTyped
  <2>3. AllTokenIDs \subseteq AllTokenIDs' /\ AllEventIDs \subseteq AllEventIDs'
        /\ newEvent \in AllEventIDs'
    BY <1>1 DEF GraphGrows
  <2>4. DestroyerMaps \subseteq DestroyerMaps'
    BY <2>3, ChoicesGrow DEF DestroyerMaps
  <2>5. merged \in DestroyerMaps'
    <3>1. merged \in UNION {[ids -> AllEventIDs \cup {newEvent}] : ids \in SUBSET AllTokenIDs}
      BY <2>1, MergedChoicesType
    <3> HIDE DEF merged, newEvent
    <3> QED  BY <2>3, <3>1, ChoicesGrow DEF DestroyerMaps
  <2>6. Len(events') = Len(events) + 1
    BY <1>1 DEF GraphGrows
  <2> HIDE DEF merged
  <2>7. destroyerChoices \in Seq(DestroyerMaps')
    BY <2>2, <2>4, SeqMonotonic
  <2> QED  BY <2>1, <2>2, <2>5, <2>6, <2>7, AppendProperties
<1> QED  BY <1>2, <1>3, <1>4, <1>5, <1>6, <1>7 DEF GraphTyped

\* An event added to a good graph leaves it causal and layered.
LEMMA AddEventKeepsLayers ==
    ASSUME GraphTyped, CausalLayers,
           NEW rule \in Rules, NEW inputTokens \in InputTuples, NEW count \in OutputCounts,
           AddEvent(rule, inputTokens, count)
    PROVE  CausalLayers'
<1> DEFINE newEvent == Len(events) + 1
<1>1. GraphGrows(rule, inputTokens, count)
  BY AddEventEffect
<1>2. /\ AllEventIDs' = AllEventIDs \cup {newEvent}
      /\ AllEventIDs = 1..Len(events) /\ Len(events) \in Nat
      /\ \A e \in AllEventIDs : events'[e] = events[e]
      /\ events'[newEvent].inputTokens = inputTokens
      /\ events'[newEvent].outputTokens = NewTokens(count)
      /\ events'[newEvent].generation = NewEventGeneration(inputTokens)
  BY <1>1, Domains DEF GraphGrows
<1>3. /\ Range(inputTokens) \subseteq AllTokenIDs
      /\ \A e \in AllEventIDs : Range(events[e].inputTokens) \subseteq AllTokenIDs
      /\ \A id \in AllTokenIDs : creatorEvents[id] \in AllEventIDs
      /\ \A id \in AllTokenIDs : creatorEvents'[id] = creatorEvents[id]
      /\ \A id \in AllTokenIDs : TokenGeneration(id)' = TokenGeneration(id)
  BY <1>1, Domains, InputTupleType DEF GraphGrows
<1>4. CausalOrder'
  <2>1. \A e \in AllEventIDs : \A id \in Range(events[e].inputTokens) :
            creatorEvents'[id] < e
    BY <1>3 DEF CausalLayers, CausalOrder
  <2>2. \A id \in Range(inputTokens) : creatorEvents'[id] < newEvent
    BY <1>2, <1>3
  <2> QED  BY <1>2, <2>1, <2>2 DEF CausalOrder
<1>5. GenerationLayers'
  <2>1. \A e \in AllEventIDs :
          /\ \A id \in Range(events[e].inputTokens) :
               TokenGeneration(id)' < events[e].generation
          /\ events[e].inputTokens # <<>> =>
               \E id \in Range(events[e].inputTokens) :
                   events[e].generation = TokenGeneration(id)' + 1
    BY <1>3 DEF CausalLayers, GenerationLayers
  <2>2. /\ \A id \in Range(inputTokens) :
              TokenGeneration(id)' < NewEventGeneration(inputTokens)
        /\ inputTokens # <<>> =>
             \E id \in Range(inputTokens) :
                 NewEventGeneration(inputTokens) = TokenGeneration(id)' + 1
    BY <1>3, NewGeneration
  <2> QED  BY <1>2, <2>1, <2>2 DEF GenerationLayers
<1>6. CreatorsOfOutputs'
  <2>1. /\ AllTokenIDs \subseteq AllTokenIDs'
        /\ \A id \in AllTokenIDs' \ AllTokenIDs : creatorEvents'[id] = newEvent
        /\ Range(NewTokens(count)) = AllTokenIDs' \ AllTokenIDs
    BY <1>1 DEF GraphGrows
  <2>2. \A e \in AllEventIDs : Range(events[e].outputTokens) \subseteq AllTokenIDs
    BY Domains DEF Range
  <2>3. ASSUME NEW e \in AllEventIDs, NEW id \in AllTokenIDs'
        PROVE  creatorEvents'[id] = e <=> id \in Range(events[e].outputTokens)
    <3>1. CASE id \in AllTokenIDs
      BY <1>3, <3>1 DEF CausalLayers, CreatorsOfOutputs
    <3>2. CASE id \notin AllTokenIDs
      BY <1>2, <2>1, <2>2, <3>2
    <3> QED  BY <3>1, <3>2
  <2>4. ASSUME NEW id \in AllTokenIDs'
        PROVE  creatorEvents'[id] = newEvent <=> id \in Range(NewTokens(count))
    BY <1>2, <1>3, <2>1
  <2> QED  BY <1>2, <2>3, <2>4 DEF CreatorsOfOutputs
<1>7. LargestGenerationReached'
  <2>1. largestGeneration \in Nat /\ NewEventGeneration(inputTokens) \in Nat
        /\ largestGeneration' = Larger(largestGeneration, NewEventGeneration(inputTokens))
    BY NewGeneration DEF AddEvent, GraphTyped
  <2>2. largestGeneration' \in Nat
        /\ largestGeneration' >= largestGeneration
        /\ largestGeneration' >= NewEventGeneration(inputTokens)
        /\ \/ largestGeneration' = largestGeneration
           \/ largestGeneration' = NewEventGeneration(inputTokens)
    BY <2>1 DEF Larger
  <2>3. \A e \in AllEventIDs : events[e].generation \in Nat
    BY Domains
  <2>4. \A e \in AllEventIDs : events'[e].generation <= largestGeneration'
    BY <1>2, <2>1, <2>2, <2>3 DEF CausalLayers, LargestGenerationReached
  <2>5. \E e \in AllEventIDs' : events'[e].generation = largestGeneration'
    BY <1>2, <2>2 DEF CausalLayers, LargestGenerationReached
  <2> QED  BY <1>2, <2>1, <2>2, <2>4, <2>5 DEF LargestGenerationReached
<1> QED  BY <1>4, <1>5, <1>6, <1>7 DEF CausalLayers

\* Types and causal layers are inductive together: the generation of an event
\* is bounded by largestGeneration_, which makes it a natural number.
LEMMA GraphInvariantStep ==
    ASSUME GraphTyped, CausalLayers, [Next]_vars
    PROVE  GraphTyped' /\ CausalLayers'
<1>1. CASE Next
  <2>1. PICK rule \in Rules, inputTokens \in InputTuples, count \in OutputCounts :
          AddEvent(rule, inputTokens, count)
    BY <1>1 DEF Next
  <2> QED  BY <2>1, AddEventKeepsTypes, AddEventKeepsLayers
<1>2. CASE UNCHANGED vars
  BY <1>2 DEF vars, GraphTyped, CausalLayers, CausalOrder, GenerationLayers,
              CreatorsOfOutputs, LargestGenerationReached, TokenGeneration,
              AllEventIDs, AllTokenIDs, Event, DestroyerMaps
<1> QED  BY <1>1, <1>2

\* The types hold in every reachable graph.
LEMMA GraphAlwaysTyped == Spec => []GraphTyped
<1>1. GraphTyped /\ CausalLayers /\ [Next]_vars => GraphTyped' /\ CausalLayers'
  BY GraphInvariantStep
<1> QED  BY <1>1, InitialGraph, PTL DEF Spec

\* Every reachable causal graph is well typed: identifiers in events, creators,
\* counters and destroyer choices refer to existing tokens and events.
THEOREM TypeCorrect == Spec => []TypeOK
BY GraphAlwaysTyped, GraphTypedIsTypeOK, PTL

\* Every reachable causal graph is causal and layered by generation, with the
\* creators and largestGeneration_ that its events imply.
THEOREM GraphIsCausal == Spec => []CausalLayers
<1>1. GraphTyped /\ CausalLayers /\ [Next]_vars => GraphTyped' /\ CausalLayers'
  BY GraphInvariantStep
<1> QED  BY <1>1, InitialGraph, PTL DEF Spec

-----------------------------------------------------------------------------
(* The counters of destroyer events.                                       *)

\* An event the caller may add keeps the counters of destroyers right.
LEMMA AddEventCountsDestroyers ==
    ASSUME GraphTyped, CausalLayers, DestroyersCounted,
           NEW rule \in Rules, NEW inputTokens \in InputTuples, NEW count \in OutputCounts,
           CanInstantiate(rule, inputTokens), AddEvent(rule, inputTokens, count)
    PROVE  DestroyersCounted'
<1> DEFINE newEvent == Len(events) + 1
           inputs == Range(inputTokens)
<1>1. GraphGrows(rule, inputTokens, count)
  BY AddEventEffect
<1>2. /\ AllEventIDs' = AllEventIDs \cup {newEvent}
      /\ newEvent \notin AllEventIDs
      /\ AllEventIDs = 1..Len(events) /\ Len(events) \in Nat
      /\ \A e \in AllEventIDs : events'[e] = events[e]
      /\ events'[newEvent].inputTokens = inputTokens
      /\ AllTokenIDs' = 1..(Len(creatorEvents) + count)
  BY <1>1, Domains DEF GraphGrows
<1>3. /\ inputs \subseteq AllTokenIDs
      /\ \A id \in AllTokenIDs : destroyerEventsCount[id] \in Nat
      /\ \A e \in AllEventIDs : Range(events[e].inputTokens) \subseteq AllTokenIDs
  BY InputTupleType, Domains
<1>4. \A id \in AllTokenIDs' :
        destroyerEventsCount'[id] =
          IF id \in inputs THEN destroyerEventsCount[id] + 1
          ELSE IF id \in AllTokenIDs THEN destroyerEventsCount[id] ELSE 0
  BY <1>2 DEF AddEvent
<1> SUFFICES ASSUME NEW id \in AllTokenIDs'
             PROVE  /\ destroyerEventsCount'[id] = Cardinality(Destroyers(id)')
                    /\ destroyerEventsCount'[id] <= MaxDestroyerEvents
  BY DEF DestroyersCounted
<1>5. IsFiniteSet(Destroyers(id))
  <2>1. IsFiniteSet(AllEventIDs)
    BY <1>2, FS_Interval
  <2>2. Destroyers(id) \in SUBSET AllEventIDs
    BY DEF Destroyers
  <2> QED  BY <2>1, <2>2, FS_Subset
<1>6. CASE id \in inputs
  <2>1. Destroyers(id)' = Destroyers(id) \cup {newEvent}
    BY <1>2, <1>6 DEF Destroyers
  <2>2. newEvent \notin Destroyers(id)
    BY <1>2 DEF Destroyers
  <2>3. Cardinality(Destroyers(id)') = Cardinality(Destroyers(id)) + 1
    BY <1>5, <2>1, <2>2, FS_AddElement
  <2>4. destroyerEventsCount[id] = Cardinality(Destroyers(id))
    BY <1>3, <1>6 DEF DestroyersCounted
  <2>5. destroyerEventsCount[id] < MaxDestroyerEvents
    BY <1>6 DEF CanInstantiate
  <2>6. destroyerEventsCount'[id] = destroyerEventsCount[id] + 1
        /\ destroyerEventsCount[id] \in Nat /\ MaxDestroyerEvents \in Nat
    BY <1>3, <1>4, <1>6, CountsAssumption
  <2> QED  BY <2>3, <2>4, <2>5, <2>6
<1>7. CASE id \in AllTokenIDs \ inputs
  <2>1. Destroyers(id)' = Destroyers(id)
    BY <1>2, <1>7 DEF Destroyers
  <2> QED  BY <1>4, <1>7, <2>1 DEF DestroyersCounted
<1>8. CASE id \notin AllTokenIDs
  <2>1. Destroyers(id)' = {}
    BY <1>2, <1>3, <1>8 DEF Destroyers
  <2>2. destroyerEventsCount'[id] = 0
    BY <1>3, <1>4, <1>8
  <2> QED  BY <2>1, <2>2, FS_EmptySet, CountsAssumption
<1> QED  BY <1>6, <1>7, <1>8

\* The destroyer counter of every token is the number of events that have it as
\* an input, and stays within maxDestroyerEvents.
THEOREM DestroyerCountsCorrect == Spec => []DestroyersCounted
<1>1. Init => DestroyersCounted
  <2> SUFFICES ASSUME Init PROVE DestroyersCounted
    OBVIOUS
  <2>1. AllEventIDs = {1} /\ Range(events[1].inputTokens) = {}
    BY DEF Init, AllEventIDs, Range
  <2>2. \A id \in AllTokenIDs : destroyerEventsCount[id] = 0
    BY DEF Init, AllTokenIDs
  <2>3. \A id \in AllTokenIDs : Destroyers(id) = {}
    BY <2>1 DEF Destroyers
  <2> QED  BY <2>2, <2>3, FS_EmptySet, CountsAssumption DEF DestroyersCounted
<1>2. ASSUME GraphTyped, CausalLayers, DestroyersCounted, [Next]_vars
      PROVE  DestroyersCounted'
  <2>1. CASE Next
    BY <1>2, <2>1, AddEventCountsDestroyers DEF Next
  <2>2. CASE UNCHANGED vars
    BY <1>2, <2>2 DEF vars, DestroyersCounted, Destroyers, AllTokenIDs, AllEventIDs
  <2> QED  BY <1>2, <2>1, <2>2
<1> QED  BY <1>1, <1>2, GraphAlwaysTyped, GraphIsCausal, PTL DEF Spec

-----------------------------------------------------------------------------
(* Separations.                                                            *)

\* Prerequisites lie in the past: what the creator of a token requires concerns
\* tokens that existed before it.
ChoicesArePast ==
    (SeparationTracking = "DestroyerChoices" /\ isSpacelikeEvolution) =>
        \A id \in AllTokenIDs : \A token \in DOMAIN PrerequisiteChoices(id) :
            creatorEvents[token] < creatorEvents[id]

\* A tracked event leaves the prerequisites of earlier tokens alone and gives
\* its outputs the merged ones.
LEMMA PrerequisitesEffect ==
    ASSUME GraphTyped, CausalLayers,
           NEW rule \in Rules, NEW inputTokens \in InputTuples, NEW count \in OutputCounts,
           AddEvent(rule, inputTokens, count),
           SeparationTracking = "DestroyerChoices", isSpacelikeEvolution'
    PROVE  /\ isSpacelikeEvolution
           /\ \A id \in AllTokenIDs : PrerequisiteChoices(id)' = PrerequisiteChoices(id)
           /\ \A id \in AllTokenIDs' \ AllTokenIDs :
                PrerequisiteChoices(id)' = MergedChoices(inputTokens, Len(events) + 1)
<1> DEFINE merged == MergedChoices(inputTokens, Len(events) + 1)
<1>1. isSpacelikeEvolution /\ destroyerChoices' = Append(destroyerChoices, merged)
  BY DEF AddEvent, AddLastEventDestroyerChoices
<1>2. destroyerChoices \in Seq(DestroyerMaps) /\ Len(destroyerChoices) = Len(events)
  BY <1>1 DEF GraphTyped
<1>3. \A id \in AllTokenIDs : creatorEvents[id] \in 1..Len(events)
  BY Domains
<1>4. GraphGrows(rule, inputTokens, count)
  BY AddEventEffect
<1> HIDE DEF merged
<1>5. /\ \A e \in 1..Len(events) : destroyerChoices'[e] = destroyerChoices[e]
      /\ destroyerChoices'[Len(events) + 1] = merged
  BY <1>1, <1>2
<1>6. \A id \in AllTokenIDs : PrerequisiteChoices(id)' = PrerequisiteChoices(id)
  BY <1>3, <1>4, <1>5 DEF GraphGrows, PrerequisiteChoices
<1>7. \A id \in AllTokenIDs' \ AllTokenIDs : PrerequisiteChoices(id)' = merged
  BY <1>4, <1>5 DEF GraphGrows, PrerequisiteChoices
<1> QED  BY <1>1, <1>6, <1>7 DEF merged

\* The initial event requires nothing.
LEMMA InitialChoicesArePast == Init => ChoicesArePast
<1> SUFFICES ASSUME Init, SeparationTracking = "DestroyerChoices", NEW id \in AllTokenIDs
             PROVE  DOMAIN PrerequisiteChoices(id) = {}
  BY DEF ChoicesArePast
<1>1. destroyerChoices = <<NoChoices>> /\ creatorEvents[id] = 1
  BY DEF Init, AllTokenIDs
<1> QED  BY <1>1 DEF PrerequisiteChoices, NoChoices

\* No step lets an event be a prerequisite of its own past.
LEMMA ChoicesArePastStep ==
    ASSUME GraphTyped, CausalLayers, ChoicesArePast, [Next]_vars
    PROVE  ChoicesArePast'
<1>1. CASE UNCHANGED vars
  BY <1>1 DEF vars, ChoicesArePast, PrerequisiteChoices, AllTokenIDs
<1>2. CASE Next
  <2> SUFFICES ASSUME SeparationTracking = "DestroyerChoices", isSpacelikeEvolution',
                      NEW id \in AllTokenIDs', NEW token \in DOMAIN PrerequisiteChoices(id)'
               PROVE  creatorEvents'[token] < creatorEvents'[id]
    BY DEF ChoicesArePast
  <2>1. PICK rule \in Rules, inputTokens \in InputTuples, count \in OutputCounts :
          AddEvent(rule, inputTokens, count)
    BY <1>2 DEF Next
  <2>2. GraphGrows(rule, inputTokens, count)
    BY <2>1, AddEventEffect
  <2>3. /\ isSpacelikeEvolution
        /\ \A old \in AllTokenIDs : PrerequisiteChoices(old)' = PrerequisiteChoices(old)
        /\ \A new \in AllTokenIDs' \ AllTokenIDs :
             PrerequisiteChoices(new)' = MergedChoices(inputTokens, Len(events) + 1)
    BY <2>1, PrerequisitesEffect
  <2>4. /\ \A old \in AllTokenIDs : creatorEvents'[old] = creatorEvents[old]
        /\ \A old \in AllTokenIDs : creatorEvents[old] \in 1..Len(events)
        /\ Len(events) \in Nat
    BY <2>2, Domains DEF GraphGrows
  <2>5. CASE id \in AllTokenIDs
    <3>1. token \in DOMAIN PrerequisiteChoices(id) /\ token \in AllTokenIDs
      BY <2>3, <2>5, PrerequisitesType
    <3> QED  BY <2>3, <2>4, <2>5, <3>1 DEF ChoicesArePast
  <2>6. CASE id \notin AllTokenIDs
    <3>1. token \in DOMAIN MergedChoices(inputTokens, Len(events) + 1)
      BY <2>3, <2>6
    <3>2. token \in AllTokenIDs
      BY <2>3, <3>1, MergedChoicesType
    <3>3. creatorEvents'[id] = Len(events) + 1
      BY <2>2, <2>6 DEF GraphGrows
    <3> QED  BY <2>4, <3>2, <3>3
  <2> QED  BY <2>5, <2>6
<1> QED  BY <1>1, <1>2

\* Inputs that are pairwise spacelike require no destroyer of each other, and no
\* different destroyers of the same token.
LEMMA SpacelikeInputsCompatible ==
    ASSUME GraphTyped, CausalLayers, ChoicesArePast,
           SeparationTracking = "DestroyerChoices", isSpacelikeEvolution,
           NEW rule \in SpacelikeRules, NEW inputTokens \in InputTuples,
           CanInstantiate(rule, inputTokens),
           NEW first \in Range(inputTokens), NEW second \in Range(inputTokens)
    PROVE  /\ first \notin DOMAIN PrerequisiteChoices(second)
           /\ ~BranchlikeByChoices(first, second)
<1>1. first \in AllTokenIDs /\ second \in AllTokenIDs
  BY InputTupleType
<1>2. CASE first = second
  <2>1. \A id \in AllTokenIDs : creatorEvents[id] \in Nat
    BY Domains
  <2>2. first \notin DOMAIN PrerequisiteChoices(first)
    BY <1>1, <2>1 DEF ChoicesArePast
  <2> QED  BY <1>2, <2>2 DEF BranchlikeByChoices
<1>3. CASE first # second
  <2>1. PICK i \in DOMAIN inputTokens, j \in DOMAIN inputTokens :
          first = inputTokens[i] /\ second = inputTokens[j]
    BY DEF Range
  <2>2. TokenSeparation(first, second) = "Spacelike"
    BY <1>3, <2>1 DEF CanInstantiate
  <2> QED  BY <2>2 DEF TokenSeparation, TimelikeByChoices
<1> QED  BY <1>2, <1>3

\* Inputs that are pairwise spacelike have prerequisites that merge.
LEMMA SpacelikeInputsMerge ==
    ASSUME GraphTyped, CausalLayers, ChoicesArePast,
           SeparationTracking = "DestroyerChoices", isSpacelikeEvolution,
           NEW rule \in SpacelikeRules, NEW inputTokens \in InputTuples,
           CanInstantiate(rule, inputTokens)
    PROVE  ~InconsistentPrerequisites(inputTokens)
<1> SUFFICES ASSUME NEW i \in DOMAIN inputTokens, NEW j \in DOMAIN inputTokens
             PROVE  /\ inputTokens[i] \notin DOMAIN PrerequisiteChoices(inputTokens[j])
                    /\ ~BranchlikeByChoices(inputTokens[i], inputTokens[j])
  BY DEF InconsistentPrerequisites
<1>1. inputTokens[i] \in Range(inputTokens) /\ inputTokens[j] \in Range(inputTokens)
  BY DEF Range
<1> QED  BY <1>1, SpacelikeInputsCompatible

\* Pairwise checks suffice: with Spacelike rules only, tracking of separations is
\* never given up, whatever the number of inputs and the order they come in.
THEOREM SpacelikeTrackingKept == Spec => []SpacelikeRulesKeepTracking
<1> DEFINE Strong == SpacelikeRulesKeepTracking /\ ChoicesArePast
<1>1. Init => Strong
  BY InitialChoicesArePast DEF Init, SpacelikeRulesKeepTracking
<1>2. GraphTyped /\ CausalLayers /\ Strong /\ [Next]_vars => Strong'
  <2> SUFFICES ASSUME GraphTyped, CausalLayers, Strong, [Next]_vars PROVE Strong'
    OBVIOUS
  <2>1. ChoicesArePast'
    BY ChoicesArePastStep
  <2>2. SpacelikeRulesKeepTracking'
    <3> SUFFICES ASSUME SpacelikeRules = Rules, SeparationTracking = "DestroyerChoices",
                        isSpacelikeEvolution
                 PROVE  isSpacelikeEvolution'
      BY DEF SpacelikeRulesKeepTracking
    <3>1. CASE UNCHANGED vars
      BY <3>1 DEF vars
    <3>2. CASE Next
      <4>1. PICK rule \in Rules, inputTokens \in InputTuples, count \in OutputCounts :
              CanInstantiate(rule, inputTokens) /\ AddEvent(rule, inputTokens, count)
        BY <3>2 DEF Next
      <4>2. ~InconsistentPrerequisites(inputTokens)
        BY <4>1, SpacelikeInputsMerge
      <4> QED  BY <4>1, <4>2 DEF AddEvent, AddLastEventDestroyerChoices
    <3> QED  BY <3>1, <3>2
  <2> QED  BY <2>1, <2>2
<1>3. Strong => SpacelikeRulesKeepTracking
  OBVIOUS
<1> QED  BY <1>1, <1>2, <1>3, GraphAlwaysTyped, GraphIsCausal, PTL DEF Spec

\* The separation of two existing tokens never changes, except to Unknown: a
\* match found earlier needs no second check when it is instantiated.
THEOREM SeparationIsStable == Spec => SeparationStable
<1>1. ASSUME GraphTyped, CausalLayers, [Next]_vars
      PROVE  [SeparationsKept]_vars
  <2> SUFFICES ASSUME Next, NEW first \in AllTokenIDs, NEW second \in AllTokenIDs
               PROVE  TokenSeparation(first, second)'
                        \in {TokenSeparation(first, second), "Unknown"}
    BY <1>1 DEF SeparationsKept
  <2>1. PICK rule \in Rules, inputTokens \in InputTuples, count \in OutputCounts :
          AddEvent(rule, inputTokens, count)
    BY DEF Next
  <2>2. CASE SeparationTracking = "DestroyerChoices" /\ isSpacelikeEvolution'
    <3>1. /\ isSpacelikeEvolution
          /\ PrerequisiteChoices(first)' = PrerequisiteChoices(first)
          /\ PrerequisiteChoices(second)' = PrerequisiteChoices(second)
      BY <1>1, <2>1, <2>2, PrerequisitesEffect
    <3>2. TimelikeByChoices(first, second)' <=> TimelikeByChoices(first, second)
      BY <3>1 DEF TimelikeByChoices
    <3>3. BranchlikeByChoices(first, second)' <=> BranchlikeByChoices(first, second)
      BY <3>1 DEF BranchlikeByChoices
    <3> QED  BY <2>2, <3>1, <3>2, <3>3 DEF TokenSeparation
  <2>3. CASE ~(SeparationTracking = "DestroyerChoices" /\ isSpacelikeEvolution')
    BY <2>3, TrackingAssumption DEF TokenSeparation
  <2> QED  BY <2>2, <2>3
<1> QED  BY <1>1, GraphAlwaysTyped, GraphIsCausal, PTL DEF Spec, SeparationStable

-----------------------------------------------------------------------------
(* Past causal cones.  PastEvents reads a recursive function; that there is *)
(* exactly one is shown along the behaviour, event by event.               *)

IsCone(cone) ==
    cone = [e \in AllEventIDs |->
              {e} \cup UNION {cone[creatorEvents[input]] : input \in Inputs(e)}]

Cone == CHOOSE cone : IsCone(cone)

ConeDetermined ==
    /\ \E cone : IsCone(cone)
    /\ \A f, g : IsCone(f) /\ IsCone(g) => f = g

\* The past of a token is the cone of its creator, before and after a step.
LEMMA PastIsCone ==
    \A id : /\ PastEvents(id) = Cone[creatorEvents[id]]
            /\ PastEvents(id)' = Cone'[creatorEvents'[id]]
<1>1. \A id : PastEvents(id) = Cone[creatorEvents[id]]
  BY DEF PastEvents, Cone, IsCone
<1>2. \A id : PastEvents(id)' = Cone'[creatorEvents'[id]]
  BY DEF PastEvents, Cone, IsCone
<1> QED  BY <1>1, <1>2

\* The cones of earlier events stay, that of the new event is what its inputs'
\* creators have behind them.
ConesGrow(inputTokens) ==
    /\ \A e \in AllEventIDs : Cone'[e] = Cone[e]
    /\ Cone'[Len(events) + 1] =
         {Len(events) + 1} \cup UNION {Cone[creatorEvents[id]] : id \in Range(inputTokens)}

\* Adding an event extends the only function of cones to the only one.
LEMMA AddEventExtendsCones ==
    ASSUME GraphTyped, CausalLayers, ConeDetermined,
           NEW rule \in Rules, NEW inputTokens \in InputTuples, NEW count \in OutputCounts,
           AddEvent(rule, inputTokens, count)
    PROVE  ConeDetermined' /\ ConesGrow(inputTokens)
<1> DEFINE newEvent == Len(events) + 1
           behind(cone) == {newEvent} \cup
                              UNION {cone[creatorEvents[id]] : id \in Range(inputTokens)}
           extended == [e \in AllEventIDs' |-> IF e = newEvent THEN behind(Cone) ELSE Cone[e]]
           inputsOf(e) == Range(events'[e].inputTokens)
           restricted(cone) == [e \in AllEventIDs |-> cone[e]]
<1>1. GraphGrows(rule, inputTokens, count)
  BY AddEventEffect
<1>2. /\ AllEventIDs' = AllEventIDs \cup {newEvent} /\ newEvent \notin AllEventIDs
      /\ \A id \in AllTokenIDs : /\ creatorEvents'[id] = creatorEvents[id]
                                 /\ creatorEvents[id] \in AllEventIDs
      /\ \A e \in AllEventIDs : inputsOf(e) = Inputs(e) /\ Inputs(e) \subseteq AllTokenIDs
      /\ inputsOf(newEvent) = Range(inputTokens)
      /\ Range(inputTokens) \subseteq AllTokenIDs
  <2>1. \A e \in AllEventIDs : Inputs(e) = Range(events[e].inputTokens)
    BY DEF Inputs
  <2>3. /\ AllEventIDs' = AllEventIDs \cup {newEvent} /\ newEvent \notin AllEventIDs
        /\ \A id \in AllTokenIDs : creatorEvents'[id] = creatorEvents[id]
        /\ \A e \in AllEventIDs : events'[e] = events[e]
        /\ events'[newEvent].inputTokens = inputTokens
    BY <1>1 DEF GraphGrows
  <2>4. /\ \A id \in AllTokenIDs : creatorEvents[id] \in AllEventIDs
        /\ \A e \in AllEventIDs : Range(events[e].inputTokens) \subseteq AllTokenIDs
    BY Domains
  <2> HIDE DEF newEvent
  <2> QED  BY <2>1, <2>3, <2>4, InputTupleType
<1>3. IsCone(Cone) /\ \A f : IsCone(f) => f = Cone
  BY DEF ConeDetermined, Cone
<1>4. \A e \in AllEventIDs :
        Cone[e] = {e} \cup UNION {Cone[creatorEvents[input]] : input \in Inputs(e)}
  BY <1>3 DEF IsCone
<1> DEFINE past(cone, e) ==
             {e} \cup UNION {cone[creatorEvents'[input]] : input \in inputsOf(e)}
<1>5. ASSUME NEW cone,
             \A e \in AllEventIDs : cone[e] = Cone[e]
      PROVE  /\ \A e \in AllEventIDs : past(cone, e) = Cone[e]
             /\ past(cone, newEvent) = behind(Cone)
  <2>1. \A id \in AllTokenIDs : cone[creatorEvents'[id]] = Cone[creatorEvents[id]]
    BY <1>2, <1>5
  <2>2. ASSUME NEW ids, ids \subseteq AllTokenIDs
        PROVE  {cone[creatorEvents'[id]] : id \in ids} = {Cone[creatorEvents[id]] : id \in ids}
    BY <2>1, <2>2
  <2> QED  BY <1>2, <1>4, <2>2
<1> DEFINE isNextCone(cone) == cone = [e \in AllEventIDs' |-> past(cone, e)]
<1>6. isNextCone(extended)
  <2>1. \A e \in AllEventIDs : extended[e] = Cone[e]
    BY <1>2
  <2>2. extended[newEvent] = behind(Cone)
    BY <1>2
  <2>3. \A e \in AllEventIDs' : extended[e] = past(extended, e)
    <3> HIDE DEF extended, past, behind
    <3>1. /\ \A e \in AllEventIDs : past(extended, e) = Cone[e]
          /\ past(extended, newEvent) = behind(Cone)
      BY <1>5, <2>1
    <3> QED  BY <1>2, <2>1, <2>2, <3>1
  <2>4. extended = [e \in AllEventIDs' |-> past(extended, e)]
    <3> DEFINE value(e) == IF e = newEvent THEN behind(Cone) ELSE Cone[e]
    <3>1. \A e \in AllEventIDs' : extended[e] = value(e)
      OBVIOUS
    <3>2. \A e \in AllEventIDs' : value(e) = past(extended, e)
      BY <2>3, <3>1
    <3> HIDE DEF past, value
    <3>3. extended = [e \in AllEventIDs' |-> value(e)]
      BY DEF value
    <3> QED  BY <3>2, <3>3
  <2> QED  BY <2>4
<1>7. ASSUME NEW f, isNextCone(f)
      PROVE  /\ \A e \in AllEventIDs : f[e] = Cone[e]
             /\ f[newEvent] = behind(Cone)
             /\ f = [e \in AllEventIDs' |-> f[e]]
  <2>1. f = [e \in AllEventIDs' |-> past(f, e)]
    BY <1>7
  <2>2. \A e \in AllEventIDs' : f[e] = past(f, e)
    <3> HIDE DEF past
    <3> QED  BY <2>1
  <2>3. \A e \in AllEventIDs : f[e] = {e} \cup UNION {f[creatorEvents[input]] : input \in Inputs(e)}
    <3>1. ASSUME NEW e \in AllEventIDs
          PROVE  {f[creatorEvents'[id]] : id \in inputsOf(e)} = {f[creatorEvents[id]] : id \in Inputs(e)}
      BY <1>2
    <3> QED  BY <1>2, <2>2, <3>1
  <2>4. IsCone(restricted(f))
    <3> DEFINE small == restricted(f)
               step(e) == {e} \cup UNION {small[creatorEvents[input]] : input \in Inputs(e)}
    <3>1. ASSUME NEW e \in AllEventIDs PROVE f[e] = step(e)
      <4>1. \A id \in Inputs(e) : small[creatorEvents[id]] = f[creatorEvents[id]]
        BY <1>2
      <4>2. {small[creatorEvents[id]] : id \in Inputs(e)} = {f[creatorEvents[id]] : id \in Inputs(e)}
        BY <4>1
      <4> QED  BY <2>3, <4>2
    <3>2. small = [e \in AllEventIDs |-> step(e)]
      <4> HIDE DEF step
      <4> QED  BY <3>1
    <3> QED  BY <3>2 DEF IsCone
  <2>5. restricted(f) = Cone
    BY <1>3, <2>4
  <2>6. \A e \in AllEventIDs : f[e] = Cone[e]
    <3>1. \A e \in AllEventIDs : restricted(f)[e] = f[e]
      OBVIOUS
    <3> QED  BY <2>5, <3>1
  <2>7. f[newEvent] = behind(Cone)
    <3> HIDE DEF past, behind
    <3>1. past(f, newEvent) = behind(Cone)
      BY <1>5, <2>6
    <3> QED  BY <1>2, <2>2, <3>1
  <2>8. f = [e \in AllEventIDs' |-> f[e]]
    <3> HIDE DEF past
    <3> QED  BY <2>1
  <2> QED  BY <2>6, <2>7, <2>8
<1>8. ASSUME NEW f, NEW g, isNextCone(f), isNextCone(g)
      PROVE  f = g
  <2>1. \A e \in AllEventIDs' : f[e] = g[e]
    BY <1>2, <1>7, <1>8
  <2>2. f = [e \in AllEventIDs' |-> f[e]] /\ g = [e \in AllEventIDs' |-> g[e]]
    BY <1>7, <1>8
  <2> QED  BY <2>1, <2>2
<1>9. ConeDetermined'
  <2>1. (\E f : isNextCone(f)) /\ (\A f, g : isNextCone(f) /\ isNextCone(g) => f = g)
    <3> HIDE DEF extended, isNextCone
    <3> QED  BY <1>6, <1>8
  <2> QED  BY <2>1 DEF ConeDetermined, IsCone, Inputs
<1>10. isNextCone(Cone')
  <2>1. IsCone(Cone)'
    BY <1>9 DEF ConeDetermined, Cone
  <2> QED  BY <2>1 DEF IsCone, Inputs
<1>11. ConesGrow(inputTokens)
  BY <1>7, <1>10 DEF ConesGrow
<1> QED  BY <1>9, <1>11

\* What is true of the cones of the tokens of a graph with Spacelike rules only:
\* an event is in its own past with events no later than itself; the tracked
\* choices name exactly the tokens the past destroys and the events that do it;
\* without tracking only events of one input happen.
PastBounded ==
    \A id \in AllTokenIDs :
        /\ PastEvents(id) \subseteq AllEventIDs
        /\ creatorEvents[id] \in PastEvents(id)
        /\ \A e \in PastEvents(id) : e <= creatorEvents[id]

ChoicesAreCones ==
    (SeparationTracking = "DestroyerChoices" /\ isSpacelikeEvolution) =>
        \A id \in AllTokenIDs :
            /\ \A token \in DOMAIN PrerequisiteChoices(id) :
                 \E e \in PastEvents(id) : token \in Inputs(e)
            /\ \A e \in PastEvents(id) : \A token \in Inputs(e) :
                 /\ token \in DOMAIN PrerequisiteChoices(id)
                 /\ PrerequisiteChoices(id)[token] = e

PastDestroysOnce ==
    \A id \in AllTokenIDs : \A e, f \in PastEvents(id) :
        e # f => Inputs(e) \cap Inputs(f) = {}

ConeInvariant ==
    /\ isSpacelikeEvolution
    /\ ConeDetermined
    /\ PastBounded
    /\ ChoicesAreCones
    /\ PastDestroysOnce

\* What adding an event does to the pasts of tokens.
LEMMA AddEventExtendsPasts ==
    ASSUME GraphTyped, CausalLayers, ConeDetermined,
           NEW rule \in Rules, NEW inputTokens \in InputTuples, NEW count \in OutputCounts,
           AddEvent(rule, inputTokens, count)
    PROVE  /\ \A id \in AllTokenIDs : PastEvents(id)' = PastEvents(id)
           /\ \A id \in AllTokenIDs' \ AllTokenIDs :
                PastEvents(id)' =
                  {Len(events) + 1} \cup UNION {PastEvents(i) : i \in Range(inputTokens)}
           /\ \A e \in AllEventIDs : Inputs(e)' = Inputs(e)
           /\ \A e \in AllEventIDs' \ AllEventIDs : Inputs(e)' = Range(inputTokens)
<1>1. GraphGrows(rule, inputTokens, count)
  BY AddEventEffect
<1>2. ConesGrow(inputTokens)
  BY AddEventExtendsCones
<1>3. \A id \in AllTokenIDs : /\ creatorEvents[id] \in AllEventIDs
                              /\ creatorEvents'[id] = creatorEvents[id]
  BY <1>1, Domains DEF GraphGrows
<1>4. \A id \in AllTokenIDs : PastEvents(id)' = PastEvents(id)
  BY <1>2, <1>3, PastIsCone DEF ConesGrow
<1>5. ASSUME NEW id \in AllTokenIDs' \ AllTokenIDs
      PROVE  PastEvents(id)' =
               {Len(events) + 1} \cup UNION {PastEvents(i) : i \in Range(inputTokens)}
  <2>1. PastEvents(id)' = Cone'[Len(events) + 1]
    BY <1>1, PastIsCone DEF GraphGrows
  <2>2. {PastEvents(i) : i \in Range(inputTokens)} =
           {Cone[creatorEvents[i]] : i \in Range(inputTokens)}
    BY PastIsCone
  <2> QED  BY <1>2, <2>1, <2>2 DEF ConesGrow
<1>6. \A e \in AllEventIDs : Inputs(e)' = Inputs(e)
  BY <1>1 DEF GraphGrows, Inputs
<1>7. \A e \in AllEventIDs' \ AllEventIDs : Inputs(e)' = Range(inputTokens)
  <2>1. ASSUME NEW e \in AllEventIDs' \ AllEventIDs PROVE e = Len(events) + 1
    BY <1>1 DEF GraphGrows
  <2> QED  BY <1>1, <2>1 DEF GraphGrows, Inputs
<1> QED  BY <1>4, <1>5, <1>6, <1>7

\* The initial event is alone in its past.
LEMMA InitialCones == Init => ConeInvariant
<1> SUFFICES ASSUME Init PROVE ConeInvariant
  OBVIOUS
<1>1. /\ AllEventIDs = {1} /\ Range(events[1].inputTokens) = {}
      /\ \A id \in AllTokenIDs : creatorEvents[id] = 1
  BY DEF Init, AllEventIDs, AllTokenIDs, Range
<1>2. Inputs(1) = {}
  BY <1>1 DEF Inputs
<1>3. \A cone : IsCone(cone) <=> cone = [e \in {1} |-> {1}]
  <2>1. ASSUME NEW cone
        PROVE  [e \in AllEventIDs |->
                  {e} \cup UNION {cone[creatorEvents[input]] : input \in Inputs(e)}]
                 = [e \in {1} |-> {1}]
    BY <1>1, <1>2
  <2> QED  BY <2>1 DEF IsCone
<1>4. ConeDetermined
  BY <1>3 DEF ConeDetermined
<1>5. Cone = [e \in {1} |-> {1}]
  BY <1>3 DEF Cone
<1>6. \A id \in AllTokenIDs : PastEvents(id) = {1}
  BY <1>1, <1>5, PastIsCone
<1>7. PastBounded /\ PastDestroysOnce
  BY <1>1, <1>2, <1>6 DEF PastBounded, PastDestroysOnce
<1>8. ChoicesAreCones
  <2> SUFFICES ASSUME SeparationTracking = "DestroyerChoices", NEW id \in AllTokenIDs
               PROVE  DOMAIN PrerequisiteChoices(id) = {}
    BY <1>2, <1>6 DEF ChoicesAreCones
  <2>1. destroyerChoices = <<NoChoices>>
    BY DEF Init
  <2> QED  BY <1>1, <2>1 DEF PrerequisiteChoices, NoChoices
<1> QED  BY <1>4, <1>7, <1>8 DEF ConeInvariant, Init

\* Adding an event keeps the pasts within the events that came before.
LEMMA PastBoundedStep ==
    ASSUME GraphTyped, CausalLayers, ConeDetermined, PastBounded,
           NEW rule \in Rules, NEW inputTokens \in InputTuples, NEW count \in OutputCounts,
           AddEvent(rule, inputTokens, count)
    PROVE  PastBounded'
<1> DEFINE newEvent == Len(events) + 1
<1>1. /\ GraphGrows(rule, inputTokens, count)
      /\ Range(inputTokens) \subseteq AllTokenIDs
  BY AddEventEffect, InputTupleType
<1>2. /\ AllEventIDs' = AllEventIDs \cup {newEvent}
      /\ AllEventIDs = 1..Len(events) /\ Len(events) \in Nat
      /\ \A id \in AllTokenIDs : creatorEvents'[id] = creatorEvents[id]
      /\ \A id \in AllTokenIDs' \ AllTokenIDs : creatorEvents'[id] = newEvent
  BY <1>1, Domains DEF GraphGrows
<1> SUFFICES ASSUME NEW id \in AllTokenIDs'
             PROVE  /\ PastEvents(id)' \subseteq AllEventIDs'
                    /\ creatorEvents'[id] \in PastEvents(id)'
                    /\ \A e \in PastEvents(id)' : e <= creatorEvents'[id]
  BY DEF PastBounded
<1>3. CASE id \in AllTokenIDs
  <2>1. PastEvents(id)' = PastEvents(id)
    BY <1>3, AddEventExtendsPasts
  <2> QED  BY <1>2, <1>3, <2>1 DEF PastBounded
<1>4. CASE id \notin AllTokenIDs
  <2>1. PastEvents(id)' = {newEvent} \cup UNION {PastEvents(i) : i \in Range(inputTokens)}
    BY <1>4, AddEventExtendsPasts
  <2>2. \A i \in Range(inputTokens) : PastEvents(i) \subseteq AllEventIDs
    BY <1>1 DEF PastBounded
  <2>3. PastEvents(id)' \subseteq AllEventIDs \cup {newEvent}
    BY <2>1, <2>2
  <2>4. creatorEvents'[id] = newEvent
    BY <1>2, <1>4
  <2>5. \A e \in AllEventIDs \cup {newEvent} : e <= newEvent
    BY <1>2
  <2>6. newEvent \in PastEvents(id)'
    BY <2>1
  <2> HIDE DEF newEvent
  <2> QED  BY <1>2, <2>3, <2>4, <2>5, <2>6
<1> QED  BY <1>3, <1>4

\* No token is destroyed by an event in its own past.
LEMMA NotInOwnPast ==
    ASSUME GraphTyped, CausalLayers, PastBounded,
           NEW id \in AllTokenIDs, NEW e \in PastEvents(id)
    PROVE  id \notin Inputs(e)
<1>1. e \in AllEventIDs /\ e <= creatorEvents[id]
  BY DEF PastBounded
<1>2. e \in Nat /\ creatorEvents[id] \in Nat
  BY <1>1, Domains
<1>3. id \in Inputs(e) => creatorEvents[id] < e
  BY <1>1 DEF CausalLayers, CausalOrder, Inputs
<1> QED  BY <1>1, <1>2, <1>3

\* With Spacelike rules, the choices merged for a new event are those of the
\* events in its past.
LEMMA ChoicesAreConesStep ==
    ASSUME GraphTyped, CausalLayers, ChoicesArePast, ConeInvariant,
           SpacelikeRules = Rules,
           NEW rule \in Rules, NEW inputTokens \in InputTuples, NEW count \in OutputCounts,
           CanInstantiate(rule, inputTokens), AddEvent(rule, inputTokens, count)
    PROVE  ChoicesAreCones'
<1> DEFINE newEvent == Len(events) + 1
           merged == MergedChoices(inputTokens, newEvent)
<1> SUFFICES ASSUME SeparationTracking = "DestroyerChoices", isSpacelikeEvolution',
                    NEW id \in AllTokenIDs'
             PROVE  /\ \A token \in DOMAIN PrerequisiteChoices(id)' :
                         \E e \in PastEvents(id)' : token \in Inputs(e)'
                    /\ \A e \in PastEvents(id)' : \A token \in Inputs(e)' :
                         /\ token \in DOMAIN PrerequisiteChoices(id)'
                         /\ PrerequisiteChoices(id)'[token] = e
  BY DEF ChoicesAreCones
<1>1. /\ isSpacelikeEvolution
      /\ \A old \in AllTokenIDs : PrerequisiteChoices(old)' = PrerequisiteChoices(old)
      /\ \A new \in AllTokenIDs' \ AllTokenIDs : PrerequisiteChoices(new)' = merged
  BY PrerequisitesEffect
<1>2. /\ \A old \in AllTokenIDs : PastEvents(old)' = PastEvents(old)
      /\ \A new \in AllTokenIDs' \ AllTokenIDs :
           PastEvents(new)' = {newEvent} \cup UNION {PastEvents(i) : i \in Range(inputTokens)}
      /\ \A e \in AllEventIDs : Inputs(e)' = Inputs(e)
      /\ \A e \in AllEventIDs' \ AllEventIDs : Inputs(e)' = Range(inputTokens)
  BY AddEventExtendsPasts DEF ConeInvariant
<1>3. /\ AllEventIDs' = AllEventIDs \cup {newEvent} /\ newEvent \notin AllEventIDs
      /\ Range(inputTokens) \subseteq AllTokenIDs
  BY AddEventEffect, InputTupleType DEF GraphGrows
<1>4. \A old \in AllTokenIDs :
        /\ PastEvents(old) \subseteq AllEventIDs
        /\ \A token \in DOMAIN PrerequisiteChoices(old) :
             \E e \in PastEvents(old) : token \in Inputs(e)
        /\ \A e \in PastEvents(old) : \A token \in Inputs(e) :
             /\ token \in DOMAIN PrerequisiteChoices(old)
             /\ PrerequisiteChoices(old)[token] = e
  BY <1>1 DEF ConeInvariant, ChoicesAreCones, PastBounded
<1>5. CASE id \in AllTokenIDs
  <2>1. PrerequisiteChoices(id)' = PrerequisiteChoices(id) /\ PastEvents(id)' = PastEvents(id)
    BY <1>1, <1>2, <1>5
  <2>2. \A e \in PastEvents(id) : Inputs(e)' = Inputs(e)
    BY <1>2, <1>4, <1>5
  <2> QED  BY <1>4, <1>5, <2>1, <2>2
<1>6. CASE id \notin AllTokenIDs
  <2>1. PrerequisiteChoices(id)' = merged
    BY <1>1, <1>6
  <2>2. PastEvents(id)' = {newEvent} \cup UNION {PastEvents(i) : i \in Range(inputTokens)}
    BY <1>2, <1>6
  <2>3. PICK new \in AllEventIDs' : new = newEvent /\ Inputs(new)' = Range(inputTokens)
    BY <1>2, <1>3
  <2>4. \A i \in Range(inputTokens) : \A e \in PastEvents(i) : Inputs(e)' = Inputs(e)
    BY <1>2, <1>3, <1>4
  <2>5. /\ \A token \in DOMAIN merged :
             \/ token \in Range(inputTokens) /\ merged[token] = new
             \/ /\ token \notin Range(inputTokens)
                /\ \E i \in Range(inputTokens) :
                     /\ token \in DOMAIN PrerequisiteChoices(i)
                     /\ merged[token] = PrerequisiteChoices(i)[token]
        /\ Range(inputTokens) \subseteq DOMAIN merged
        /\ \A i \in Range(inputTokens) : DOMAIN PrerequisiteChoices(i) \subseteq DOMAIN merged
    BY <1>1, <2>3, MergedChoicesType
  <2>6. \A i, j \in Range(inputTokens) :
          /\ i \notin DOMAIN PrerequisiteChoices(j)
          /\ \A token \in DOMAIN PrerequisiteChoices(i) \cap DOMAIN PrerequisiteChoices(j) :
               PrerequisiteChoices(i)[token] = PrerequisiteChoices(j)[token]
    BY <1>1, SpacelikeInputsCompatible DEF BranchlikeByChoices
  <2> HIDE DEF merged, newEvent
  <2>7. ASSUME NEW token \in DOMAIN merged
        PROVE  \E e \in PastEvents(id)' : token \in Inputs(e)'
    <3>1. CASE token \in Range(inputTokens)
      BY <2>2, <2>3, <3>1
    <3>2. CASE token \notin Range(inputTokens)
      <4>1. PICK i \in Range(inputTokens) : token \in DOMAIN PrerequisiteChoices(i)
        BY <2>5, <3>2
      <4>2. PICK e \in PastEvents(i) : token \in Inputs(e)
        BY <1>3, <1>4, <4>1
      <4> QED  BY <2>2, <2>4, <4>2
    <3> QED  BY <3>1, <3>2
  <2>8. ASSUME NEW e \in PastEvents(id)', NEW token \in Inputs(e)'
        PROVE  token \in DOMAIN merged /\ merged[token] = e
    <3>1. CASE e = new
      BY <2>3, <2>5, <3>1
    <3>2. CASE e # new
      <4>1. PICK i \in Range(inputTokens) : e \in PastEvents(i)
        BY <2>2, <2>3, <3>2
      <4>2. token \in DOMAIN PrerequisiteChoices(i) /\ PrerequisiteChoices(i)[token] = e
        BY <1>3, <1>4, <2>4, <4>1
      <4> QED  BY <2>5, <2>6, <4>2
    <3> QED  BY <3>1, <3>2
  <2> QED  BY <2>1, <2>7, <2>8
<1> QED  BY <1>5, <1>6

\* Without tracking, a Spacelike event has one input: it comes after the events
\* in the past of this input, which had others.
LEMMA PastDestroysOnceStep ==
    ASSUME GraphTyped, CausalLayers, ConeInvariant, SpacelikeRules = Rules,
           SeparationTracking = "None",
           NEW rule \in Rules, NEW inputTokens \in InputTuples, NEW count \in OutputCounts,
           CanInstantiate(rule, inputTokens), AddEvent(rule, inputTokens, count)
    PROVE  PastDestroysOnce'
<1> DEFINE newEvent == Len(events) + 1
<1>1. /\ \A old \in AllTokenIDs : PastEvents(old)' = PastEvents(old)
      /\ \A new \in AllTokenIDs' \ AllTokenIDs :
           PastEvents(new)' = {newEvent} \cup UNION {PastEvents(i) : i \in Range(inputTokens)}
      /\ \A e \in AllEventIDs : Inputs(e)' = Inputs(e)
      /\ \A e \in AllEventIDs' \ AllEventIDs : Inputs(e)' = Range(inputTokens)
  BY AddEventExtendsPasts DEF ConeInvariant
<1>2. /\ AllEventIDs' = AllEventIDs \cup {newEvent} /\ newEvent \notin AllEventIDs
      /\ Range(inputTokens) \subseteq AllTokenIDs
  BY AddEventEffect, InputTupleType DEF GraphGrows
<1>3. \A i, j \in Range(inputTokens) : i = j
  <2>1. \A i, j \in DOMAIN inputTokens : i = j
    BY DEF ConeInvariant, CanInstantiate, TokenSeparation
  <2> QED  BY <2>1 DEF Range
<1>4. PICK new \in AllEventIDs' : new = newEvent /\ Inputs(new)' = Range(inputTokens)
  BY <1>1, <1>2
<1>5. \A old \in AllTokenIDs :
        /\ PastEvents(old) \subseteq AllEventIDs
        /\ \A e, f \in PastEvents(old) : e # f => Inputs(e) \cap Inputs(f) = {}
        /\ \A e \in PastEvents(old) : old \notin Inputs(e)
  BY NotInOwnPast DEF ConeInvariant, PastBounded, PastDestroysOnce
<1> HIDE DEF newEvent
<1> SUFFICES ASSUME NEW id \in AllTokenIDs', NEW e \in PastEvents(id)', NEW f \in PastEvents(id)',
                    e # f
             PROVE  Inputs(e)' \cap Inputs(f)' = {}
  BY DEF PastDestroysOnce
<1>6. CASE id \in AllTokenIDs
  BY <1>1, <1>5, <1>6
<1>7. CASE id \notin AllTokenIDs
  <2>1. PastEvents(id)' = {new} \cup UNION {PastEvents(i) : i \in Range(inputTokens)}
    BY <1>1, <1>4, <1>7
  <2>2. ASSUME NEW i \in Range(inputTokens), NEW g \in PastEvents(i)
        PROVE  /\ Inputs(g)' = Inputs(g)
               /\ Inputs(g)' \cap Range(inputTokens) = {}
    <3>1. Inputs(g)' = Inputs(g)
      BY <1>1, <1>2, <1>5
    <3> QED  BY <1>2, <1>3, <1>5, <3>1
  <2>3. CASE e = new
    <3>1. PICK i \in Range(inputTokens) : f \in PastEvents(i)
      BY <2>1, <2>3
    <3> QED  BY <1>4, <2>2, <2>3, <3>1
  <2>4. CASE f = new
    <3>1. PICK i \in Range(inputTokens) : e \in PastEvents(i)
      BY <2>1, <2>4
    <3> QED  BY <1>4, <2>2, <2>4, <3>1
  <2>5. CASE e # new /\ f # new
    <3>1. PICK i \in Range(inputTokens) : e \in PastEvents(i)
      BY <2>1, <2>5
    <3>2. PICK j \in Range(inputTokens) : f \in PastEvents(j)
      BY <2>1, <2>5
    <3>3. i = j
      BY <1>3
    <3> QED  BY <1>2, <1>5, <2>2, <3>1, <3>2, <3>3
  <2> QED  BY <2>3, <2>4, <2>5
<1> QED  BY <1>6, <1>7

\* The cone invariant is kept by every step.
LEMMA ConeInvariantStep ==
    ASSUME GraphTyped, CausalLayers, ChoicesArePast, ConeInvariant,
           SpacelikeRules = Rules, [Next]_vars
    PROVE  ConeInvariant'
<1>1. CASE UNCHANGED vars
  <2>1. ConeDetermined' <=> ConeDetermined
    BY <1>1 DEF vars, ConeDetermined, IsCone, Inputs, AllEventIDs
  <2>2. Cone' = Cone
    BY <1>1 DEF vars, Cone, IsCone, Inputs, AllEventIDs
  <2>3. \A id : PastEvents(id)' = PastEvents(id)
    BY <1>1, <2>2, PastIsCone DEF vars
  <2>4. /\ \A e : Inputs(e)' = Inputs(e)
        /\ \A id : PrerequisiteChoices(id)' = PrerequisiteChoices(id)
        /\ AllTokenIDs' = AllTokenIDs /\ AllEventIDs' = AllEventIDs
        /\ creatorEvents' = creatorEvents /\ isSpacelikeEvolution' = isSpacelikeEvolution
    BY <1>1 DEF vars, Inputs, PrerequisiteChoices, AllTokenIDs, AllEventIDs
  <2>5. PastBounded'
    BY <2>3, <2>4 DEF ConeInvariant, PastBounded
  <2>6. ChoicesAreCones'
    BY <2>3, <2>4 DEF ConeInvariant, ChoicesAreCones
  <2>7. PastDestroysOnce'
    BY <2>3, <2>4 DEF ConeInvariant, PastDestroysOnce
  <2> QED  BY <2>1, <2>4, <2>5, <2>6, <2>7 DEF ConeInvariant
<1>2. CASE Next
  <2>1. PICK rule \in Rules, inputTokens \in InputTuples, count \in OutputCounts :
          CanInstantiate(rule, inputTokens) /\ AddEvent(rule, inputTokens, count)
    BY <1>2 DEF Next
  <2>2. ConeDetermined'
    BY <2>1, AddEventExtendsCones DEF ConeInvariant
  <2>3. PastBounded'
    BY <2>1, PastBoundedStep DEF ConeInvariant
  <2>4. ChoicesAreCones'
    BY <2>1, ChoicesAreConesStep
  <2>5. isSpacelikeEvolution'
    <3>1. CASE SeparationTracking = "None"
      BY <2>1, <3>1 DEF AddEvent, AddLastEventDestroyerChoices, ConeInvariant
    <3>2. CASE SeparationTracking = "DestroyerChoices"
      <4>1. ~InconsistentPrerequisites(inputTokens)
        BY <2>1, <3>2, SpacelikeInputsMerge DEF ConeInvariant
      <4> QED  BY <2>1, <3>2, <4>1 DEF AddEvent, AddLastEventDestroyerChoices, ConeInvariant
    <3> QED  BY <3>1, <3>2, TrackingAssumption
  <2>6. PastDestroysOnce'
    <3>1. CASE SeparationTracking = "None"
      BY <2>1, <3>1, PastDestroysOnceStep
    <3>2. CASE SeparationTracking = "DestroyerChoices"
      <4>1. \A id \in AllTokenIDs' : \A e \in PastEvents(id)' : \A token \in Inputs(e)' :
              PrerequisiteChoices(id)'[token] = e
        BY <2>4, <2>5, <3>2 DEF ChoicesAreCones
      <4> QED  BY <4>1 DEF PastDestroysOnce
    <3> QED  BY <3>1, <3>2, TrackingAssumption
  <2> QED  BY <2>2, <2>3, <2>4, <2>5, <2>6 DEF ConeInvariant
<1> QED  BY <1>1, <1>2

\* Every graph of Spacelike events alone has the cone invariant.
LEMMA ConesAlwaysChosen ==
    ASSUME SpacelikeRules = Rules
    PROVE  Spec => [](GraphTyped /\ CausalLayers /\ ChoicesArePast /\ ConeInvariant)
<1>1. Init => ChoicesArePast
  BY InitialChoicesArePast
<1>2. GraphTyped /\ CausalLayers /\ ChoicesArePast /\ ConeInvariant /\ [Next]_vars
        => ChoicesArePast' /\ ConeInvariant'
  BY ChoicesArePastStep, ConeInvariantStep
<1> QED  BY <1>1, <1>2, InitialCones, GraphAlwaysTyped, GraphIsCausal, PTL DEF Spec

\* A separation read from the choices is the separation of the two past cones.
LEMMA ChoicesSeparateAsCones ==
    ASSUME GraphTyped, CausalLayers, ChoicesArePast, ConeInvariant,
           SeparationTracking = "DestroyerChoices",
           NEW first \in AllTokenIDs, NEW second \in AllTokenIDs
    PROVE  TokenSeparation(first, second) = ConeSeparation(first, second)
<1> SUFFICES ASSUME first # second PROVE TokenSeparation(first, second) = ConeSeparation(first, second)
  BY DEF TokenSeparation, ConeSeparation, ConeInvariant
<1>1. isSpacelikeEvolution
  BY DEF ConeInvariant
<1>2. \A id \in AllTokenIDs :
        /\ \A token \in DOMAIN PrerequisiteChoices(id) :
             \E e \in PastEvents(id) : token \in Inputs(e)
        /\ \A e \in PastEvents(id) : \A token \in Inputs(e) :
             /\ token \in DOMAIN PrerequisiteChoices(id)
             /\ PrerequisiteChoices(id)[token] = e
        /\ id \notin DOMAIN PrerequisiteChoices(id)
  BY <1>1, NotInOwnPast DEF ConeInvariant, ChoicesAreCones
<1>3. \A id \in AllTokenIDs : \A token :
        token \in PastTokens(id) <=> token = id \/ token \in DOMAIN PrerequisiteChoices(id)
  <2>1. \A id \in AllTokenIDs : \A token :
          token \in UNION {Inputs(e) : e \in PastEvents(id)}
            <=> token \in DOMAIN PrerequisiteChoices(id)
    BY <1>2
  <2> QED  BY <2>1 DEF PastTokens
<1>4. \A token :
        token \in BoundaryTokens(first, second)
          <=> /\ token \in PastTokens(first) /\ token \in PastTokens(second)
              /\ \A e \in PastEvents(first) \cap PastEvents(second) : token \notin Inputs(e)
  BY DEF BoundaryTokens
<1>5. \A token \in {first, second} :
        token \in BoundaryTokens(first, second)
          <=> token \in PastTokens(first) /\ token \in PastTokens(second)
  BY <1>2, <1>4
<1>6. BoundaryTokens(first, second) \cap {first, second} # {}
        <=> TimelikeByChoices(first, second)
  BY <1>3, <1>5 DEF TimelikeByChoices
<1>7. ASSUME ~TimelikeByChoices(first, second)
      PROVE  BoundaryTokens(first, second) # {} <=> BranchlikeByChoices(first, second)
  <2>1. ASSUME NEW token \in BoundaryTokens(first, second)
        PROVE  BranchlikeByChoices(first, second)
    <3>1. token \in DOMAIN PrerequisiteChoices(first) \cap DOMAIN PrerequisiteChoices(second)
      BY <1>3, <1>4, <1>7, <2>1 DEF TimelikeByChoices
    <3>2. PICK e \in PastEvents(first) : token \in Inputs(e)
      BY <1>2, <3>1
    <3>3. PICK f \in PastEvents(second) : token \in Inputs(f)
      BY <1>2, <3>1
    <3>4. e # f
      BY <1>4, <2>1, <3>2, <3>3
    <3>5. PrerequisiteChoices(first)[token] = e /\ PrerequisiteChoices(second)[token] = f
      BY <1>2, <3>2, <3>3
    <3> QED  BY <3>1, <3>4, <3>5 DEF BranchlikeByChoices
  <2>2. ASSUME BranchlikeByChoices(first, second)
        PROVE  BoundaryTokens(first, second) # {}
    <3>1. PICK token \in DOMAIN PrerequisiteChoices(first)
                           \cap DOMAIN PrerequisiteChoices(second) :
            PrerequisiteChoices(first)[token] # PrerequisiteChoices(second)[token]
      BY <2>2 DEF BranchlikeByChoices
    <3>2. \A e \in PastEvents(first) \cap PastEvents(second) : token \notin Inputs(e)
      BY <1>2, <3>1
    <3>3. token \in BoundaryTokens(first, second)
      BY <1>3, <1>4, <3>1, <3>2
    <3> QED  BY <3>3
  <2> QED  BY <2>1, <2>2
<1> QED  BY <1>1, <1>6, <1>7 DEF TokenSeparation, ConeSeparation

\* With Spacelike rules only, whatever the rules' arity and the number of events,
\* the lookup in destroyerChoices_ gives the separation that the documentation
\* defines on past causal cones.
THEOREM SeparationIsConeSeparation ==
    ASSUME SpacelikeRules = Rules
    PROVE  Spec => []SeparationAgreesWithCones
<1>1. GraphTyped /\ CausalLayers /\ ChoicesArePast /\ ConeInvariant
        => SeparationAgreesWithCones
  BY ChoicesSeparateAsCones DEF SeparationAgreesWithCones
<1> QED  BY <1>1, ConesAlwaysChosen, PTL

\* With Spacelike rules only, tokens that are spacelike in pairs fit together in
\* one singleway history: comparing the inputs of a match in pairs is enough.
THEOREM SpacelikePairsAssemble ==
    ASSUME SpacelikeRules = Rules
    PROVE  Spec => []PairwiseSpacelikeTokensAssemble
<1>1. ASSUME GraphTyped, CausalLayers, ChoicesArePast, ConeInvariant
      PROVE  PairwiseSpacelikeTokensAssemble
  <2> SUFFICES ASSUME NEW ids \in SUBSET AllTokenIDs, PairwiseSpacelike(ids),
                      NEW a \in ids, NEW b \in ids,
                      NEW e \in PastEvents(a), NEW f \in PastEvents(b)
               PROVE  /\ e # f => Inputs(e) \cap Inputs(f) = {}
                      /\ Inputs(e) \cap ids = {}
    BY DEF PairwiseSpacelikeTokensAssemble
  <2>1. ASSUME NEW c \in ids, NEW d \in ids, c # d
        PROVE  /\ SeparationTracking = "DestroyerChoices"
               /\ ~TimelikeByChoices(c, d) /\ ~BranchlikeByChoices(c, d)
    <3>1. TokenSeparation(c, d) = "Spacelike"
      BY <2>1 DEF PairwiseSpacelike
    <3> QED  BY <3>1, TrackingAssumption DEF TokenSeparation
  <2>2. ASSUME SeparationTracking = "DestroyerChoices", NEW c \in ids, NEW g \in PastEvents(c),
               NEW token \in Inputs(g)
        PROVE  token \in DOMAIN PrerequisiteChoices(c) /\ PrerequisiteChoices(c)[token] = g
    BY <1>1, <2>2 DEF ConeInvariant, ChoicesAreCones
  <2>3. ASSUME e # f, NEW token \in Inputs(e), token \in Inputs(f)
        PROVE  FALSE
    <3>1. CASE a = b
      BY <1>1, <2>3, <3>1 DEF ConeInvariant, PastDestroysOnce
    <3>2. CASE a # b
      BY <2>1, <2>2, <2>3, <3>2 DEF BranchlikeByChoices
    <3> QED  BY <3>1, <3>2
  <2>4. ASSUME NEW token \in Inputs(e), token \in ids
        PROVE  FALSE
    <3>1. CASE token = a
      BY <1>1, <2>4, <3>1, NotInOwnPast DEF ConeInvariant
    <3>2. CASE token # a
      BY <2>1, <2>2, <2>4, <3>2 DEF TimelikeByChoices
    <3> QED  BY <3>1, <3>2
  <2> QED  BY <2>3, <2>4
<1> QED  BY <1>1, ConesAlwaysChosen, PTL

-----------------------------------------------------------------------------
(* The merge of prerequisites, one input after the other.                  *)

\* The choices after each of the inputs.
IsMerge(states, n, inputTokens, newEvent) ==
    states = [k \in 0..n |->
                IF k = 0 THEN Tracking ELSE MergeInput(newEvent, states[k - 1], inputTokens[k])]

LEMMA MergeExists ==
    ASSUME NEW N \in Nat, NEW inputTokens, NEW newEvent
    PROVE  \E states : IsMerge(states, N, inputTokens, newEvent)
<1> DEFINE Missing == {n \in Nat : ~\E states : IsMerge(states, n, inputTokens, newEvent)}
<1> SUFFICES ASSUME Missing # {} PROVE FALSE
  OBVIOUS
<1>1. PICK n \in Missing : \A m \in Missing : n <= m
  <2> HIDE DEF Missing
  <2>1. Missing \in SUBSET Nat  BY DEF Missing
  <2> QED  BY <2>1, LeastOf
<1>2. n \in Nat  OBVIOUS
<1>3. CASE n = 0
  <2> DEFINE first == [k \in 0..0 |-> Tracking]
  <2>1. first = [k \in 0..0 |->
                  IF k = 0 THEN Tracking ELSE MergeInput(newEvent, first[k - 1], inputTokens[k])]
    OBVIOUS
  <2> QED  BY <1>3, <2>1 DEF IsMerge
<1>4. CASE n # 0
  <2>1. n - 1 \in Nat /\ n - 1 \notin Missing  BY <1>1, <1>2, <1>4
  <2>2. PICK states : IsMerge(states, n - 1, inputTokens, newEvent)
    BY <2>1
  <2> DEFINE next == [k \in 0..n |->
                        IF k = n THEN MergeInput(newEvent, states[n - 1], inputTokens[n])
                        ELSE states[k]]
  <2>3. ASSUME NEW k \in 0..n
        PROVE  next[k] = IF k = 0 THEN Tracking
                         ELSE MergeInput(newEvent, next[k - 1], inputTokens[k])
    <3>1. CASE k = n
      <4>1. n - 1 \in 0..n /\ n - 1 # n  BY <1>2, <2>1
      <4>2. next[n - 1] = states[n - 1]  BY <4>1
      <4> QED  BY <1>4, <3>1, <4>2
    <3>2. CASE k # n
      <4>1. k \in 0..(n - 1)  BY <1>2, <3>2
      <4>2. states[k] = IF k = 0 THEN Tracking
                        ELSE MergeInput(newEvent, states[k - 1], inputTokens[k])
        BY <2>2, <4>1, Zenon DEF IsMerge
      <4>3. k # 0 => k - 1 \in 0..n /\ k - 1 # n  BY <1>2, <4>1
      <4>4. k # 0 => next[k - 1] = states[k - 1]  BY <4>3
      <4>5. next[k] = states[k]  BY <3>2
      <4> QED  BY <4>2, <4>4, <4>5
    <3> QED  BY <3>1, <3>2
  <2>4. next = [k \in 0..n |-> next[k]]  OBVIOUS
  <2> HIDE DEF next
  <2>5. IsMerge(next, n, inputTokens, newEvent)
    <3>1. [k \in 0..n |-> next[k]] =
            [k \in 0..n |-> IF k = 0 THEN Tracking
                            ELSE MergeInput(newEvent, next[k - 1], inputTokens[k])]
      BY <2>3
    <3> QED  BY <2>4, <3>1 DEF IsMerge
  <2> QED  BY <2>5
<1> QED  BY <1>3, <1>4

LEMMA LoopIsMerge ==
    ASSUME NEW inputTokens, NEW newEvent, Len(inputTokens) \in Nat
    PROVE  \E states : /\ IsMerge(states, Len(inputTokens), inputTokens, newEvent)
                       /\ MergeLoop(inputTokens, newEvent) = states[Len(inputTokens)]
<1> DEFINE states == CHOOSE f : IsMerge(f, Len(inputTokens), inputTokens, newEvent)
<1>1. IsMerge(states, Len(inputTokens), inputTokens, newEvent)
  BY MergeExists
<1>2. MergeLoop(inputTokens, newEvent) = states[Len(inputTokens)]
  BY DEF MergeLoop, IsMerge
<1> QED  BY <1>1, <1>2

\* What the loop compares of two inputs, the earlier one first.
Clash(inputTokens, i, j) ==
    \/ inputTokens[i] \in DOMAIN PrerequisiteChoices(inputTokens[j])
    \/ BranchlikeByChoices(inputTokens[i], inputTokens[j])

FirstInputs(inputTokens, n) == {inputTokens[i] : i \in 1..n}
FirstInherited(inputTokens, n) == UNION {DOMAIN PrerequisiteChoices(inputTokens[i]) : i \in 1..n}

\* The choices after n inputs.
MergedSoFar(state, n, inputTokens, newEvent) ==
    /\ state.consistent <=> \A i, j \in 1..n : i <= j => ~Clash(inputTokens, i, j)
    /\ state.consistent =>
         /\ state.choices = [token \in DOMAIN state.choices |-> state.choices[token]]
         /\ DOMAIN state.choices = FirstInputs(inputTokens, n) \cup FirstInherited(inputTokens, n)
         /\ \A token \in FirstInputs(inputTokens, n) : state.choices[token] = newEvent
         /\ \A i \in 1..n : \A token \in DOMAIN PrerequisiteChoices(inputTokens[i]) :
              token \notin FirstInputs(inputTokens, n) =>
                state.choices[token] = PrerequisiteChoices(inputTokens[i])[token]

LEMMA MergeOneMore ==
    ASSUME NEW n \in Nat, NEW inputTokens, NEW newEvent, NEW state,
           MergedSoFar(state, n, inputTokens, newEvent),
           \A token \in DOMAIN PrerequisiteChoices(inputTokens[n + 1]) :
             PrerequisiteChoices(inputTokens[n + 1])[token] # newEvent
    PROVE  MergedSoFar(MergeInput(newEvent, state, inputTokens[n + 1]), n + 1, inputTokens, newEvent)
<1> DEFINE input == inputTokens[n + 1]
           incoming == PrerequisiteChoices(input)
           overwritten == [token \in {input} \cup DOMAIN state.choices |->
                             IF token = input THEN newEvent ELSE state.choices[token]]
           clash == \E token \in DOMAIN incoming \cap DOMAIN overwritten :
                      overwritten[token] # incoming[token]
           after == [token \in DOMAIN incoming \cup DOMAIN overwritten |->
                       IF token \in DOMAIN incoming THEN incoming[token] ELSE overwritten[token]]
           result == MergeInput(newEvent, state, input)
           First == FirstInputs(inputTokens, n)
           Inherited == FirstInherited(inputTokens, n)
<1>1. \A i : i \in 1..(n + 1) <=> i \in 1..n \/ i = n + 1
  OBVIOUS
<1>2. /\ FirstInputs(inputTokens, n + 1) = First \cup {input}
      /\ FirstInherited(inputTokens, n + 1) = Inherited \cup DOMAIN incoming
  BY <1>1 DEF FirstInputs, FirstInherited
<1>3. result = IF ~state.consistent \/ clash
               THEN [consistent |-> FALSE, choices |-> NoChoices]
               ELSE [consistent |-> TRUE, choices |-> after]
  BY DEF MergeInput
<1>4. (\A i, j \in 1..(n + 1) : i <= j => ~Clash(inputTokens, i, j)) <=>
        /\ \A i, j \in 1..n : i <= j => ~Clash(inputTokens, i, j)
        /\ \A i \in 1..(n + 1) : ~Clash(inputTokens, i, n + 1)
  <2>1. \A i \in 1..(n + 1) : i <= n + 1 /\ (n + 1 <= i => i = n + 1)
    OBVIOUS
  <2> QED  BY <1>1, <2>1
<1>5. CASE ~state.consistent
  <2>1. ~result.consistent  BY <1>3, <1>5
  <2>2. ~\A i, j \in 1..(n + 1) : i <= j => ~Clash(inputTokens, i, j)
    BY <1>4, <1>5 DEF MergedSoFar
  <2> HIDE DEF result
  <2> QED  BY <2>1, <2>2 DEF MergedSoFar, result
<1>6. CASE state.consistent
  <2>1. /\ DOMAIN state.choices = First \cup Inherited
        /\ \A token \in First : state.choices[token] = newEvent
        /\ \A i \in 1..n : \A token \in DOMAIN PrerequisiteChoices(inputTokens[i]) :
             token \notin First => state.choices[token] = PrerequisiteChoices(inputTokens[i])[token]
        /\ \A i, j \in 1..n : i <= j => ~Clash(inputTokens, i, j)
    BY <1>6 DEF MergedSoFar
  <2>2. DOMAIN overwritten = {input} \cup First \cup Inherited
    BY <2>1
  <2>3. \A token \in First \cup {input} : overwritten[token] = newEvent
    BY <2>1
  <2>4. \A i \in 1..n : \A token \in DOMAIN PrerequisiteChoices(inputTokens[i]) :
          token \notin First \cup {input} =>
            overwritten[token] = PrerequisiteChoices(inputTokens[i])[token]
    <3> SUFFICES ASSUME NEW i \in 1..n, NEW token \in DOMAIN PrerequisiteChoices(inputTokens[i]),
                        token \notin First \cup {input}
                 PROVE  overwritten[token] = PrerequisiteChoices(inputTokens[i])[token]
      OBVIOUS
    <3>1. token \in Inherited  BY DEF FirstInherited
    <3> HIDE DEF First, Inherited, input
    <3> QED  BY <2>1, <3>1
  <2>5. \A token \in DOMAIN incoming : incoming[token] # newEvent
    OBVIOUS
  <2>6. clash <=> \E i \in 1..(n + 1) : Clash(inputTokens, i, n + 1)
    <3>1. ASSUME NEW token \in DOMAIN incoming, token \in DOMAIN overwritten,
                 overwritten[token] # incoming[token]
          PROVE  \E i \in 1..(n + 1) : Clash(inputTokens, i, n + 1)
      <4>1. CASE token \in First \cup {input}
        <5>1. PICK i \in 1..(n + 1) : token = inputTokens[i]
          BY <1>2, <4>1 DEF FirstInputs
        <5> QED  BY <5>1 DEF Clash
      <4>2. CASE token \notin First \cup {input}
        <5>1. token \in Inherited  BY <2>2, <3>1, <4>2
        <5>2. PICK i \in 1..n : token \in DOMAIN PrerequisiteChoices(inputTokens[i])
          BY <5>1 DEF FirstInherited
        <5>3. overwritten[token] = PrerequisiteChoices(inputTokens[i])[token]
          BY <2>4, <4>2, <5>2
        <5>4. BranchlikeByChoices(inputTokens[i], inputTokens[n + 1])
          <6> HIDE DEF overwritten
          <6> QED  BY <3>1, <5>2, <5>3 DEF BranchlikeByChoices
        <5> QED  BY <1>1, <5>4 DEF Clash
      <4> QED  BY <4>1, <4>2
    <3>2. ASSUME NEW i \in 1..(n + 1), Clash(inputTokens, i, n + 1)
          PROVE  clash
      <4>1. inputTokens[i] \in First \cup {input}
        BY <1>2 DEF FirstInputs
      <4>2. ASSUME NEW token \in DOMAIN incoming, token \in First \cup {input}
            PROVE  clash
        <5>1. token \in DOMAIN overwritten /\ overwritten[token] = newEvent
          BY <2>2, <2>3, <4>2
        <5>2. incoming[token] # newEvent  BY <2>5
        <5> HIDE DEF overwritten, incoming
        <5> QED  BY <4>2, <5>1, <5>2
      <4>3. CASE inputTokens[i] \in DOMAIN incoming
        BY <4>1, <4>2, <4>3
      <4>4. CASE BranchlikeByChoices(inputTokens[i], input)
        <5>1. PICK token \in DOMAIN PrerequisiteChoices(inputTokens[i]) \cap DOMAIN incoming :
                PrerequisiteChoices(inputTokens[i])[token] # incoming[token]
          BY <4>4 DEF BranchlikeByChoices
        <5>2. i \in 1..n
          <6>1. i # n + 1  BY <5>1
          <6> QED  BY <1>1, <6>1
        <5>3. CASE token \in First \cup {input}
          BY <4>2, <5>1, <5>3
        <5>4. CASE token \notin First \cup {input}
          <6>1. overwritten[token] = PrerequisiteChoices(inputTokens[i])[token]
            BY <2>4, <5>1, <5>2, <5>4
          <6>2. token \in Inherited  BY <5>1, <5>2 DEF FirstInherited
          <6>3. token \in DOMAIN overwritten  BY <2>2, <6>2
          <6> HIDE DEF overwritten, incoming
          <6> QED  BY <5>1, <6>1, <6>3
        <5> QED  BY <5>3, <5>4
      <4> QED  BY <3>2, <4>3, <4>4 DEF Clash
    <3> HIDE DEF overwritten, incoming
    <3> QED  BY <3>1, <3>2
  <2>7. CASE clash
    <3>1. ~result.consistent  BY <1>3, <2>7
    <3>2. ~\A i, j \in 1..(n + 1) : i <= j => ~Clash(inputTokens, i, j)
      BY <1>4, <2>6, <2>7
    <3> HIDE DEF result
    <3> QED  BY <3>1, <3>2 DEF MergedSoFar, result
  <2>8. CASE ~clash
    <3>1. result.consistent /\ result.choices = after
      <4> HIDE DEF after
      <4> QED  BY <1>3, <1>6, <2>8
    <3>2. \A i, j \in 1..(n + 1) : i <= j => ~Clash(inputTokens, i, j)
      BY <1>4, <2>1, <2>6, <2>8
    <3>3. DOMAIN after = FirstInputs(inputTokens, n + 1) \cup FirstInherited(inputTokens, n + 1)
      BY <1>2, <2>2
    <3>4. \A token \in First \cup {input} : token \notin DOMAIN incoming
      <4> HIDE DEF overwritten, incoming
      <4> QED  BY <2>2, <2>3, <2>5, <2>8
    <3>5. \A token \in First \cup {input} : after[token] = newEvent
      <4> HIDE DEF overwritten, incoming, First, Inherited
      <4> QED  BY <2>2, <2>3, <3>4
    <3>6. ASSUME NEW i \in 1..(n + 1), NEW token \in DOMAIN PrerequisiteChoices(inputTokens[i]),
                 token \notin First \cup {input}
          PROVE  after[token] = PrerequisiteChoices(inputTokens[i])[token]
      <4>1. CASE token \in DOMAIN incoming
        <5>1. i = n + 1 \/ ~Clash(inputTokens, i, n + 1)  BY <1>4, <3>2
        <5>2. ~Clash(inputTokens, i, n + 1) =>
                incoming[token] = PrerequisiteChoices(inputTokens[i])[token]
          BY <3>6, <4>1 DEF Clash, BranchlikeByChoices
        <5>3. after[token] = incoming[token]
          <6> HIDE DEF overwritten, incoming
          <6> QED  BY <4>1
        <5> QED  BY <5>1, <5>2, <5>3
      <4>2. CASE token \notin DOMAIN incoming
        <5>1. i \in 1..n  BY <1>1, <3>6, <4>2
        <5>2. overwritten[token] = PrerequisiteChoices(inputTokens[i])[token]
          BY <2>4, <3>6, <5>1
        <5>3. token \in DOMAIN overwritten
          <6>1. token \in Inherited  BY <3>6, <5>1 DEF FirstInherited
          <6> QED  BY <2>2, <6>1
        <5>4. after[token] = overwritten[token]
          <6> HIDE DEF overwritten, incoming
          <6> QED  BY <4>2, <5>3
        <5> QED  BY <5>2, <5>4
      <4> QED  BY <4>1, <4>2
    <3>7. after = [token \in DOMAIN after |-> after[token]]
      <4> HIDE DEF overwritten, incoming
      <4> QED  OBVIOUS
    <3> HIDE DEF result, after, input, First
    <3> QED  BY <1>2, <3>1, <3>2, <3>3, <3>5, <3>6, <3>7 DEF MergedSoFar, result, input
  <2> QED  BY <2>7, <2>8
<1> QED  BY <1>5, <1>6

LEMMA LoopMergesAll ==
    ASSUME GraphTyped, SeparationTracking = "DestroyerChoices", isSpacelikeEvolution,
           NEW inputTokens \in InputTuples
    PROVE  MergedSoFar(MergeLoop(inputTokens, Len(events) + 1), Len(inputTokens),
                       inputTokens, Len(events) + 1)
<1> DEFINE newEvent == Len(events) + 1
           N == Len(inputTokens)
<1>1. /\ N \in Nat /\ Len(events) \in Nat /\ AllEventIDs = 1..Len(events)
      /\ \A i \in 1..N : inputTokens[i] \in AllTokenIDs
  BY InputTupleType, Domains
<1>2. ASSUME NEW i \in 1..N
      PROVE  \A token \in DOMAIN PrerequisiteChoices(inputTokens[i]) :
               PrerequisiteChoices(inputTokens[i])[token] # newEvent
  <2>1. \A token \in DOMAIN PrerequisiteChoices(inputTokens[i]) :
          PrerequisiteChoices(inputTokens[i])[token] \in 1..Len(events)
    BY <1>1, PrerequisitesType
  <2> QED  BY <1>1, <2>1
<1>3. PICK states : /\ IsMerge(states, N, inputTokens, newEvent)
                    /\ MergeLoop(inputTokens, newEvent) = states[N]
  BY <1>1, LoopIsMerge
<1> HIDE DEF newEvent, N
<1>4. /\ states[0] = Tracking
      /\ \A n \in 1..N : states[n] = MergeInput(newEvent, states[n - 1], inputTokens[n])
  <2>1. \A n \in 0..N : states[n] = IF n = 0 THEN Tracking
                                    ELSE MergeInput(newEvent, states[n - 1], inputTokens[n])
    BY <1>3, Zenon DEF IsMerge
  <2>2. 0 \in 0..N /\ \A n \in 1..N : n \in 0..N /\ n # 0  BY <1>1
  <2> QED  BY <2>1, <2>2
<1> DEFINE Right(n) == MergedSoFar(states[n], n, inputTokens, newEvent)
           Wrong == {n \in 0..N : ~Right(n)}
<1>5. Right(0)
  <2>1. 1..0 = {}  OBVIOUS
  <2>2. FirstInputs(inputTokens, 0) = {} /\ FirstInherited(inputTokens, 0) = {}
    BY <2>1 DEF FirstInputs, FirstInherited
  <2>3. /\ states[0].consistent /\ DOMAIN states[0].choices = {}
        /\ states[0].choices = [token \in DOMAIN states[0].choices |-> states[0].choices[token]]
    BY <1>4 DEF Tracking, NoChoices
  <2> QED  BY <2>1, <2>2, <2>3 DEF MergedSoFar
<1>6. ASSUME NEW n \in Nat, n + 1 <= N, Right(n) PROVE Right(n + 1)
  <2>1. n + 1 \in 1..N /\ (n + 1) - 1 = n  BY <1>1, <1>6
  <2>2. states[n + 1] = MergeInput(newEvent, states[n], inputTokens[n + 1])
    BY <1>4, <2>1
  <2>3. MergedSoFar(MergeInput(newEvent, states[n], inputTokens[n + 1]), n + 1, inputTokens, newEvent)
    BY <1>2, <1>6, <2>1, MergeOneMore
  <2> QED  BY <2>2, <2>3
<1> HIDE DEF Right
<1>7. Wrong = {}
  <2> SUFFICES ASSUME Wrong # {} PROVE FALSE
    OBVIOUS
  <2>1. PICK n \in Wrong : \A m \in Wrong : n <= m
    <3>1. Wrong \in SUBSET Nat  BY <1>1
    <3> HIDE DEF Wrong
    <3> QED  BY <3>1, LeastOf
  <2>2. n \in 0..N /\ ~Right(n) /\ n # 0  BY <1>5
  <2>3. n - 1 \in Nat /\ n - 1 \in 0..N /\ (n - 1) + 1 = n /\ ~(n <= n - 1)  BY <1>1, <2>2
  <2>4. Right(n - 1)  BY <2>1, <2>3
  <2>5. Right((n - 1) + 1)
    <3>1. (n - 1) + 1 <= N  BY <1>1, <2>2, <2>3
    <3> QED  BY <1>6, <2>3, <2>4, <3>1
  <2> QED  BY <2>2, <2>3, <2>5
<1>8. Right(N)
  <2>1. N \in 0..N  BY <1>1
  <2> QED  BY <1>7, <2>1
<1> QED  BY <1>3, <1>8 DEF Right, N, newEvent

\* The prerequisites of an event are what the loop over its inputs computes, in the
\* order of the inputs and overwriting as it goes, and they are called
\* inconsistent just when the loop stops, for every tuple of inputs.
THEOREM MergeIsAlwaysTheLoop == Spec => []MergeIsTheLoop
<1>1. GraphTyped => MergeIsTheLoop
  <2> SUFFICES ASSUME GraphTyped, SeparationTracking = "DestroyerChoices", isSpacelikeEvolution,
                      NEW inputTokens \in InputTuples
               PROVE  LET loop == MergeLoop(inputTokens, Len(events) + 1)
                      IN  /\ loop.consistent <=> ~InconsistentPrerequisites(inputTokens)
                          /\ loop.consistent =>
                               loop.choices = MergedChoices(inputTokens, Len(events) + 1)
    BY DEF MergeIsTheLoop
  <2> DEFINE newEvent == Len(events) + 1
             N == Len(inputTokens)
             loop == MergeLoop(inputTokens, newEvent)
             inputs == Range(inputTokens)
             inherited == UNION {DOMAIN PrerequisiteChoices(id) : id \in inputs}
             carrier(token) ==
                 CHOOSE id \in inputs : token \in DOMAIN PrerequisiteChoices(id)
  <2>1. DOMAIN inputTokens = 1..N  BY InputTupleType
  <2>2. MergedSoFar(loop, N, inputTokens, newEvent)  BY LoopMergesAll
  <2>3. FirstInputs(inputTokens, N) = inputs /\ FirstInherited(inputTokens, N) = inherited
    BY <2>1 DEF FirstInputs, FirstInherited, Range
  <2>4. InconsistentPrerequisites(inputTokens) <=>
          ~\A i, j \in 1..N : i <= j => ~Clash(inputTokens, i, j)
    BY <2>1 DEF InconsistentPrerequisites, Clash
  <2>5. loop.consistent <=> ~InconsistentPrerequisites(inputTokens)
    BY <2>2, <2>4 DEF MergedSoFar
  <2>6. ASSUME loop.consistent PROVE loop.choices = MergedChoices(inputTokens, newEvent)
    <3>1. /\ loop.choices = [token \in DOMAIN loop.choices |-> loop.choices[token]]
          /\ DOMAIN loop.choices = inputs \cup inherited
          /\ \A token \in inputs : loop.choices[token] = newEvent
          /\ \A i \in 1..N : \A token \in DOMAIN PrerequisiteChoices(inputTokens[i]) :
               token \notin inputs => loop.choices[token] = PrerequisiteChoices(inputTokens[i])[token]
      BY <2>2, <2>3, <2>6 DEF MergedSoFar
    <3>2. \A token \in inherited : /\ carrier(token) \in inputs
                                   /\ token \in DOMAIN PrerequisiteChoices(carrier(token))
      OBVIOUS
    <3>3. \A id \in inputs : \E i \in 1..N : id = inputTokens[i]
      BY <2>1 DEF Range
    <3> HIDE DEF loop, newEvent, inputs, inherited, carrier
    <3>4. \A token \in inputs \cup inherited :
            loop.choices[token] = IF token \in inputs THEN newEvent
                                  ELSE PrerequisiteChoices(carrier(token))[token]
      BY <3>1, <3>2, <3>3
    <3>5. MergedChoices(inputTokens, newEvent) =
            [token \in inputs \cup inherited |->
               IF token \in inputs THEN newEvent ELSE PrerequisiteChoices(carrier(token))[token]]
      BY DEF MergedChoices, inputs, inherited, carrier
    <3> QED  BY <3>1, <3>4, <3>5
  <2> QED  BY <2>5, <2>6
<1> QED  BY <1>1, GraphAlwaysTyped, PTL
=============================================================================
