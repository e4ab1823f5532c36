----------------------- MODULE HypergraphSystemProofs -----------------------
(***************************************************************************)
(* The substitution system keeps what the causal graph assumes of its      *)
(* caller, for every list of rules, every initial state and all limits, as *)
(* long as it is used steadily.  A run shows that it does not otherwise.   *)
(*                                                                         *)
(* The matches of the queue were found at some time before and for tokens  *)
(* as they were then.  The argument is about what has happened to the      *)
(* tokens since: which were used up, which limits were raised, and what    *)
(* became of their separations.                                            *)
(***************************************************************************)
EXTENDS HypergraphSubstitutionSystem, ArithmeticLemmas, FiniteSetTheorems, TLAPS

\* Callers never lower maxGenerationsLocal, a scan and its retry have threads at
\* hand alike, and tokens may be destroyed at all.
SteadyUse ==
    /\ GenerationsOnlyGrow
    /\ \E storage \in {"Main", "NewMatches"} : MatchStorages = {storage}
    /\ MaxDestroyerEvents > 0

-----------------------------------------------------------------------------
(* The invariant.                                                          *)

IsSequence(s) == s \in Seq(Range(s))
AnyEvent == [rule : Int, inputTokens : Seq(Nat), outputTokens : Seq(Nat), generation : Nat]
Tracked == SeparationTrackingMethod = "DestroyerChoices" /\ isSpacelikeEvolution

\* The graph, as far as the steps need it.
GraphTyped ==
    /\ events \in Seq(AnyEvent) /\ Len(events) > 0
    /\ creatorEvents \in Seq(Nat)
    /\ \A id \in 1..Len(creatorEvents) : creatorEvents[id] \in 1..Len(events)
    /\ destroyerEventsCount \in Seq(Nat) /\ Len(destroyerEventsCount) = Len(creatorEvents)
    /\ isSpacelikeEvolution \in BOOLEAN
    /\ Tracked => IsSequence(destroyerChoices) /\ Len(destroyerChoices) = Len(events)

\* A token counts its destroyers within the maximum, at most one for each event.
CountsBounded ==
    \A id \in 1..Len(creatorEvents) :
        /\ destroyerEventsCount[id] <= MaxDestroyerEvents
        /\ destroyerEventsCount[id] < Len(events)

\* The limits belong to the call, and the call goes on only below them.
CallsWithinLimits ==
    /\ stepSpec.maxGenerationsLocal \in 0..Disabled
    /\ call \in {"none", "replace", "replaceOnce"} /\ stage \in {"begin", "indexed"}
    /\ call = "replace" => stepSpec.maxEvents \in 0..MaxEvents
    /\ call = "replaceOnce" => Len(events) - 1 < MaxEvents
    /\ stage = "indexed" => /\ call # "none"
                            /\ Len(events) - 1 < MaxEvents
                            /\ unindexedTokens = {} /\ newMatches = {}
    /\ "NewMatches" \notin MatchStorages => newMatches = {}

\* A token that can still be an input under the current limits.
Usable(id) ==
    /\ id \in 1..Len(creatorEvents)
    /\ destroyerEventsCount[id] < MaxDestroyerEvents
    /\ Graph!TokenGeneration(id) < stepSpec.maxGenerationsLocal

\* Tokens waiting for a higher limit have not been used, all others that the
\* scans see can be.
TokensGood ==
    /\ IsSequence(tokens) /\ Len(tokens) = Len(creatorEvents)
    /\ \A id \in indexedTokens \cup unindexedTokens : Usable(id)
    /\ \A id \in 1..Len(creatorEvents) :
         Graph!TokenGeneration(id) >= stepSpec.maxGenerationsLocal => destroyerEventsCount[id] = 0

\* A match is still one, however long ago it was found.
MatchGood(match) ==
    /\ match.rule \in RuleIDs
    /\ match.inputTokens \in [DOMAIN RuleList[match.rule].inputs -> 1..Len(creatorEvents)]
    /\ IsInjective(match.inputTokens)
    /\ \A id \in Range(match.inputTokens) : Usable(id)
    /\ (match.rule \in SpacelikeRuleIDs /\ isSpacelikeEvolution) => Separated(match)

SystemSound ==
    /\ GraphTyped /\ CountsBounded /\ CallsWithinLimits /\ TokensGood
    /\ \A match \in matches \cup newMatches : MatchGood(match)

LEMMA Constants ==
    /\ MaxDestroyerEvents \in Nat /\ MaxEvents \in Nat /\ Disabled \in Nat
    /\ MaxEvents < Disabled
    /\ \A r \in RuleIDs : /\ RuleList[r].inputs \in Seq(Seq(Int))
                          /\ RuleList[r].outputs \in Seq(Seq(Int))
<1> DEFINE RuleSet == [inputs : Seq(Seq(Int)), outputs : Seq(Seq(Int)), spacelike : BOOLEAN]
<1>1. /\ MaxDestroyerEvents \in Nat /\ MaxEvents \in Nat /\ Disabled \in Nat
      /\ MaxEvents < Disabled
  BY LimitsAssumption
<1>2. ASSUME NEW r \in RuleIDs PROVE RuleList[r] \in RuleSet
  <2>1. RuleList \in Seq(RuleSet)  BY RuleListAssumption
  <2> HIDE DEF RuleSet
  <2> QED  BY <2>1 DEF RuleIDs
<1> QED  BY <1>1, <1>2

LEMMA GraphDomains ==
    ASSUME GraphTyped
    PROVE  /\ Len(events) \in Nat /\ Len(events) > 0 /\ DOMAIN events = 1..Len(events)
           /\ Len(creatorEvents) \in Nat /\ DOMAIN creatorEvents = 1..Len(creatorEvents)
           /\ DOMAIN destroyerEventsCount = 1..Len(creatorEvents)
           /\ \A e \in 1..Len(events) : events[e].generation \in Nat
           /\ \A id \in 1..Len(creatorEvents) : /\ creatorEvents[id] \in 1..Len(events)
                                                /\ destroyerEventsCount[id] \in Nat
                                                /\ Graph!TokenGeneration(id) \in Nat
<1>1. /\ events \in Seq(AnyEvent) /\ creatorEvents \in Seq(Nat)
      /\ destroyerEventsCount \in Seq(Nat) /\ Len(destroyerEventsCount) = Len(creatorEvents)
      /\ \A id \in 1..Len(creatorEvents) : creatorEvents[id] \in 1..Len(events)
      /\ Len(events) > 0
  BY DEF GraphTyped
<1>2. /\ Len(events) \in Nat /\ DOMAIN events = 1..Len(events)
      /\ \A e \in 1..Len(events) : events[e] \in AnyEvent
  BY <1>1
<1>3. \A e \in 1..Len(events) : events[e].generation \in Nat
  BY <1>2 DEF AnyEvent
<1>4. \A id \in 1..Len(creatorEvents) : Graph!TokenGeneration(id) \in Nat
  BY <1>1, <1>3 DEF Graph!TokenGeneration
<1>5. /\ Len(creatorEvents) \in Nat /\ DOMAIN creatorEvents = 1..Len(creatorEvents)
      /\ DOMAIN destroyerEventsCount = 1..Len(creatorEvents)
      /\ \A id \in 1..Len(creatorEvents) : destroyerEventsCount[id] \in Nat
  BY <1>1
<1> QED  BY <1>1, <1>2, <1>3, <1>4, <1>5

LEMMA TokensDomain ==
    ASSUME GraphTyped, TokensGood
    PROVE  DOMAIN tokens = 1..Len(creatorEvents)
BY DEF TokensGood, IsSequence

LEMMA InitSound == Init => SystemSound
<1> SUFFICES ASSUME Init PROVE SystemSound  OBVIOUS
<1>1. PICK state \in InitialStates : Len(state) = Len(creatorEvents) /\ tokens = state
  BY DEF Init
<1>2. state \in Seq(Seq(Nat)) /\ Len(state) \in Nat  BY RuleListAssumption
<1>3. PICK count \in {Len(initial) : initial \in InitialStates} :
        /\ events = <<[rule |-> -1, inputTokens |-> <<>>,
                       outputTokens |-> [i \in 1..count |-> i], generation |-> 0]>>
        /\ creatorEvents = [i \in 1..count |-> 1]
        /\ destroyerEventsCount = [i \in 1..count |-> 0]
        /\ destroyerChoices = IF SeparationTrackingMethod = "DestroyerChoices"
                              THEN <<Graph!NoChoices>> ELSE <<>>
        /\ isSpacelikeEvolution = TRUE
  BY DEF Init, Graph!Init, Graph!InitialConditionRule
<1>4. count \in Nat
  BY RuleListAssumption
<1>5. /\ events \in Seq(AnyEvent) /\ Len(events) = 1 /\ events[1].generation = 0
  <2> DEFINE first == [rule |-> -1, inputTokens |-> <<>>,
                       outputTokens |-> [i \in 1..count |-> i], generation |-> 0]
  <2>1. [i \in 1..count |-> i] \in Seq(Nat)  BY <1>4
  <2>2. first \in AnyEvent  BY <2>1 DEF AnyEvent
  <2>3. events = <<first>> /\ first.generation = 0  BY <1>3
  <2> HIDE DEF first
  <2> QED  BY <2>2, <2>3
<1>6. /\ creatorEvents \in Seq(Nat) /\ Len(creatorEvents) = count
      /\ \A id \in 1..count : creatorEvents[id] = 1
      /\ destroyerEventsCount \in Seq(Nat) /\ Len(destroyerEventsCount) = count
      /\ \A id \in 1..count : destroyerEventsCount[id] = 0
  BY <1>3, <1>4
<1>7. GraphTyped
  <2>1. Tracked => IsSequence(destroyerChoices) /\ Len(destroyerChoices) = 1
    BY <1>3 DEF Tracked, IsSequence, Range
  <2> QED  BY <1>3, <1>5, <1>6, <2>1 DEF GraphTyped
<1>8. CountsBounded  BY <1>5, <1>6, Constants DEF CountsBounded
<1>9. CallsWithinLimits
  BY Constants DEF Init, CallsWithinLimits, NoSteps
<1>10. TokensGood
  <2>1. IsSequence(tokens)
    <3>1. tokens \in Seq(Range(tokens))  BY <1>1, <1>2 DEF Range
    <3> QED  BY <3>1 DEF IsSequence
  <2> QED  BY <1>1, <1>6, <2>1 DEF Init, TokensGood
<1> QED  BY <1>7, <1>8, <1>9, <1>10 DEF Init, SystemSound

-----------------------------------------------------------------------------
(* The steps that leave the graph alone.                                   *)

\* A match stays good as long as the graph stays and limits are not lowered.
LEMMA MatchStaysGood ==
    ASSUME GraphTyped, CallsWithinLimits, UNCHANGED <<graphVars, tokens>>,
           stepSpec'.maxGenerationsLocal \in Nat,
           stepSpec'.maxGenerationsLocal >= stepSpec.maxGenerationsLocal
    PROVE  /\ \A id : Usable(id) => Usable(id)'
           /\ \A match : MatchGood(match) => MatchGood(match)'
<1>1. stepSpec.maxGenerationsLocal \in Nat  BY Constants DEF CallsWithinLimits
<1>2. ASSUME NEW id, Usable(id) PROVE Usable(id)'
  <2>1. Graph!TokenGeneration(id)' = Graph!TokenGeneration(id)
    BY DEF Graph!TokenGeneration, graphVars
  <2>2. Graph!TokenGeneration(id) \in Nat  BY <1>2, GraphDomains DEF Usable
  <2> QED  BY <1>1, <1>2, <2>1, <2>2 DEF Usable, graphVars
<1>3. ASSUME NEW match, MatchGood(match) PROVE MatchGood(match)'
  <2>1. Separated(match)' <=> Separated(match)
    BY DEF Separated, graphVars, Graph!TokenSeparation, Graph!TimelikeByChoices,
           Graph!BranchlikeByChoices, Graph!PrerequisiteChoices
  <2> QED  BY <1>2, <1>3, <2>1 DEF MatchGood, graphVars
<1> QED  BY <1>2, <1>3

LEMMA GraphKept ==
    ASSUME GraphTyped, CountsBounded, UNCHANGED graphVars
    PROVE  GraphTyped' /\ CountsBounded'
BY DEF GraphTyped, CountsBounded, Tracked, IsSequence, graphVars

\* Nothing but the graph, the tokens, the queues and the limits matters.
LEMMA QueuesKept ==
    ASSUME SystemSound, UNCHANGED <<graphVars, tokens, stepSpec>>,
           indexedTokens' \subseteq indexedTokens \cup unindexedTokens,
           unindexedTokens' \subseteq unindexedTokens,
           \A match \in matches' \cup newMatches' : MatchGood(match),
           CallsWithinLimits'
    PROVE  SystemSound'
<1>1. GraphTyped /\ CountsBounded /\ CallsWithinLimits /\ TokensGood
  BY DEF SystemSound
<1>2. GraphTyped' /\ CountsBounded'  BY <1>1, GraphKept
<1>3. /\ \A id : Usable(id) => Usable(id)'
      /\ \A match : MatchGood(match) => MatchGood(match)'
  <2>1. stepSpec.maxGenerationsLocal \in Nat  BY <1>1, Constants DEF CallsWithinLimits
  <2> QED  BY <1>1, <2>1, MatchStaysGood
<1>4. TokensGood'
  <2>1. \A id : Graph!TokenGeneration(id)' = Graph!TokenGeneration(id)
    BY DEF Graph!TokenGeneration, graphVars
  <2>2. \A id \in indexedTokens' \cup unindexedTokens' : Usable(id)'
    BY <1>1, <1>3 DEF TokensGood
  <2>3. IsSequence(tokens)' /\ Len(tokens)' = Len(creatorEvents)'
    BY <1>1 DEF TokensGood, IsSequence, graphVars
  <2> QED  BY <1>1, <2>1, <2>2, <2>3 DEF TokensGood, graphVars
<1> QED  BY <1>2, <1>3, <1>4 DEF SystemSound

\* What a scan finds are matches.
LEMMA ScannedMatchesGood ==
    ASSUME SystemSound, NEW match \in ScannedMatches
    PROVE  MatchGood(match)
<1>1. GraphTyped /\ TokensGood  BY DEF SystemSound
<1>2. PICK r \in RuleIDs :
        /\ match \in [rule : {r},
                      inputTokens : [DOMAIN RuleList[r].inputs -> indexedTokens \cup unindexedTokens]]
        /\ IsInjective(match.inputTokens) /\ Separated(match)
  BY DEF ScannedMatches, MatchesAmong
<1>3. /\ match.rule = r
      /\ match.inputTokens \in [DOMAIN RuleList[r].inputs -> indexedTokens \cup unindexedTokens]
  BY <1>2
<1>4. \A id \in indexedTokens \cup unindexedTokens : Usable(id)  BY <1>1 DEF TokensGood
<1>5. indexedTokens \cup unindexedTokens \subseteq 1..Len(creatorEvents)  BY <1>4 DEF Usable
<1>6. match.inputTokens \in [DOMAIN RuleList[r].inputs -> 1..Len(creatorEvents)]
  BY <1>3, <1>5
<1>7. \A id \in Range(match.inputTokens) : Usable(id)
  BY <1>3, <1>4 DEF Range
<1> QED  BY <1>2, <1>3, <1>6, <1>7 DEF MatchGood

-----------------------------------------------------------------------------
(* The calls.                                                              *)

\* Tokens that a higher limit lets in have never been used.
LEMMA HigherLimitSound ==
    ASSUME SteadyUse, SystemSound, call = "none", NEW spec,
           spec.maxGenerationsLocal \in 0..Disabled,
           spec.maxGenerationsLocal >= stepSpec.maxGenerationsLocal,
           UpdateStepSpec(spec), CallsWithinLimits',
           UNCHANGED <<graphVars, tokens, indexedTokens, matches, newMatches>>
    PROVE  SystemSound'
<1> DEFINE limit == stepSpec.maxGenerationsLocal
<1>1. GraphTyped /\ CountsBounded /\ CallsWithinLimits /\ TokensGood
  BY DEF SystemSound
<1>2. GraphTyped' /\ CountsBounded'  BY <1>1, GraphKept
<1>3. stepSpec' = spec /\ limit \in Nat /\ spec.maxGenerationsLocal \in Nat
  BY <1>1, Constants DEF UpdateStepSpec, CallsWithinLimits
<1>4. /\ \A id : Usable(id) => Usable(id)'
      /\ \A match : MatchGood(match) => MatchGood(match)'
  BY <1>1, <1>3, MatchStaysGood
<1>5. ASSUME NEW id \in 1..Len(creatorEvents), spec.maxGenerationsLocal > limit,
             Graph!TokenGeneration(id) = limit
      PROVE  Usable(id)'
  <2>1. destroyerEventsCount[id] = 0  BY <1>1, <1>3, <1>5 DEF TokensGood
  <2>2. Graph!TokenGeneration(id)' = Graph!TokenGeneration(id)
    BY DEF Graph!TokenGeneration, graphVars
  <2> QED  BY <1>3, <1>5, <2>1, <2>2, Constants DEF Usable, SteadyUse, graphVars
<1>6. \A id \in unindexedTokens' \ unindexedTokens :
        /\ id \in 1..Len(creatorEvents) /\ spec.maxGenerationsLocal > limit
        /\ Graph!TokenGeneration(id) = limit
  BY <1>1, TokensDomain DEF UpdateStepSpec
<1>7. TokensGood'
  <2>1. \A id : Graph!TokenGeneration(id)' = Graph!TokenGeneration(id)
    BY DEF Graph!TokenGeneration, graphVars
  <2>2. \A id \in indexedTokens' \cup unindexedTokens' : Usable(id)'
    BY <1>1, <1>4, <1>5, <1>6 DEF TokensGood
  <2>3. IsSequence(tokens)' /\ Len(tokens)' = Len(creatorEvents)'
    BY <1>1 DEF TokensGood, IsSequence, graphVars
  <2>4. \A id \in 1..Len(creatorEvents)' :
          Graph!TokenGeneration(id)' >= stepSpec.maxGenerationsLocal'
            => destroyerEventsCount'[id] = 0
    BY <1>1, <1>3, <2>1, GraphDomains DEF TokensGood, graphVars
  <2> QED  BY <2>2, <2>3, <2>4 DEF TokensGood
<1> QED  BY <1>2, <1>4, <1>7 DEF SystemSound

LEMMA ReplaceSound ==
    ASSUME SteadyUse, SystemSound, NEW spec \in StepSpecs, Replace(spec)
    PROVE  SystemSound'
<1>1. /\ spec.maxGenerationsLocal \in 0..Disabled /\ spec.maxEvents \in 0..MaxEvents
      /\ spec.maxGenerationsLocal >= stepSpec.maxGenerationsLocal
  BY LimitsAssumption DEF Replace, SteadyUse
<1>2. CallsWithinLimits'
  <2>1. CallsWithinLimits /\ stage = "begin"
    BY DEF SystemSound, CallsWithinLimits, Replace
  <2>2. stepSpec' = spec /\ call' \in {"none", "replace"} /\ stage' = stage
        /\ newMatches' = newMatches
    BY DEF Replace, UpdateStepSpec
  <2> QED  BY <1>1, <2>1, <2>2 DEF CallsWithinLimits
<1> QED  BY <1>1, <1>2, HigherLimitSound DEF Replace, stateVars

LEMMA ReplaceOnceSound ==
    ASSUME SteadyUse, SystemSound, ReplaceOnce
    PROVE  SystemSound'
<1>1. CallsWithinLimits /\ stage = "begin"
  BY DEF SystemSound, CallsWithinLimits, ReplaceOnce
<1>2. AllSteps.maxGenerationsLocal = Disabled /\ stepSpec' = AllSteps
  BY DEF AllSteps, ReplaceOnce, UpdateStepSpec
<1>3. CallsWithinLimits'
  <2>1. /\ Len(events) - 1 < MaxEvents /\ events' = events /\ call' = "replaceOnce"
        /\ stage' = stage /\ newMatches' = newMatches
    BY DEF ReplaceOnce, graphVars, Graph!EventsCount
  <2> QED  BY <1>1, <1>2, <2>1, Constants DEF CallsWithinLimits
<1>4. AllSteps.maxGenerationsLocal >= stepSpec.maxGenerationsLocal
  BY <1>1, <1>2, Constants DEF CallsWithinLimits
<1>5. AllSteps.maxGenerationsLocal \in 0..Disabled  BY <1>2, Constants
<1> QED  BY <1>3, <1>4, <1>5, HigherLimitSound DEF ReplaceOnce, stateVars

-----------------------------------------------------------------------------
(* Indexing, and the ways a call ends.                                     *)

LEMMA IndexingGood ==
    ASSUME SteadyUse, SystemSound, IndexNewTokens
    PROVE  /\ indexedTokens' \subseteq indexedTokens \cup unindexedTokens
           /\ unindexedTokens' = {} /\ newMatches' = {}
           /\ \A match \in matches' \cup newMatches' : MatchGood(match)
<1>1. \A match \in matches \cup newMatches \cup ScannedMatches : MatchGood(match)
  BY ScannedMatchesGood DEF SystemSound
<1>2. "NewMatches" \notin MatchStorages => newMatches = {}
  BY DEF SystemSound, CallsWithinLimits
<1>3. PICK storage \in {"Main", "NewMatches"} : MatchStorages = {storage}  BY DEF SteadyUse
<1>4. indexedTokens' = indexedTokens \cup unindexedTokens /\ unindexedTokens' = {}
  BY DEF IndexNewTokens
<1>5. CASE storage = "Main"
  <2>1. matches' = matches \cup ScannedMatches /\ newMatches' = newMatches
    BY <1>3, <1>5 DEF IndexNewTokens
  <2>2. newMatches = {}  BY <1>2, <1>3, <1>5
  <2> QED  BY <1>1, <1>4, <2>1, <2>2
<1>6. CASE storage = "NewMatches"
  <2>1. matches' = matches \cup newMatches \cup ScannedMatches /\ newMatches' = {}
    BY <1>3, <1>6 DEF IndexNewTokens
  <2> QED  BY <1>1, <1>4, <2>1
<1> QED  BY <1>3, <1>5, <1>6

LEMMA AbortedIndexingGood ==
    ASSUME SystemSound, AbortIndexing
    PROVE  /\ indexedTokens' \subseteq indexedTokens \cup unindexedTokens
           /\ unindexedTokens' = unindexedTokens
           /\ "NewMatches" \notin MatchStorages => newMatches' = {}
           /\ \A match \in matches' \cup newMatches' : MatchGood(match)
<1>1. \A match \in matches \cup newMatches \cup ScannedMatches : MatchGood(match)
  BY ScannedMatchesGood DEF SystemSound
<1>2. "NewMatches" \notin MatchStorages => newMatches = {}
  BY DEF SystemSound, CallsWithinLimits
<1>3. PICK storage \in MatchStorages, stored \in SUBSET ScannedMatches :
        \/ storage = "Main" /\ matches' = matches \cup stored /\ newMatches' = newMatches
        \/ storage = "NewMatches" /\ newMatches' = newMatches \cup stored /\ matches' = matches
  BY DEF AbortIndexing
<1>4. indexedTokens' = indexedTokens \cup unindexedTokens /\ unindexedTokens' = unindexedTokens
  BY DEF AbortIndexing
<1> QED  BY <1>1, <1>2, <1>3, <1>4

\* A call may end at any time.
LEMMA ReturnWithinLimits ==
    ASSUME SystemSound, call' = "none", stage' = "begin", UNCHANGED stepSpec,
           "NewMatches" \notin MatchStorages => newMatches' = {}
    PROVE  CallsWithinLimits'
BY DEF SystemSound, CallsWithinLimits

LEMMA StoppedSound ==
    ASSUME SystemSound, call' = "none", stage' = "begin",
           UNCHANGED <<graphVars, tokens, matcherVars, stepSpec>>
    PROVE  SystemSound'
<1>1. CallsWithinLimits'
  BY ReturnWithinLimits DEF SystemSound, CallsWithinLimits, matcherVars
<1> QED  BY <1>1, QueuesKept DEF SystemSound, matcherVars

LEMMA IndexSound ==
    ASSUME SteadyUse, SystemSound, Index
    PROVE  SystemSound'
<1>1. CallsWithinLimits  BY DEF SystemSound
<1>2. /\ unindexedTokens' = {} /\ newMatches' = {}
      /\ indexedTokens' \subseteq indexedTokens \cup unindexedTokens
      /\ \A match \in matches' \cup newMatches' : MatchGood(match)
  BY IndexingGood DEF Index
<1>3. Len(events) - 1 < MaxEvents
  <2>1. Len(events) - 1 < stepSpec.maxEvents /\ call # "none"
    BY DEF Index, Graph!EventsCount
  <2>2. Len(events) \in Nat  BY GraphDomains DEF SystemSound
  <2> QED  BY <1>1, <2>1, <2>2, Constants DEF CallsWithinLimits
<1>4. CallsWithinLimits'
  BY <1>1, <1>2, <1>3 DEF Index, CallsWithinLimits, graphVars
<1> QED  BY <1>2, <1>4, QueuesKept DEF Index, stateVars

LEMMA AbortSound ==
    ASSUME SystemSound, Abort
    PROVE  SystemSound'
<1>1. /\ indexedTokens' \subseteq indexedTokens \cup unindexedTokens
      /\ unindexedTokens' = unindexedTokens
      /\ "NewMatches" \notin MatchStorages => newMatches' = {}
      /\ \A match \in matches' \cup newMatches' : MatchGood(match)
  BY AbortedIndexingGood DEF Abort
<1>2. CallsWithinLimits'
  BY <1>1, ReturnWithinLimits DEF Abort, Return
<1> QED  BY <1>1, <1>2, QueuesKept DEF Abort, stateVars

LEMMA MaxCompleteGenerationSound ==
    ASSUME SteadyUse, SystemSound, MaxCompleteGeneration
    PROVE  SystemSound'
<1>1. /\ indexedTokens' \subseteq indexedTokens \cup unindexedTokens
      /\ unindexedTokens' \subseteq unindexedTokens
      /\ "NewMatches" \notin MatchStorages => newMatches' = {}
      /\ \A match \in matches' \cup newMatches' : MatchGood(match)
  BY IndexingGood, AbortedIndexingGood DEF MaxCompleteGeneration
<1>2. CallsWithinLimits'
  <2>1. call' = "none" /\ stage' = "begin" /\ stepSpec' = stepSpec
    BY DEF MaxCompleteGeneration, SystemSound, CallsWithinLimits
  <2> QED  BY <1>1, <2>1, ReturnWithinLimits
<1> QED  BY <1>1, <1>2, QueuesKept DEF MaxCompleteGeneration, stateVars

\* The other steps that end a call.
LEMMA StopsSound ==
    ASSUME SystemSound,
           \/ StopAtMaxEvents \/ StopWithoutMatches
           \/ \E match \in matches : StopAtFinalStateLimit(match) \/ RunOutOfAtoms(match)
    PROVE  SystemSound'
<1>1. /\ call' = "none" /\ stage' = "begin"
      /\ UNCHANGED <<graphVars, tokens, matcherVars, stepSpec>>
  BY DEF StopAtMaxEvents, StopWithoutMatches, StopAtFinalStateLimit, RunOutOfAtoms, Return,
         stateVars
<1> QED  BY <1>1, StoppedSound

-----------------------------------------------------------------------------
(* What an event does to the graph.                                        *)

LEMMA SequenceOf ==
    ASSUME NEW S, NEW s \in Seq(S)
    PROVE  IsSequence(s)
BY DEF IsSequence, Range

LEMMA Appended ==
    ASSUME NEW s, NEW x, IsSequence(s)
    PROVE  /\ IsSequence(Append(s, x)) /\ Len(Append(s, x)) = Len(s) + 1
           /\ \A i \in 1..Len(s) : Append(s, x)[i] = s[i]
           /\ Append(s, x)[Len(s) + 1] = x
<1> DEFINE S == Range(s) \cup {x}
<1>1. s \in Seq(S)
  <2>1. s \in Seq(Range(s))  BY DEF IsSequence
  <2> QED  BY <2>1
<1>2. Append(s, x) \in Seq(S)
  <2>1. x \in S  OBVIOUS
  <2> HIDE DEF S
  <2> QED  BY <1>1, <2>1
<1>3. IsSequence(Append(s, x))
  <2> HIDE DEF S
  <2> QED  BY <1>2, SequenceOf
<1>4. /\ Len(Append(s, x)) = Len(s) + 1
      /\ \A i \in 1..Len(s) : Append(s, x)[i] = s[i]
      /\ Append(s, x)[Len(s) + 1] = x
  <2> HIDE DEF S
  <2> QED  BY <1>1
<1> QED  BY <1>3, <1>4

LEMMA Concatenated ==
    ASSUME NEW s, NEW t, IsSequence(s), IsSequence(t)
    PROVE  IsSequence(s \o t) /\ Len(s \o t) = Len(s) + Len(t)
<1> DEFINE S == Range(s) \cup Range(t)
<1>1. s \in Seq(S) /\ t \in Seq(S)
  BY DEF IsSequence
<1>2. s \o t \in Seq(S) /\ Len(s \o t) = Len(s) + Len(t)
  <2> HIDE DEF S
  <2> QED  BY <1>1
<1> HIDE DEF S
<1> QED  BY <1>2, SequenceOf

\* Inputs below a limit give an event within it.
LEMMA NewGenerationBounded ==
    ASSUME GraphTyped, NEW inputs, DOMAIN inputs = 1..Len(inputs), Len(inputs) \in Nat,
           NEW limit \in Nat, inputs # <<>> => Len(inputs) > 0,
           \A id \in Range(inputs) : /\ id \in 1..Len(creatorEvents)
                                     /\ Graph!TokenGeneration(id) < limit
    PROVE  Graph!NewEventGeneration(inputs) \in 0..limit
<1>1. CASE inputs = <<>>
  BY <1>1 DEF Graph!NewEventGeneration
<1>2. CASE inputs # <<>>
  <2> DEFINE generations == {Graph!TokenGeneration(id) : id \in Range(inputs)}
  <2>1. inputs[1] \in Range(inputs)  BY <1>2 DEF Range
  <2>2. generations \subseteq Nat /\ generations # {} /\ \A g \in generations : g < limit
    BY <2>1, GraphDomains
  <2>3. \A g \in generations : g <= limit  BY <2>2
  <2>4. PICK g \in generations : \A h \in generations : h <= g
    <3> HIDE DEF generations
    <3> QED  BY <2>2, <2>3, LargestElement
  <2>5. (CHOOSE k \in generations : \A h \in generations : h <= k) \in generations
    <3> HIDE DEF generations
    <3> QED  BY <2>4
  <2>6. Graph!NewEventGeneration(inputs)
          = 1 + (CHOOSE k \in generations : \A h \in generations : h <= k)
    BY <1>2 DEF Graph!NewEventGeneration, Graph!Range, Range
  <2>7. \A k \in generations : k \in Nat /\ 1 + k \in 0..limit
    <3> HIDE DEF generations
    <3> QED  BY <2>2
  <2> HIDE DEF generations
  <2> QED  BY <2>5, <2>6, <2>7
<1> QED  BY <1>1, <1>2

LEMMA GraphGrows ==
    ASSUME GraphTyped, CountsBounded,
           NEW rule \in Int, NEW inputs \in Seq(1..Len(creatorEvents)), NEW count \in Nat,
           Graph!NewEventGeneration(inputs) \in Nat,
           \A id \in Range(inputs) : destroyerEventsCount[id] < MaxDestroyerEvents,
           Graph!AddEvent(rule, inputs, count)
    PROVE  /\ GraphTyped' /\ CountsBounded'
           /\ Len(events') = Len(events) + 1
           /\ \A e \in 1..Len(events) : events'[e] = events[e]
           /\ events'[Len(events')].rule = rule
           /\ events'[Len(events')].inputTokens = inputs
           /\ events'[Len(events')].generation = Graph!NewEventGeneration(inputs)
           /\ events'[Len(events')].outputTokens = Graph!NewTokens(count)
           /\ Len(creatorEvents') = Len(creatorEvents) + count
           /\ \A id \in 1..Len(creatorEvents) :
                /\ Graph!TokenGeneration(id)' = Graph!TokenGeneration(id)
                /\ destroyerEventsCount'[id] <= destroyerEventsCount[id] + 1
                /\ id \in Range(inputs) => destroyerEventsCount'[id] = destroyerEventsCount[id] + 1
                /\ id \notin Range(inputs) => destroyerEventsCount'[id] = destroyerEventsCount[id]
           /\ \A id \in 1..Len(creatorEvents') \ 1..Len(creatorEvents) :
                /\ destroyerEventsCount'[id] = 0
                /\ Graph!TokenGeneration(id)' = Graph!NewEventGeneration(inputs)
           /\ isSpacelikeEvolution' => isSpacelikeEvolution
           /\ Tracked' =>
                \A first, second \in 1..Len(creatorEvents) :
                  Graph!TokenSeparation(first, second)' = Graph!TokenSeparation(first, second)
<1> DEFINE newest == [rule |-> rule, inputTokens |-> inputs,
                      outputTokens |-> Graph!NewTokens(count),
                      generation |-> Graph!NewEventGeneration(inputs)]
           created == [i \in 1..count |-> Len(events) + 1]
<1>1. /\ Len(events) \in Nat /\ Len(events) > 0 /\ Len(creatorEvents) \in Nat
      /\ DOMAIN events = 1..Len(events)
      /\ DOMAIN creatorEvents = 1..Len(creatorEvents)
      /\ \A id \in 1..Len(creatorEvents) : /\ creatorEvents[id] \in 1..Len(events)
                                           /\ destroyerEventsCount[id] \in Nat
      /\ events \in Seq(AnyEvent) /\ creatorEvents \in Seq(Nat)
  BY GraphDomains DEF GraphTyped
<1>2. /\ events' = Append(events, newest)
      /\ creatorEvents' = creatorEvents \o created
      /\ destroyerEventsCount' =
           [id \in 1..(Len(creatorEvents) + count) |->
              IF id \in Range(inputs) THEN destroyerEventsCount[id] + 1
              ELSE IF id \in 1..Len(creatorEvents) THEN destroyerEventsCount[id] ELSE 0]
      /\ Graph!AddLastEventDestroyerChoices(inputs, Len(events) + 1)
  BY <1>1 DEF Graph!AddEvent, Graph!AllTokenIDs, Graph!Range, Range
<1>3. newest \in AnyEvent
  <2>1. inputs \in Seq(Nat)  BY <1>1
  <2>2. Graph!NewTokens(count) \in Seq(Nat)  BY <1>1 DEF Graph!NewTokens
  <2> QED  BY <2>1, <2>2 DEF AnyEvent
<1>4. /\ events' \in Seq(AnyEvent) /\ Len(events') = Len(events) + 1
      /\ \A e \in 1..Len(events) : events'[e] = events[e]
      /\ events'[Len(events) + 1] = newest
  <2> HIDE DEF newest
  <2> QED  BY <1>1, <1>2, <1>3
<1>5. /\ events'[Len(events')].rule = rule /\ events'[Len(events')].inputTokens = inputs
      /\ events'[Len(events')].generation = Graph!NewEventGeneration(inputs)
      /\ events'[Len(events')].outputTokens = Graph!NewTokens(count)
  BY <1>4
<1>6. /\ creatorEvents' \in Seq(Nat) /\ Len(creatorEvents') = Len(creatorEvents) + count
      /\ \A id \in 1..Len(creatorEvents) : creatorEvents'[id] = creatorEvents[id]
      /\ \A id \in 1..Len(creatorEvents') \ 1..Len(creatorEvents) :
           creatorEvents'[id] = Len(events) + 1
      /\ \A id \in 1..Len(creatorEvents') : creatorEvents'[id] \in 1..Len(events')
  <2>1. created \in Seq(Nat) /\ Len(created) = count
        /\ \A i \in 1..count : created[i] = Len(events) + 1
    BY <1>1
  <2>2. /\ creatorEvents' \in Seq(Nat) /\ Len(creatorEvents') = Len(creatorEvents) + count
        /\ \A id \in 1..Len(creatorEvents) : creatorEvents'[id] = creatorEvents[id]
        /\ \A id \in 1..Len(creatorEvents') \ 1..Len(creatorEvents) :
             creatorEvents'[id] = Len(events) + 1
    <3> HIDE DEF created
    <3>1. /\ creatorEvents' \in Seq(Nat) /\ Len(creatorEvents') = Len(creatorEvents) + count
          /\ \A id \in 1..Len(creatorEvents) : creatorEvents'[id] = creatorEvents[id]
          /\ \A id \in (Len(creatorEvents) + 1)..(Len(creatorEvents) + count) :
               creatorEvents'[id] = created[id - Len(creatorEvents)]
      <4>1. creatorEvents \o created \in Seq(Nat)
        BY <1>1, <2>1
      <4>2. Len(creatorEvents \o created) = Len(creatorEvents) + count
        <5>1. creatorEvents \in Seq(Nat) /\ created \in Seq(Nat) /\ Len(created) = count
          BY <1>1, <2>1
        <5>2. IsSequence(creatorEvents) /\ IsSequence(created)  BY <5>1, SequenceOf
        <5> QED  BY <5>1, <5>2, Concatenated
      <4>3. \A id \in 1..Len(creatorEvents) : (creatorEvents \o created)[id] = creatorEvents[id]
        BY <1>1, <2>1
      <4>4. \A id \in (Len(creatorEvents) + 1)..(Len(creatorEvents) + count) :
              (creatorEvents \o created)[id] = created[id - Len(creatorEvents)]
        BY <1>1, <2>1
      <4> QED  BY <1>2, <4>1, <4>2, <4>3, <4>4
    <3>2. ASSUME NEW id \in 1..Len(creatorEvents') \ 1..Len(creatorEvents)
          PROVE  creatorEvents'[id] = Len(events) + 1
      <4>1. id - Len(creatorEvents) \in 1..count
            /\ id \in (Len(creatorEvents) + 1)..(Len(creatorEvents) + count)
        BY <1>1, <3>1, <3>2
      <4> QED  BY <2>1, <3>1, <4>1
    <3> QED  BY <3>1, <3>2
  <2>3. ASSUME NEW id \in 1..Len(creatorEvents')
        PROVE  creatorEvents'[id] \in 1..Len(events')
    <3>1. CASE id \in 1..Len(creatorEvents)
      BY <1>1, <1>4, <2>2, <3>1
    <3>2. CASE id \notin 1..Len(creatorEvents)
      BY <1>1, <1>4, <2>2, <2>3, <3>2
    <3> QED  BY <3>1, <3>2
  <2> QED  BY <2>2, <2>3
<1>7. Range(inputs) \subseteq 1..Len(creatorEvents)
  BY DEF Range
<1>8. /\ destroyerEventsCount' \in Seq(Nat) /\ Len(destroyerEventsCount') = Len(creatorEvents')
      /\ \A id \in 1..Len(creatorEvents) :
           /\ destroyerEventsCount'[id] <= destroyerEventsCount[id] + 1
           /\ id \in Range(inputs) => destroyerEventsCount'[id] = destroyerEventsCount[id] + 1
           /\ id \notin Range(inputs) => destroyerEventsCount'[id] = destroyerEventsCount[id]
      /\ \A id \in 1..Len(creatorEvents') \ 1..Len(creatorEvents) : destroyerEventsCount'[id] = 0
  <2>1. \A id \in 1..Len(creatorEvents') :
          destroyerEventsCount'[id] = IF id \in Range(inputs) THEN destroyerEventsCount[id] + 1
              ELSE IF id \in 1..Len(creatorEvents) THEN destroyerEventsCount[id] ELSE 0
    BY <1>2, <1>6
  <2>2. DOMAIN destroyerEventsCount' = 1..Len(creatorEvents') /\ Len(creatorEvents') \in Nat
    BY <1>1, <1>2, <1>6
  <2>3. ASSUME NEW id \in 1..Len(creatorEvents') PROVE destroyerEventsCount'[id] \in Nat
    <3>1. \A old \in 1..Len(creatorEvents) : destroyerEventsCount[old] \in Nat  BY <1>1
    <3>2. CASE id \in Range(inputs)
      <4>1. destroyerEventsCount'[id] = destroyerEventsCount[id] + 1  BY <2>1, <3>2
      <4>2. destroyerEventsCount[id] \in Nat  BY <1>7, <3>1, <3>2
      <4> QED  BY <4>1, <4>2
    <3>3. CASE id \notin Range(inputs) /\ id \in 1..Len(creatorEvents)
      <4>1. destroyerEventsCount'[id] = destroyerEventsCount[id]  BY <2>1, <3>3
      <4> QED  BY <3>1, <3>3, <4>1
    <3>4. CASE id \notin Range(inputs) /\ id \notin 1..Len(creatorEvents)
      <4>1. destroyerEventsCount'[id] = 0  BY <2>1, <3>4
      <4> QED  BY <4>1
    <3> QED  BY <3>2, <3>3, <3>4
  <2>4. destroyerEventsCount' \in [1..Len(creatorEvents') -> Nat]
    BY <1>2, <2>2, <2>3
  <2>5. destroyerEventsCount' \in Seq(Nat) /\ Len(destroyerEventsCount') = Len(creatorEvents')
    BY <2>2, <2>4
  <2>6. 1..Len(creatorEvents) \subseteq 1..Len(creatorEvents')
    BY <1>1, <1>6
  <2>7. ASSUME NEW id \in 1..Len(creatorEvents)
        PROVE  /\ destroyerEventsCount'[id] <= destroyerEventsCount[id] + 1
               /\ id \in Range(inputs) => destroyerEventsCount'[id] = destroyerEventsCount[id] + 1
               /\ id \notin Range(inputs) => destroyerEventsCount'[id] = destroyerEventsCount[id]
    <3>1. destroyerEventsCount[id] \in Nat /\ id \in 1..Len(creatorEvents')
      BY <1>1, <2>6, <2>7
    <3>2. CASE id \in Range(inputs)
      <4>1. destroyerEventsCount'[id] = destroyerEventsCount[id] + 1  BY <2>1, <3>1, <3>2
      <4> QED  BY <3>1, <3>2, <4>1
    <3>3. CASE id \notin Range(inputs)
      <4>1. destroyerEventsCount'[id] = destroyerEventsCount[id]  BY <2>1, <2>7, <3>1, <3>3
      <4> QED  BY <3>1, <3>3, <4>1
    <3> QED  BY <3>2, <3>3
  <2>8. \A id \in 1..Len(creatorEvents') \ 1..Len(creatorEvents) : destroyerEventsCount'[id] = 0
    BY <1>7, <2>1
  <2> QED  BY <2>5, <2>7, <2>8
<1>9. /\ \A id \in 1..Len(creatorEvents) : Graph!TokenGeneration(id)' = Graph!TokenGeneration(id)
      /\ \A id \in 1..Len(creatorEvents') \ 1..Len(creatorEvents) :
           Graph!TokenGeneration(id)' = Graph!NewEventGeneration(inputs)
  BY <1>1, <1>4, <1>5, <1>6 DEF Graph!TokenGeneration
<1>10. /\ isSpacelikeEvolution' \in BOOLEAN
       /\ isSpacelikeEvolution' => isSpacelikeEvolution
       /\ Tracked' =>
            /\ IsSequence(destroyerChoices') /\ Len(destroyerChoices') = Len(events')
            /\ isSpacelikeEvolution
            /\ \A e \in 1..Len(events) : destroyerChoices'[e] = destroyerChoices[e]
  <2>1. isSpacelikeEvolution \in BOOLEAN
    BY DEF GraphTyped
  <2>2. CASE SeparationTrackingMethod = "None" \/ ~isSpacelikeEvolution
    <3>1. isSpacelikeEvolution' = isSpacelikeEvolution /\ ~Tracked'
      BY <1>2, <2>2 DEF Graph!AddLastEventDestroyerChoices, Tracked
    <3> QED  BY <2>1, <3>1
  <2>3. CASE SeparationTrackingMethod # "None" /\ isSpacelikeEvolution
    <3>1. \/ isSpacelikeEvolution' = FALSE
          \/ /\ destroyerChoices'
                  = Append(destroyerChoices, Graph!MergedChoices(inputs, Len(events) + 1))
             /\ isSpacelikeEvolution' = isSpacelikeEvolution
             /\ SeparationTrackingMethod = "DestroyerChoices"
      BY <1>2, <2>3 DEF Graph!AddLastEventDestroyerChoices
    <3>2. CASE isSpacelikeEvolution' = FALSE
      BY <2>3, <3>2 DEF Tracked
    <3>3. CASE /\ destroyerChoices'
                  = Append(destroyerChoices, Graph!MergedChoices(inputs, Len(events) + 1))
               /\ isSpacelikeEvolution' = isSpacelikeEvolution
               /\ SeparationTrackingMethod = "DestroyerChoices"
      <4>1. IsSequence(destroyerChoices) /\ Len(destroyerChoices) = Len(events)
        BY <2>3, <3>3 DEF GraphTyped, Tracked
      <4>2. /\ IsSequence(destroyerChoices') /\ Len(destroyerChoices') = Len(events')
            /\ \A e \in 1..Len(events) : destroyerChoices'[e] = destroyerChoices[e]
        BY <1>4, <3>3, <4>1, Appended
      <4> QED  BY <2>3, <3>3, <4>2
    <3> QED  BY <3>1, <3>2, <3>3
  <2> QED  BY <2>1, <2>2, <2>3
<1>11. GraphTyped'
  <2>1. Tracked' => IsSequence(destroyerChoices)' /\ Len(destroyerChoices)' = Len(events)'
    BY <1>10 DEF IsSequence
  <2>2. Len(events') > 0  BY <1>1, <1>4
  <2>3. events' \in Seq(AnyEvent)'
    BY <1>4 DEF AnyEvent
  <2>4. /\ creatorEvents' \in Seq(Nat)
        /\ \A id \in 1..Len(creatorEvents') : creatorEvents'[id] \in 1..Len(events')
    BY <1>6
  <2>5. /\ destroyerEventsCount' \in Seq(Nat) /\ Len(destroyerEventsCount') = Len(creatorEvents')
    BY <1>8
  <2>6. isSpacelikeEvolution' \in BOOLEAN
    BY <1>10
  <2> QED  BY <2>1, <2>2, <2>3, <2>4, <2>5, <2>6 DEF GraphTyped
<1>12. CountsBounded'
  <2>1. ASSUME NEW id \in 1..Len(creatorEvents')
        PROVE  /\ destroyerEventsCount'[id] <= MaxDestroyerEvents
               /\ destroyerEventsCount'[id] < Len(events')
    <3>1. CASE id \in 1..Len(creatorEvents)
      <4>1. /\ destroyerEventsCount[id] <= MaxDestroyerEvents
            /\ destroyerEventsCount[id] < Len(events)
        BY <3>1 DEF CountsBounded
      <4>2. destroyerEventsCount'[id] \in Nat /\ destroyerEventsCount[id] \in Nat
        <5>1. destroyerEventsCount[id] \in Nat  BY <1>1, <3>1
        <5>2. destroyerEventsCount' \in Seq(Nat) /\ id \in 1..Len(destroyerEventsCount')
          BY <1>8, <2>1
        <5>3. destroyerEventsCount'[id] \in Nat  BY <5>2
        <5> QED  BY <5>1, <5>3
      <4>3. destroyerEventsCount'[id] < Len(events')
        <5>1. destroyerEventsCount'[id] <= destroyerEventsCount[id] + 1  BY <1>8, <3>1
        <5>2. Len(events) \in Nat /\ Len(events') = Len(events) + 1  BY <1>1, <1>4
        <5> QED  BY <4>1, <4>2, <5>1, <5>2
      <4>4. CASE id \in Range(inputs)
        <5>1. destroyerEventsCount[id] < MaxDestroyerEvents  BY <4>4
        <5>2. destroyerEventsCount'[id] <= destroyerEventsCount[id] + 1  BY <1>8, <3>1
        <5>3. MaxDestroyerEvents \in Nat  BY Constants
        <5> QED  BY <4>2, <4>3, <5>1, <5>2, <5>3
      <4>5. CASE id \notin Range(inputs)
        BY <1>8, <3>1, <4>1, <4>3, <4>5
      <4> QED  BY <4>4, <4>5
    <3>2. CASE id \notin 1..Len(creatorEvents)
      <4>1. destroyerEventsCount'[id] = 0  BY <1>8, <2>1, <3>2
      <4> QED  BY <1>1, <1>4, <4>1, Constants
    <3> QED  BY <3>1, <3>2
  <2> QED  BY <2>1 DEF CountsBounded
<1>13. ASSUME Tracked', NEW first \in 1..Len(creatorEvents), NEW second \in 1..Len(creatorEvents)
       PROVE  Graph!TokenSeparation(first, second)' = Graph!TokenSeparation(first, second)
  <2>1. /\ Graph!PrerequisiteChoices(first)' = Graph!PrerequisiteChoices(first)
        /\ Graph!PrerequisiteChoices(second)' = Graph!PrerequisiteChoices(second)
    BY <1>1, <1>6, <1>10, <1>13 DEF Graph!PrerequisiteChoices
  <2>2. isSpacelikeEvolution /\ isSpacelikeEvolution'  BY <1>10, <1>13 DEF Tracked
  <2> QED
    BY <2>1, <2>2
    DEF Graph!TokenSeparation, Graph!TimelikeByChoices, Graph!BranchlikeByChoices
<1> QED  BY <1>4, <1>5, <1>6, <1>8, <1>9, <1>10, <1>11, <1>12, <1>13

-----------------------------------------------------------------------------
(* The event that a match becomes.                                         *)

LEMMA FunctionIsSequence ==
    ASSUME NEW f, NEW n \in Nat, DOMAIN f = 1..n, f = [i \in 1..n |-> f[i]]
    PROVE  IsSequence(f) /\ Len(f) = n
<1>1. \A i \in 1..n : f[i] \in Range(f)  BY DEF Range
<1>2. f \in [1..n -> Range(f)]  BY <1>1
<1> QED  BY <1>2 DEF IsSequence

\* Naming the atoms of the outputs leaves the number of tokens as it is.
LEMMA OutputsOfRule ==
    ASSUME NEW match, match.rule \in RuleIDs
    PROVE  LET named == NamedOutputs(ExplicitOutputs(match))
           IN  IsSequence(named) /\ Len(named) = Len(RuleList[match.rule].outputs)
<1> DEFINE outputs == RuleList[match.rule].outputs
           explicit == ExplicitOutputs(match)
           named == NamedOutputs(explicit)
<1>1. Len(outputs) \in Nat /\ DOMAIN outputs = 1..Len(outputs)
  <2>1. outputs \in Seq(Seq(Int))  BY Constants
  <2> HIDE DEF outputs
  <2> QED  BY <2>1
<1>2. DOMAIN explicit = DOMAIN outputs
  BY DEF ExplicitOutputs, Substituted
<1>3. DOMAIN named = DOMAIN explicit /\ named = [i \in DOMAIN explicit |-> named[i]]
  <2> HIDE DEF explicit
  <2> QED  BY DEF NamedOutputs
<1> HIDE DEF named, explicit, outputs
<1>4. IsSequence(named) /\ Len(named) = Len(outputs)
  BY <1>1, <1>2, <1>3, FunctionIsSequence
<1> QED  BY <1>4 DEF named, explicit, outputs

\* The inputs of a good match.
LEMMA InputsOfMatch ==
    ASSUME SystemSound, NEW match, MatchGood(match)
    PROVE  /\ match.rule \in RuleIDs /\ match.rule \in Int
           /\ DOMAIN match.inputTokens = 1..Len(match.inputTokens)
           /\ Len(match.inputTokens) = Len(RuleList[match.rule].inputs)
           /\ match.inputTokens \in Seq(1..Len(creatorEvents))
           /\ \A id \in Range(match.inputTokens) : Usable(id)
           /\ Graph!NewEventGeneration(match.inputTokens) \in 0..stepSpec.maxGenerationsLocal
<1> DEFINE inputs == match.inputTokens
           patterns == RuleList[match.rule].inputs
<1>1. /\ match.rule \in RuleIDs /\ inputs \in [DOMAIN patterns -> 1..Len(creatorEvents)]
      /\ \A id \in Range(inputs) : Usable(id)
  BY DEF MatchGood
<1>2. match.rule \in Int
  BY <1>1, RuleListAssumption DEF RuleIDs
<1>3. Len(patterns) \in Nat /\ DOMAIN patterns = 1..Len(patterns)
  <2>1. patterns \in Seq(Seq(Int))  BY <1>1, Constants
  <2> HIDE DEF patterns
  <2> QED  BY <2>1
<1>4. /\ inputs \in Seq(1..Len(creatorEvents)) /\ Len(inputs) = Len(patterns)
      /\ DOMAIN inputs = 1..Len(inputs) /\ Len(inputs) \in Nat
      /\ inputs # <<>> => Len(inputs) > 0
  <2>1. inputs \in [1..Len(patterns) -> 1..Len(creatorEvents)]  BY <1>1, <1>3
  <2> HIDE DEF inputs, patterns
  <2>2. inputs \in Seq(1..Len(creatorEvents)) /\ Len(inputs) = Len(patterns)
    BY <1>3, <2>1
  <2>3. inputs # <<>> => Len(inputs) > 0  BY <2>2
  <2> QED  BY <1>3, <2>1, <2>2, <2>3
<1>5. Graph!NewEventGeneration(inputs) \in 0..stepSpec.maxGenerationsLocal
  <2>1. GraphTyped /\ stepSpec.maxGenerationsLocal \in Nat
    BY Constants DEF SystemSound, CallsWithinLimits
  <2>2. \A id \in Range(inputs) : /\ id \in 1..Len(creatorEvents)
                                  /\ Graph!TokenGeneration(id) < stepSpec.maxGenerationsLocal
    BY <1>1 DEF Usable
  <2> HIDE DEF inputs
  <2> QED  BY <1>4, <2>1, <2>2, NewGenerationBounded
<1> QED  BY <1>1, <1>2, <1>4, <1>5

\* The system only takes matches that the graph may assume.
LEMMA MatchIsGraphStep ==
    ASSUME SystemSound, NEW match \in matches, Instantiate(match)
    PROVE  Graph!Next
<1> DEFINE count == Len(NamedOutputs(ExplicitOutputs(match)))
<1>1. /\ match.rule \in RuleIDs
      /\ DOMAIN match.inputTokens = 1..Len(RuleList[match.rule].inputs)
      /\ match.inputTokens \in Seq(1..Len(creatorEvents))
      /\ \A id \in Range(match.inputTokens) : Usable(id)
      /\ MatchGood(match)
  BY InputsOfMatch DEF SystemSound
<1>2. Graph!EventsCount < MaxEvents
  BY DEF Instantiate, SystemSound, CallsWithinLimits, Graph!EventsCount
<1>3. match.inputTokens \in Graph!InputTuples
  <2>1. Graph!AllTokenIDs = 1..Len(creatorEvents)
    BY GraphDomains DEF SystemSound, Graph!AllTokenIDs
  <2>2. match.inputTokens \in [1..Len(RuleList[match.rule].inputs) -> Graph!AllTokenIDs]
    BY <1>1, <2>1
  <2> QED  BY <1>1, <2>2 DEF Graph!InputTuples
<1>4. count \in {Len(RuleList[r].outputs) : r \in RuleIDs}
  BY <1>1, OutputsOfRule
<1>5. Graph!CanInstantiate(match.rule, match.inputTokens)
  <2>1. Graph!IsInjectiveTuple(match.inputTokens)
    BY <1>1 DEF MatchGood, IsInjective, Graph!IsInjectiveTuple
  <2>2. \A id \in Graph!Range(match.inputTokens) : destroyerEventsCount[id] < MaxDestroyerEvents
    BY <1>1 DEF Usable, Graph!Range, Range
  <2>3. (match.rule \in SpacelikeRuleIDs /\ isSpacelikeEvolution) =>
          \A i, j \in DOMAIN match.inputTokens :
            i # j => Graph!TokenSeparation(match.inputTokens[i], match.inputTokens[j]) = "Spacelike"
    BY <1>1 DEF MatchGood, Separated
  <2> QED  BY <2>1, <2>2, <2>3 DEF Graph!CanInstantiate
<1>6. Graph!AddEvent(match.rule, match.inputTokens, count)
  BY DEF Instantiate
<1> HIDE DEF count
<1> QED  BY <1>1, <1>2, <1>3, <1>4, <1>5, <1>6 DEF Graph!Next

\* The tokens and matches that stay are those whose tokens are not used up.
LEMMA ForgottenInTime ==
    ASSUME SystemSound, stage = "indexed", NEW match, ForgetDestroyed(match),
           \A id \in 1..Len(creatorEvents) :
              /\ destroyerEventsCount'[id] \in Nat
              /\ destroyerEventsCount'[id] <= destroyerEventsCount[id] + 1
    PROVE  /\ \A id \in indexedTokens' :
                /\ id \in indexedTokens
                /\ id \in Range(match.inputTokens) => destroyerEventsCount'[id] < MaxDestroyerEvents
           /\ \A other \in matches' :
                /\ other \in matches
                /\ \A id \in Range(other.inputTokens) \cap Range(match.inputTokens) :
                     destroyerEventsCount'[id] < MaxDestroyerEvents
<1> DEFINE inputs == Range(match.inputTokens)
           exhausted == {id \in inputs : destroyerEventsCount'[id] >= MaxDestroyerEvents}
<1>1. \A id \in indexedTokens : id \in 1..Len(creatorEvents)
  BY DEF SystemSound, TokensGood, Usable
<1>2. \A other \in matches : \A id \in Range(other.inputTokens) : id \in 1..Len(creatorEvents)
  BY DEF SystemSound, MatchGood, Usable
<1>3. CASE /\ MaxDestroyerEvents = 1
           /\ matches' = matches \ Involving(inputs) /\ indexedTokens' = indexedTokens \ inputs
  BY <1>3 DEF Involving
<1>4. CASE /\ MaxDestroyerEvents = Disabled
           /\ matches' = matches \ {match} /\ indexedTokens' = indexedTokens
  <2>1. \A id \in 1..Len(creatorEvents) : destroyerEventsCount'[id] < MaxDestroyerEvents
    <3>1. Len(events) \in Nat /\ Len(events) - 1 < MaxEvents /\ MaxEvents < Disabled
      BY GraphDomains, Constants DEF SystemSound, CallsWithinLimits
    <3>2. \A id \in 1..Len(creatorEvents) :
            destroyerEventsCount[id] \in Nat /\ destroyerEventsCount[id] < Len(events)
      BY GraphDomains DEF SystemSound, CountsBounded
    <3> QED  BY <1>4, <3>1, <3>2, Constants
  <2> QED  BY <1>1, <1>2, <1>4, <2>1
<1>5. CASE /\ matches' = matches \ ({match} \cup Involving(exhausted))
           /\ indexedTokens' = indexedTokens \ exhausted
  <2>1. \A id \in 1..Len(creatorEvents) :
          id \in inputs /\ id \notin exhausted => destroyerEventsCount'[id] < MaxDestroyerEvents
    BY Constants
  <2>2. \A other \in matches' : /\ other \in matches
                                /\ Range(other.inputTokens) \cap exhausted = {}
    BY <1>5 DEF Involving
  <2> QED  BY <1>1, <1>2, <1>5, <2>1, <2>2
<1> QED  BY <1>3, <1>4, <1>5 DEF ForgetDestroyed

LEMMA InstantiateSound ==
    ASSUME SteadyUse, SystemSound, NEW match \in matches, Instantiate(match)
    PROVE  SystemSound'
<1> DEFINE named == NamedOutputs(ExplicitOutputs(match))
           inputs == match.inputTokens
           count == Len(named)
           limit == stepSpec.maxGenerationsLocal
<1>1. /\ GraphTyped /\ CountsBounded /\ CallsWithinLimits /\ TokensGood
      /\ stage = "indexed" /\ unindexedTokens = {} /\ newMatches = {} /\ call # "none"
      /\ \A other \in matches : MatchGood(other)
  BY DEF SystemSound, CallsWithinLimits, Instantiate
<1>2. /\ Graph!AddEvent(match.rule, inputs, count) /\ AddTokens(named) /\ ForgetDestroyed(match)
      /\ call' = IF call = "replaceOnce" THEN "none" ELSE call
      /\ stage' = "begin" /\ newMatches' = newMatches /\ stepSpec' = stepSpec
  BY DEF Instantiate
<1>3. /\ match.rule \in RuleIDs /\ match.rule \in Int /\ inputs \in Seq(1..Len(creatorEvents))
      /\ \A id \in Range(inputs) : Usable(id)
      /\ Graph!NewEventGeneration(inputs) \in Nat
  <2>1. limit \in Nat  BY <1>1, Constants DEF CallsWithinLimits
  <2> QED  BY <1>1, <2>1, InputsOfMatch
<1>4. IsSequence(named) /\ count \in Nat
  <2>1. IsSequence(named)  BY <1>3, OutputsOfRule
  <2> HIDE DEF named
  <2> QED  BY <2>1 DEF IsSequence
<1> HIDE DEF named, count, inputs
<1>5. /\ GraphTyped' /\ CountsBounded'
      /\ Len(creatorEvents') = Len(creatorEvents) + count
      /\ \A id \in 1..Len(creatorEvents) :
           /\ Graph!TokenGeneration(id)' = Graph!TokenGeneration(id)
           /\ destroyerEventsCount'[id] <= destroyerEventsCount[id] + 1
           /\ id \notin Range(inputs) => destroyerEventsCount'[id] = destroyerEventsCount[id]
      /\ \A id \in 1..Len(creatorEvents') \ 1..Len(creatorEvents) : destroyerEventsCount'[id] = 0
      /\ isSpacelikeEvolution' => isSpacelikeEvolution
      /\ Tracked' =>
           \A first, second \in 1..Len(creatorEvents) :
             Graph!TokenSeparation(first, second)' = Graph!TokenSeparation(first, second)
  BY <1>1, <1>2, <1>3, <1>4, GraphGrows DEF Usable
<1>6. /\ Len(creatorEvents) \in Nat /\ Len(creatorEvents') \in Nat
      /\ 1..Len(creatorEvents) \subseteq 1..Len(creatorEvents')
      /\ \A id \in 1..Len(creatorEvents') : destroyerEventsCount'[id] \in Nat
  <2>1. Len(creatorEvents) \in Nat  BY <1>1, GraphDomains
  <2>2. /\ destroyerEventsCount' \in Seq(Nat)
        /\ Len(destroyerEventsCount') = Len(creatorEvents') /\ Len(creatorEvents') \in Nat
    BY <1>4, <1>5, <2>1 DEF GraphTyped
  <2>3. \A id \in 1..Len(creatorEvents') : destroyerEventsCount'[id] \in Nat
    BY <2>2
  <2> QED  BY <1>4, <1>5, <2>1, <2>2, <2>3
<1>7. /\ \A id \in indexedTokens' :
           /\ id \in indexedTokens
           /\ id \in Range(inputs) => destroyerEventsCount'[id] < MaxDestroyerEvents
      /\ \A other \in matches' :
           /\ other \in matches
           /\ \A id \in Range(other.inputTokens) \cap Range(inputs) :
                destroyerEventsCount'[id] < MaxDestroyerEvents
  BY <1>1, <1>2, <1>5, <1>6, ForgottenInTime DEF inputs
\* What could be used and has not been used up still can be.
<1>8. ASSUME NEW id, Usable(id),
             id \in Range(inputs) => destroyerEventsCount'[id] < MaxDestroyerEvents
      PROVE  Usable(id)'
  <2>1. id \in 1..Len(creatorEvents) /\ id \in 1..Len(creatorEvents')
    BY <1>6, <1>8 DEF Usable
  <2>2. destroyerEventsCount'[id] < MaxDestroyerEvents
    BY <1>5, <1>8, <2>1 DEF Usable
  <2>3. Graph!TokenGeneration(id)' < stepSpec'.maxGenerationsLocal
    BY <1>2, <1>5, <1>8, <2>1 DEF Usable
  <2> QED  BY <2>1, <2>2, <2>3 DEF Usable
<1>9. CallsWithinLimits'
  BY <1>1, <1>2 DEF CallsWithinLimits
<1>10. IsSequence(tokens') /\ Len(tokens') = Len(creatorEvents')
       /\ DOMAIN tokens' = 1..Len(creatorEvents') /\ DOMAIN tokens = 1..Len(creatorEvents)
  <2>1. tokens' = tokens \o named  BY <1>2 DEF AddTokens
  <2>2. IsSequence(tokens) /\ Len(tokens) = Len(creatorEvents)  BY <1>1 DEF TokensGood
  <2>3. IsSequence(tokens') /\ Len(tokens') = Len(creatorEvents')
    BY <1>5, <2>1, <2>2, <1>4, Concatenated DEF count
  <2> QED  BY <2>2, <2>3 DEF IsSequence
<1>11. ASSUME NEW id \in unindexedTokens' PROVE Usable(id)'
  <2>1. /\ id \in 1..Len(creatorEvents') \ 1..Len(creatorEvents)
        /\ Graph!TokenGeneration(id)' < stepSpec.maxGenerationsLocal
    BY <1>1, <1>2, <1>10, <1>11 DEF AddTokens
  <2>2. destroyerEventsCount'[id] = 0  BY <1>5, <2>1
  <2> QED  BY <1>2, <2>1, <2>2, Constants DEF Usable, SteadyUse
<1>12. ASSUME NEW id \in 1..Len(creatorEvents'),
              Graph!TokenGeneration(id)' >= stepSpec'.maxGenerationsLocal
       PROVE  destroyerEventsCount'[id] = 0
  <2>1. CASE id \in 1..Len(creatorEvents)
    <3>1. Graph!TokenGeneration(id) >= limit /\ Graph!TokenGeneration(id) \in Nat /\ limit \in Nat
      BY <1>1, <1>2, <1>5, <1>12, <2>1, GraphDomains, Constants DEF CallsWithinLimits
    <3>2. id \notin Range(inputs)  BY <1>3, <3>1 DEF Usable
    <3>3. destroyerEventsCount[id] = 0  BY <1>1, <2>1, <3>1 DEF TokensGood
    <3> QED  BY <1>5, <2>1, <3>2, <3>3
  <2>2. CASE id \notin 1..Len(creatorEvents)
    BY <1>5, <1>12, <2>2
  <2> QED  BY <2>1, <2>2
<1>13. TokensGood'
  <2>1. \A id \in indexedTokens' \cup unindexedTokens' : Usable(id)'
    BY <1>1, <1>7, <1>8, <1>11 DEF TokensGood
  <2>2. IsSequence(tokens)' /\ Len(tokens)' = Len(creatorEvents)'
    BY <1>10 DEF IsSequence
  <2> QED  BY <1>12, <2>1, <2>2 DEF TokensGood
<1>14. ASSUME NEW other \in matches' PROVE MatchGood(other)'
  <2>1. MatchGood(other)  BY <1>1, <1>7
  <2>2. \A id \in Range(other.inputTokens) : Usable(id)'
    BY <1>7, <1>8, <2>1 DEF MatchGood
  <2>3. /\ other.rule \in RuleIDs /\ IsInjective(other.inputTokens)
        /\ other.inputTokens \in [DOMAIN RuleList[other.rule].inputs -> 1..Len(creatorEvents)]
        /\ other.inputTokens \in [DOMAIN RuleList[other.rule].inputs -> 1..Len(creatorEvents')]
    BY <1>6, <2>1 DEF MatchGood
  <2>4. ASSUME other.rule \in SpacelikeRuleIDs, isSpacelikeEvolution' PROVE Separated(other)'
    <3>1. Tracked'  BY <2>4 DEF Tracked, SeparationTrackingMethod
    <3>2. Separated(other)  BY <1>5, <2>1, <2>4 DEF MatchGood
    <3>3. \A i \in DOMAIN other.inputTokens : other.inputTokens[i] \in 1..Len(creatorEvents)
      BY <2>3
    <3> QED  BY <1>5, <3>1, <3>2, <3>3 DEF Separated
  <2> QED  BY <2>2, <2>3, <2>4 DEF MatchGood
<1> QED  BY <1>1, <1>2, <1>5, <1>9, <1>13, <1>14 DEF SystemSound

-----------------------------------------------------------------------------
(* The theorems.                                                           *)

LEMMA StutterSound ==
    ASSUME SystemSound, UNCHANGED vars
    PROVE  SystemSound'
<1>1. /\ UNCHANGED <<graphVars, tokens, stepSpec>> /\ UNCHANGED <<call, stage>>
      /\ indexedTokens' = indexedTokens /\ unindexedTokens' = unindexedTokens
      /\ matches' = matches /\ newMatches' = newMatches
  BY DEF vars, stateVars, matcherVars
<1>2. CallsWithinLimits'
  BY <1>1 DEF SystemSound, CallsWithinLimits, graphVars
<1> QED  BY <1>1, <1>2, QueuesKept DEF SystemSound

LEMMA StepSound ==
    ASSUME SteadyUse, SystemSound, [Next]_vars
    PROVE  SystemSound'
<1>1. ASSUME NEW spec \in StepSpecs, Replace(spec) PROVE SystemSound'
  BY <1>1, ReplaceSound
<1>2. CASE ReplaceOnce
  BY <1>2, ReplaceOnceSound
<1>3. CASE StopAtMaxEvents \/ StopWithoutMatches
  BY <1>3, StopsSound
<1>4. CASE Index
  BY <1>4, IndexSound
<1>5. CASE Abort
  BY <1>5, AbortSound
<1>6. ASSUME NEW match \in matches, StopAtFinalStateLimit(match) \/ RunOutOfAtoms(match)
      PROVE  SystemSound'
  BY <1>6, StopsSound
<1>7. ASSUME NEW match \in matches, Instantiate(match) PROVE SystemSound'
  BY <1>7, InstantiateSound
<1>8. CASE MaxCompleteGeneration
  BY <1>8, MaxCompleteGenerationSound
<1>9. CASE UNCHANGED vars
  BY <1>9, StutterSound
<1> QED  BY <1>1, <1>2, <1>3, <1>4, <1>5, <1>6, <1>7, <1>8, <1>9 DEF Next

\* Steps other than an event leave the graph alone.
LEMMA OnlyEventsChangeGraph ==
    ASSUME [Next]_vars
    PROVE  UNCHANGED graphVars \/ \E match \in matches : Instantiate(match)
BY DEF Next, Replace, ReplaceOnce, StopAtMaxEvents, Index, Abort, StopWithoutMatches,
       StopAtFinalStateLimit, RunOutOfAtoms, MaxCompleteGeneration, vars

\* Whatever the rules, the initial state and the limits, the graph, the tokens, the
\* queue and the limits stay consistent: every match that waits in the queue can
\* still be instantiated.
THEOREM SystemStaysSound ==
    ASSUME SteadyUse
    PROVE  Spec => []SystemSound
<1>1. Init => SystemSound  BY InitSound
<1>2. SystemSound /\ [Next]_vars => SystemSound'  BY StepSound
<1> QED  BY <1>1, <1>2, PTL DEF Spec

\* The substitution system is an environment the causal graph may have: with
\* steady use, every event it adds has distinct inputs that are not used up and,
\* for a Spacelike rule, are pairwise spacelike separated, however long ago the
\* match was found.
THEOREM SystemImplementsGraph ==
    ASSUME SteadyUse
    PROVE  Spec => ImplementsGraph
<1>1. Init => Graph!Init  BY DEF Init
<1>2. SystemSound /\ [Next]_vars => [Graph!Next]_(Graph!vars)
  <2>1. UNCHANGED graphVars => UNCHANGED Graph!vars  BY DEF graphVars, Graph!vars
  <2> QED  BY <2>1, OnlyEventsChangeGraph, MatchIsGraphStep
<1>3. Spec => []SystemSound  BY SystemStaysSound
<1> QED  BY <1>1, <1>2, <1>3, PTL DEF Spec, ImplementsGraph, Graph!Spec

\* With steady use no token is destroyed by more events than the caller allowed.
THEOREM DestroyersStayWithinMaximum ==
    ASSUME SteadyUse
    PROVE  Spec => []DestroyersWithinMaximum
<1>1. SystemSound => DestroyersWithinMaximum
  BY TokensDomain DEF SystemSound, CountsBounded, DestroyersWithinMaximum
<1> QED  BY <1>1, SystemStaysSound, PTL

\* With steady use an event never passes the limit of generations that is in force
\* when it is instantiated, though its match may be from before.
THEOREM GenerationsStayWithinLimit ==
    ASSUME SteadyUse
    PROVE  Spec => EventsWithinGenerations
<1> DEFINE WithinLimit == events' # events =>
             events'[Len(events')].generation <= stepSpec.maxGenerationsLocal
<1>1. ASSUME SystemSound, NEW match \in matches, Instantiate(match)
      PROVE  WithinLimit
  <2> DEFINE generation == Graph!NewEventGeneration(match.inputTokens)
             count == Len(NamedOutputs(ExplicitOutputs(match)))
  <2>1. /\ match.rule \in RuleIDs /\ match.rule \in Int
        /\ match.inputTokens \in Seq(1..Len(creatorEvents))
        /\ \A id \in Range(match.inputTokens) : destroyerEventsCount[id] < MaxDestroyerEvents
        /\ generation \in 0..stepSpec.maxGenerationsLocal
    BY <1>1, InputsOfMatch DEF SystemSound, Usable
  <2>2. count \in Nat
    BY <2>1, OutputsOfRule DEF IsSequence
  <2>3. stepSpec.maxGenerationsLocal \in Nat
    BY <1>1, Constants DEF SystemSound, CallsWithinLimits
  <2>4. Graph!AddEvent(match.rule, match.inputTokens, count)
    BY <1>1 DEF Instantiate
  <2> HIDE DEF count
  <2>5. events'[Len(events')].generation = generation
    BY <1>1, <2>1, <2>2, <2>3, <2>4, GraphGrows DEF SystemSound
  <2> HIDE DEF generation
  <2> QED  BY <2>1, <2>3, <2>5
<1>2. SystemSound /\ [Next]_vars => [WithinLimit]_vars
  <2> HIDE DEF WithinLimit
  <2>1. ASSUME SystemSound, [Next]_vars PROVE [WithinLimit]_vars
    <3>1. CASE \E match \in matches : Instantiate(match)
      BY <1>1, <2>1, <3>1
    <3>2. CASE UNCHANGED graphVars
      BY <3>2 DEF WithinLimit, graphVars
    <3> QED  BY <2>1, <3>1, <3>2, OnlyEventsChangeGraph
  <2> QED  BY <2>1
<1>3. Spec => []SystemSound  BY SystemStaysSound
<1> QED  BY <1>2, <1>3, PTL DEF Spec, EventsWithinGenerations

-----------------------------------------------------------------------------
(* The incremental search is exact: although a scan only looks at matches  *)
(* that involve a token it has not seen yet, the queue always holds all    *)
(* matches that are left, and none twice.                                  *)
(*                                                                         *)
(* Matches enter the queue when their last token is indexed, and tokens    *)
(* are indexed before they are used.  So no match that was instantiated is *)
(* found again, and all others of indexed tokens are there.                *)

\* Separations are tracked, or no rule asks for them.
SeparationsKnown == SpacelikeRuleIDs = {} \/ isSpacelikeEvolution

\* As the matcher requires of rules when it searches.
RulesHaveInputs == \A r \in RuleIDs : RuleList[r].inputs # <<>>

IsEvent(match) ==
    \E e \in DOMAIN events :
        events[e].rule = match.rule /\ events[e].inputTokens = match.inputTokens

IsRecord(match) == match = [rule |-> match.rule, inputTokens |-> match.inputTokens]

\* A match of its rule, whichever tokens it has.
FitsRule(match) ==
    /\ match.rule \in RuleIDs /\ IsRecord(match)
    /\ match.inputTokens \in
         [DOMAIN RuleList[match.rule].inputs -> Range(match.inputTokens)]
    /\ IsInjective(match.inputTokens)
    /\ Fits(RuleList[match.rule].inputs, InputAtoms(match))
    /\ Separated(match)

-----------------------------------------------------------------------------
(* The invariant, on top of SystemSound.                                   *)

\* What waits in the queue has not happened, nor have tokens that wait to be
\* indexed been used.
MatchesAreNew ==
    /\ EventsDiffer
    /\ \A match \in matches \cup newMatches :
         IsRecord(match) /\ match.inputTokens # <<>> /\ ~IsEvent(match)
    /\ \A id \in unindexedTokens : destroyerEventsCount[id] = 0
    /\ \A e \in DOMAIN events : \A id \in Range(events[e].inputTokens) :
         id \in 1..Len(creatorEvents) /\ destroyerEventsCount[id] > 0

\* Every token that can be used has been or will be scanned.
AllTokensSeen ==
    /\ \A id : Usable(id) => id \in indexedTokens \cup unindexedTokens
    /\ largestGeneration \in Nat /\ largestGeneration <= stepSpec.maxGenerationsLocal
    /\ \A id \in 1..Len(creatorEvents) : Graph!TokenGeneration(id) <= largestGeneration

\* The queue has the matches of the tokens that have been scanned.
MatchesFound ==
    /\ \A match \in matches \cup newMatches : FitsRule(match)
    /\ \A match :
         /\ FitsRule(match) /\ Range(match.inputTokens) # {}
         /\ Range(match.inputTokens) \subseteq indexedTokens \ unindexedTokens
         => match \in matches \cup newMatches \/ IsEvent(match)

-----------------------------------------------------------------------------
(* Matches.                                                                *)

LEMMA AmongMeans ==
    ASSUME NEW ids, NEW match
    PROVE  match \in MatchesAmong(ids)
             <=> FitsRule(match) /\ Range(match.inputTokens) \subseteq ids
<1>1. ASSUME match \in MatchesAmong(ids)
      PROVE  FitsRule(match) /\ Range(match.inputTokens) \subseteq ids
  <2>1. PICK r \in RuleIDs :
          /\ match \in [rule : {r}, inputTokens : [DOMAIN RuleList[r].inputs -> ids]]
          /\ IsInjective(match.inputTokens) /\ Fits(RuleList[r].inputs, InputAtoms(match))
          /\ Separated(match)
    BY <1>1 DEF MatchesAmong
  <2>2. /\ match.rule = r /\ match.inputTokens \in [DOMAIN RuleList[r].inputs -> ids]
        /\ IsRecord(match)
    BY <2>1 DEF IsRecord
  <2>3. /\ Range(match.inputTokens) \subseteq ids
        /\ match.inputTokens \in [DOMAIN RuleList[r].inputs -> Range(match.inputTokens)]
    BY <2>2 DEF Range
  <2> QED  BY <2>1, <2>2, <2>3 DEF FitsRule
<1>2. ASSUME FitsRule(match), Range(match.inputTokens) \subseteq ids
      PROVE  match \in MatchesAmong(ids)
  <2>1. match.inputTokens \in [DOMAIN RuleList[match.rule].inputs -> ids]
    BY <1>2 DEF FitsRule
  <2>2. match \in [rule : {match.rule}, inputTokens : [DOMAIN RuleList[match.rule].inputs -> ids]]
    BY <1>2, <2>1 DEF FitsRule, IsRecord
  <2> QED  BY <1>2, <2>2 DEF MatchesAmong, FitsRule
<1> QED  BY <1>1, <1>2

LEMMA ScannedMeans ==
    ASSUME NEW match
    PROVE  match \in ScannedMatches
             <=> /\ FitsRule(match)
                 /\ Range(match.inputTokens) \subseteq indexedTokens \cup unindexedTokens
                 /\ Range(match.inputTokens) \cap unindexedTokens # {}
BY AmongMeans DEF ScannedMatches

LEMMA PossibleMeans ==
    ASSUME NEW match
    PROVE  match \in PossibleMatches
             <=> /\ FitsRule(match) /\ ~IsEvent(match)
                 /\ Range(match.inputTokens) \subseteq LiveTokens
BY AmongMeans DEF PossibleMatches, IsEvent

\* A match does not change as long as its tokens and their separations do not.
LEMMA FittingKept ==
    ASSUME NEW match, \A id \in Range(match.inputTokens) : tokens'[id] = tokens[id],
           match.rule \in SpacelikeRuleIDs =>
             \A first, second \in Range(match.inputTokens) :
               Graph!TokenSeparation(first, second)' = Graph!TokenSeparation(first, second)
    PROVE  FitsRule(match)' <=> FitsRule(match)
<1>1. InputAtoms(match)' = InputAtoms(match)
  BY DEF InputAtoms, Range
<1>2. Separated(match)' <=> Separated(match)
  BY DEF Separated, Range
<1> QED  BY <1>1, <1>2 DEF FitsRule, IsRecord

LEMMA FittingUnchanged ==
    ASSUME UNCHANGED <<graphVars, tokens>>, NEW match
    PROVE  /\ FitsRule(match)' <=> FitsRule(match)
           /\ IsEvent(match)' <=> IsEvent(match)
<1>1. \A first, second :
        Graph!TokenSeparation(first, second)' = Graph!TokenSeparation(first, second)
  BY DEF graphVars, Graph!TokenSeparation, Graph!TimelikeByChoices,
         Graph!BranchlikeByChoices, Graph!PrerequisiteChoices
<1>2. FitsRule(match)' <=> FitsRule(match)
  BY <1>1, FittingKept
<1> QED  BY <1>2 DEF IsEvent, graphVars

-----------------------------------------------------------------------------
(* The steps, as far as the search is concerned.                           *)

\* Limits are raised, a scan ends or is aborted, or nothing happens to the queues.
QuietStep ==
    /\ UNCHANGED <<graphVars, tokens>>
    /\ \/ /\ \E spec : /\ UpdateStepSpec(spec)
                       /\ spec.maxGenerationsLocal \in Nat
                       /\ spec.maxGenerationsLocal >= stepSpec.maxGenerationsLocal
          /\ UNCHANGED <<indexedTokens, matches, newMatches>>
       \/ IndexNewTokens /\ UNCHANGED stepSpec
       \/ AbortIndexing /\ UNCHANGED stepSpec
       \/ UNCHANGED <<matcherVars, stepSpec>>

LEMMA StepsOfSearch ==
    ASSUME SteadyUse, SystemSound, [Next]_vars
    PROVE  QuietStep \/ \E match \in matches : Instantiate(match)
<1>1. ASSUME NEW spec \in StepSpecs, Replace(spec) PROVE QuietStep
  <2>1. /\ spec.maxGenerationsLocal \in Nat
        /\ spec.maxGenerationsLocal >= stepSpec.maxGenerationsLocal
    BY <1>1, LimitsAssumption DEF Replace, SteadyUse
  <2> QED  BY <1>1, <2>1 DEF Replace, QuietStep, stateVars
<1>2. ASSUME ReplaceOnce PROVE QuietStep
  <2>1. /\ AllSteps.maxGenerationsLocal \in Nat
        /\ AllSteps.maxGenerationsLocal >= stepSpec.maxGenerationsLocal
    BY Constants DEF AllSteps, SystemSound, CallsWithinLimits
  <2> QED  BY <1>2, <2>1 DEF ReplaceOnce, QuietStep, stateVars
<1>3. ASSUME \/ StopAtMaxEvents \/ StopWithoutMatches
             \/ \E match \in matches : StopAtFinalStateLimit(match) \/ RunOutOfAtoms(match)
      PROVE  QuietStep
  BY <1>3 DEF StopAtMaxEvents, StopWithoutMatches, StopAtFinalStateLimit, RunOutOfAtoms,
              QuietStep, stateVars
<1>4. Index => QuietStep
  BY DEF Index, QuietStep, stateVars
<1>5. Abort => QuietStep
  BY DEF Abort, QuietStep, stateVars
<1>6. MaxCompleteGeneration => QuietStep
  BY DEF MaxCompleteGeneration, QuietStep, stateVars
<1>7. UNCHANGED vars => QuietStep
  BY DEF QuietStep, vars, stateVars
<1> QED  BY <1>1, <1>2, <1>3, <1>4, <1>5, <1>6, <1>7 DEF Next

\* Only what was scanned enters the queue, and nothing leaves it without an event.
LEMMA QuietQueues ==
    ASSUME QuietStep
    PROVE  /\ matches' \cup newMatches' \subseteq matches \cup newMatches \cup ScannedMatches
           /\ matches \cup newMatches \subseteq matches' \cup newMatches'
           /\ indexedTokens \cup unindexedTokens \subseteq indexedTokens' \cup unindexedTokens'
           /\ \/ indexedTokens' \ unindexedTokens' \subseteq indexedTokens \ unindexedTokens
              \/ /\ ScannedMatches \subseteq matches' \cup newMatches'
                 /\ indexedTokens' \subseteq indexedTokens \cup unindexedTokens
<1>1. CASE /\ \E spec : UpdateStepSpec(spec)
           /\ UNCHANGED <<indexedTokens, matches, newMatches>>
  <2>1. unindexedTokens \subseteq unindexedTokens'  BY <1>1 DEF UpdateStepSpec
  <2> QED  BY <1>1, <2>1
<1>2. CASE IndexNewTokens
  <2>1. /\ indexedTokens' = indexedTokens \cup unindexedTokens
        /\ \/ matches' = matches \cup ScannedMatches /\ newMatches' = newMatches
           \/ matches' = matches \cup newMatches \cup ScannedMatches /\ newMatches' = {}
    BY <1>2 DEF IndexNewTokens
  <2> QED  BY <2>1
<1>3. CASE AbortIndexing
  <2>1. PICK stored \in SUBSET ScannedMatches :
          \/ matches' = matches \cup stored /\ newMatches' = newMatches
          \/ newMatches' = newMatches \cup stored /\ matches' = matches
    BY <1>3 DEF AbortIndexing
  <2>2. indexedTokens' = indexedTokens \cup unindexedTokens /\ unindexedTokens' = unindexedTokens
    BY <1>3 DEF AbortIndexing
  <2> QED  BY <2>1, <2>2
<1>4. CASE UNCHANGED matcherVars
  BY <1>4 DEF matcherVars
<1> QED  BY <1>1, <1>2, <1>3, <1>4 DEF QuietStep

LEMMA ConcatenatedStart ==
    ASSUME NEW s, NEW t, IsSequence(s), IsSequence(t)
    PROVE  \A i \in 1..Len(s) : (s \o t)[i] = s[i]
<1> DEFINE S == Range(s) \cup Range(t)
<1>1. s \in Seq(S) /\ t \in Seq(S)
  BY DEF IsSequence
<1> HIDE DEF S
<1> QED  BY <1>1

\* All that an event does to the graph, the tokens and the limits.
LEMMA EventEffect ==
    ASSUME SystemSound, NEW match \in matches, Instantiate(match)
    PROVE  LET inputs == match.inputTokens
               generation == Graph!NewEventGeneration(inputs)
           IN  /\ generation \in 0..stepSpec.maxGenerationsLocal
               /\ \A id \in Range(inputs) : Usable(id)
               /\ Len(events) \in Nat /\ Len(events') = Len(events) + 1
               /\ \A e \in 1..Len(events) : events'[e] = events[e]
               /\ events'[Len(events')].rule = match.rule
               /\ events'[Len(events')].inputTokens = inputs
               /\ Len(creatorEvents) \in Nat
               /\ 1..Len(creatorEvents) \subseteq 1..Len(creatorEvents')
               /\ \A id \in 1..Len(creatorEvents) :
                    /\ tokens'[id] = tokens[id]
                    /\ Graph!TokenGeneration(id)' = Graph!TokenGeneration(id)
                    /\ id \in Range(inputs) =>
                         destroyerEventsCount'[id] = destroyerEventsCount[id] + 1
                    /\ id \notin Range(inputs) => destroyerEventsCount'[id] = destroyerEventsCount[id]
               /\ \A id \in 1..Len(creatorEvents') \ 1..Len(creatorEvents) :
                    /\ destroyerEventsCount'[id] = 0
                    /\ Graph!TokenGeneration(id)' = generation
               /\ isSpacelikeEvolution' => isSpacelikeEvolution
               /\ Tracked' =>
                    \A first, second \in 1..Len(creatorEvents) :
                      Graph!TokenSeparation(first, second)' = Graph!TokenSeparation(first, second)
               /\ largestGeneration' = Graph!Larger(largestGeneration, generation)
               /\ stepSpec' = stepSpec
               /\ unindexedTokens = {} /\ newMatches = {} /\ newMatches' = {}
               /\ DOMAIN tokens' = 1..Len(creatorEvents') /\ DOMAIN tokens = 1..Len(creatorEvents)
<1> DEFINE named == NamedOutputs(ExplicitOutputs(match))
           inputs == match.inputTokens
           generation == Graph!NewEventGeneration(inputs)
           count == Len(named)
<1>1. /\ GraphTyped /\ CountsBounded /\ CallsWithinLimits /\ TokensGood
      /\ stage = "indexed" /\ unindexedTokens = {} /\ newMatches = {} /\ MatchGood(match)
  BY DEF SystemSound, CallsWithinLimits, Instantiate
<1>2. /\ Graph!AddEvent(match.rule, inputs, count) /\ AddTokens(named)
      /\ newMatches' = newMatches /\ stepSpec' = stepSpec
  BY DEF Instantiate
<1>3. /\ match.rule \in RuleIDs /\ match.rule \in Int /\ inputs \in Seq(1..Len(creatorEvents))
      /\ \A id \in Range(inputs) : Usable(id)
      /\ generation \in 0..stepSpec.maxGenerationsLocal
  BY <1>1, InputsOfMatch
<1>4. generation \in Nat
  <2>1. stepSpec.maxGenerationsLocal \in Nat  BY <1>1, Constants DEF CallsWithinLimits
  <2> QED  BY <1>3, <2>1
<1>5. IsSequence(named) /\ count \in Nat
  <2>1. IsSequence(named)  BY <1>3, OutputsOfRule
  <2> HIDE DEF named
  <2> QED  BY <2>1 DEF IsSequence
<1>6. largestGeneration' = Graph!Larger(largestGeneration, generation)
  BY <1>2 DEF Graph!AddEvent
<1> HIDE DEF named, count, inputs, generation
<1>7. /\ Len(events') = Len(events) + 1
      /\ \A e \in 1..Len(events) : events'[e] = events[e]
      /\ events'[Len(events')].rule = match.rule
      /\ events'[Len(events')].inputTokens = inputs
      /\ Len(creatorEvents') = Len(creatorEvents) + count
      /\ \A id \in 1..Len(creatorEvents) :
           /\ Graph!TokenGeneration(id)' = Graph!TokenGeneration(id)
           /\ id \in Range(inputs) => destroyerEventsCount'[id] = destroyerEventsCount[id] + 1
           /\ id \notin Range(inputs) => destroyerEventsCount'[id] = destroyerEventsCount[id]
      /\ \A id \in 1..Len(creatorEvents') \ 1..Len(creatorEvents) :
           /\ destroyerEventsCount'[id] = 0
           /\ Graph!TokenGeneration(id)' = generation
      /\ isSpacelikeEvolution' => isSpacelikeEvolution
      /\ Tracked' =>
           \A first, second \in 1..Len(creatorEvents) :
             Graph!TokenSeparation(first, second)' = Graph!TokenSeparation(first, second)
  BY <1>1, <1>2, <1>3, <1>4, <1>5, GraphGrows DEF Usable, generation
<1>8. /\ Len(events) \in Nat /\ Len(creatorEvents) \in Nat
      /\ 1..Len(creatorEvents) \subseteq 1..Len(creatorEvents')
  <2>1. Len(events) \in Nat /\ Len(creatorEvents) \in Nat  BY <1>1, GraphDomains
  <2> QED  BY <1>5, <1>7, <2>1
<1>9. /\ \A id \in 1..Len(creatorEvents) : tokens'[id] = tokens[id]
      /\ DOMAIN tokens' = 1..Len(creatorEvents') /\ DOMAIN tokens = 1..Len(creatorEvents)
  <2>1. tokens' = tokens \o named  BY <1>2 DEF AddTokens
  <2>2. IsSequence(tokens) /\ Len(tokens) = Len(creatorEvents)  BY <1>1 DEF TokensGood
  <2>3. IsSequence(tokens') /\ Len(tokens') = Len(creatorEvents')
    <3>1. IsSequence(tokens \o named) /\ Len(tokens \o named) = Len(tokens) + Len(named)
      BY <1>5, <2>2, Concatenated
    <3>2. Len(creatorEvents') = Len(creatorEvents) + Len(named)  BY <1>7 DEF count
    <3> QED  BY <2>1, <2>2, <3>1, <3>2
  <2>4. \A id \in 1..Len(creatorEvents) : tokens'[id] = tokens[id]
    BY <1>5, <2>1, <2>2, ConcatenatedStart
  <2> QED  BY <2>2, <2>3, <2>4 DEF IsSequence
<1> QED  BY <1>1, <1>2, <1>3, <1>6, <1>7, <1>8, <1>9 DEF inputs, generation

-----------------------------------------------------------------------------
(* No match is found again.                                                *)

LEMMA ScannedAreNew ==
    ASSUME GraphTyped, TokensGood, MatchesAreNew, NEW match \in ScannedMatches
    PROVE  IsRecord(match) /\ match.inputTokens # <<>> /\ ~IsEvent(match)
<1>1. PICK id \in Range(match.inputTokens) : id \in unindexedTokens
  BY ScannedMeans
<1>2. id \in 1..Len(creatorEvents) /\ destroyerEventsCount[id] = 0
  BY <1>1 DEF TokensGood, Usable, MatchesAreNew
<1>3. IsRecord(match)  BY ScannedMeans DEF FitsRule
<1>4. match.inputTokens # <<>>  BY <1>1 DEF Range
<1>5. ~IsEvent(match)  BY <1>1, <1>2 DEF IsEvent, MatchesAreNew
<1> QED  BY <1>3, <1>4, <1>5

LEMMA QuietKeepsNew ==
    ASSUME SystemSound, MatchesAreNew, QuietStep
    PROVE  MatchesAreNew'
<1>1. GraphTyped /\ TokensGood /\ UNCHANGED <<graphVars, tokens>>
  BY DEF SystemSound, QuietStep
<1>2. EventsDiffer'
  BY <1>1 DEF MatchesAreNew, EventsDiffer, graphVars
<1>3. ASSUME NEW match \in matches' \cup newMatches'
      PROVE  IsRecord(match) /\ match.inputTokens # <<>> /\ ~IsEvent(match)'
  <2>1. match \in matches \cup newMatches \cup ScannedMatches  BY QuietQueues
  <2>2. IsRecord(match) /\ match.inputTokens # <<>> /\ ~IsEvent(match)
    BY <1>1, <2>1, ScannedAreNew DEF MatchesAreNew
  <2> QED  BY <1>1, <2>2, FittingUnchanged
<1>4. ASSUME NEW id \in unindexedTokens' PROVE destroyerEventsCount'[id] = 0
  <2>1. CASE id \in unindexedTokens
    BY <1>1, <2>1 DEF MatchesAreNew, graphVars
  <2>2. CASE id \notin unindexedTokens
    <3>1. PICK spec : UpdateStepSpec(spec)
      BY <1>4, <2>2 DEF QuietStep, IndexNewTokens, AbortIndexing, matcherVars
    <3>2. id \in 1..Len(creatorEvents) /\ Graph!TokenGeneration(id) = stepSpec.maxGenerationsLocal
      BY <1>1, <1>4, <2>2, <3>1, TokensDomain DEF UpdateStepSpec
    <3>3. Graph!TokenGeneration(id) \in Nat  BY <1>1, <3>2, GraphDomains
    <3>4. destroyerEventsCount[id] = 0  BY <1>1, <3>2, <3>3 DEF TokensGood
    <3> QED  BY <1>1, <3>4 DEF graphVars
  <2> QED  BY <2>1, <2>2
<1>5. \A e \in DOMAIN events' : \A id \in Range(events'[e].inputTokens) :
        id \in 1..Len(creatorEvents') /\ destroyerEventsCount'[id] > 0
  BY <1>1 DEF MatchesAreNew, graphVars
<1> QED  BY <1>2, <1>3, <1>4, <1>5 DEF MatchesAreNew, IsRecord

\* The match that was instantiated leaves the queue.
LEMMA MatchLeavesQueue ==
    ASSUME NEW match, Range(match.inputTokens) # {}, ForgetDestroyed(match)
    PROVE  match \notin matches' /\ matches' \subseteq matches
BY DEF ForgetDestroyed, Involving

LEMMA EventKeepsNew ==
    ASSUME SystemSound, MatchesAreNew, NEW match \in matches, Instantiate(match)
    PROVE  MatchesAreNew'
<1> DEFINE inputs == match.inputTokens
           last == Len(events')
<1>1. GraphTyped /\ TokensGood /\ MatchGood(match)
  BY DEF SystemSound
<1>2. IsRecord(match) /\ inputs # <<>> /\ ~IsEvent(match)
  BY DEF MatchesAreNew
<1>3. /\ Len(events) \in Nat /\ last = Len(events) + 1
      /\ \A e \in 1..Len(events) : events'[e] = events[e]
      /\ events'[last].rule = match.rule /\ events'[last].inputTokens = inputs
      /\ Len(creatorEvents) \in Nat
      /\ 1..Len(creatorEvents) \subseteq 1..Len(creatorEvents')
      /\ \A id \in 1..Len(creatorEvents) :
           /\ id \in Range(inputs) => destroyerEventsCount'[id] = destroyerEventsCount[id] + 1
           /\ id \notin Range(inputs) => destroyerEventsCount'[id] = destroyerEventsCount[id]
      /\ \A id \in 1..Len(creatorEvents') \ 1..Len(creatorEvents) : destroyerEventsCount'[id] = 0
      /\ \A id \in Range(inputs) : id \in 1..Len(creatorEvents)
      /\ unindexedTokens = {} /\ newMatches = {} /\ newMatches' = {}
      /\ DOMAIN tokens' = 1..Len(creatorEvents') /\ DOMAIN tokens = 1..Len(creatorEvents)
  BY EventEffect DEF Usable
<1>4. DOMAIN events = 1..Len(events) /\ DOMAIN events' = 1..last
      /\ DOMAIN events' = DOMAIN events \cup {last}
  <2>1. DOMAIN events = 1..Len(events)  BY <1>1, GraphDomains
  <2>2. events' = Append(events, events'[last])
    BY <1>1, <1>3 DEF Instantiate, Graph!AddEvent, GraphTyped
  <2>3. DOMAIN events' = 1..last
    BY <1>1, <1>3, <2>2 DEF GraphTyped
  <2> QED  BY <1>3, <2>1, <2>3
<1>5. \A id \in 1..Len(creatorEvents) : destroyerEventsCount[id] \in Nat
  BY <1>1, GraphDomains
<1>6. Range(inputs) # {}
  <2>1. DOMAIN inputs = 1..Len(inputs) /\ inputs \in Seq(1..Len(creatorEvents))
    BY <1>1, InputsOfMatch
  <2> HIDE DEF inputs
  <2>2. inputs[1] \in Range(inputs)  BY <1>2, <2>1 DEF Range
  <2> QED  BY <2>2
<1>7. match \notin matches' /\ matches' \subseteq matches
  BY <1>6, MatchLeavesQueue DEF Instantiate
<1> HIDE DEF inputs, last
<1>8. ASSUME NEW e \in DOMAIN events
      PROVE  events'[e] = events[e] /\ (events[e].rule # match.rule \/ events[e].inputTokens # inputs)
  <2>1. events'[e] = events[e]  BY <1>3, <1>4
  <2>2. events[e].rule # match.rule \/ events[e].inputTokens # inputs
    BY <1>2 DEF IsEvent, inputs
  <2> QED  BY <2>1, <2>2
<1>9. EventsDiffer'
  <2>1. ASSUME NEW e \in DOMAIN events', NEW f \in DOMAIN events', e # f
        PROVE  events'[e].rule # events'[f].rule \/ events'[e].inputTokens # events'[f].inputTokens
    <3>1. CASE e \in DOMAIN events /\ f \in DOMAIN events
      BY <1>8, <2>1, <3>1 DEF MatchesAreNew, EventsDiffer
    <3>2. CASE e = last \/ f = last
      BY <1>3, <1>4, <1>8, <2>1, <3>2
    <3> QED  BY <1>4, <3>1, <3>2
  <2> QED  BY <2>1 DEF EventsDiffer
<1>10. ASSUME NEW other \in matches'
       PROVE  IsRecord(other) /\ other.inputTokens # <<>> /\ ~IsEvent(other)'
  <2>1. /\ IsRecord(other) /\ other.inputTokens # <<>> /\ ~IsEvent(other)
        /\ other # match
    BY <1>7 DEF MatchesAreNew
  <2>2. other.rule # match.rule \/ other.inputTokens # inputs
    BY <1>2, <2>1 DEF IsRecord, inputs
  <2>3. ASSUME NEW e \in DOMAIN events'
        PROVE  events'[e].rule # other.rule \/ events'[e].inputTokens # other.inputTokens
    BY <1>3, <1>4, <1>8, <2>1, <2>2 DEF IsEvent
  <2> QED  BY <2>1, <2>3 DEF IsEvent
<1>11. ASSUME NEW id \in unindexedTokens' PROVE destroyerEventsCount'[id] = 0
  <2>1. id \in DOMAIN tokens' \ DOMAIN tokens
    BY <1>3, <1>11 DEF Instantiate, AddTokens
  <2> QED  BY <1>3, <2>1
<1>12. ASSUME NEW e \in DOMAIN events', NEW id \in Range(events'[e].inputTokens)
       PROVE  id \in 1..Len(creatorEvents') /\ destroyerEventsCount'[id] > 0
  <2>1. CASE e \in DOMAIN events
    <3>1. id \in 1..Len(creatorEvents) /\ destroyerEventsCount[id] > 0
      BY <1>8, <1>12, <2>1 DEF MatchesAreNew
    <3> QED  BY <1>3, <1>5, <3>1
  <2>2. CASE e = last
    <3>1. id \in Range(inputs) /\ id \in 1..Len(creatorEvents)  BY <1>3, <1>12, <2>2
    <3> QED  BY <1>3, <1>5, <3>1
  <2> QED  BY <1>4, <2>1, <2>2
<1> QED  BY <1>3, <1>9, <1>10, <1>11, <1>12 DEF MatchesAreNew, IsRecord

LEMMA InitNew == Init => MatchesAreNew
<1> SUFFICES ASSUME Init PROVE MatchesAreNew  OBVIOUS
<1>1. PICK first : events = <<first>> /\ first.inputTokens = <<>>
  BY DEF Init, Graph!Init
<1>2. DOMAIN events = {1} /\ events[1].inputTokens = <<>> /\ Range(<<>>) = {}
  BY <1>1 DEF Range
<1> QED  BY <1>2 DEF Init, MatchesAreNew, EventsDiffer

LEMMA StepKeepsNew ==
    ASSUME SteadyUse, SystemSound, MatchesAreNew, [Next]_vars
    PROVE  MatchesAreNew'
BY StepsOfSearch, QuietKeepsNew, EventKeepsNew

\* No event is instantiated twice, whatever scans were aborted and limits raised
\* in between: an event is the only one with its rule and its list of inputs.
THEOREM EventsNeverRepeat ==
    ASSUME SteadyUse
    PROVE  Spec => []EventsDiffer
<1>1. Init => MatchesAreNew  BY InitNew
<1>2. SystemSound /\ MatchesAreNew /\ [Next]_vars => MatchesAreNew'  BY StepKeepsNew
<1>3. MatchesAreNew => EventsDiffer  BY DEF MatchesAreNew
<1> QED  BY <1>1, <1>2, <1>3, SystemStaysSound, PTL DEF Spec

-----------------------------------------------------------------------------
(* All tokens are seen.                                                    *)

\* Only tokens that are used up leave the index, and only matches that were
\* instantiated or have lost a token leave the queue.
LEMMA OnlyUsedUpForgotten ==
    ASSUME NEW match, ForgetDestroyed(match),
           \A id \in Range(match.inputTokens) :
              destroyerEventsCount'[id] \in Nat /\ destroyerEventsCount'[id] > 0
    PROVE  /\ indexedTokens' \subseteq indexedTokens /\ matches' \subseteq matches
           /\ \A id \in indexedTokens \ indexedTokens' :
                destroyerEventsCount'[id] >= MaxDestroyerEvents
           /\ \A other \in matches \ matches' :
                other = match \/ ~(Range(other.inputTokens) \subseteq indexedTokens')
<1> DEFINE inputs == Range(match.inputTokens)
           exhausted == {id \in inputs : destroyerEventsCount'[id] >= MaxDestroyerEvents}
<1>1. CASE /\ MaxDestroyerEvents = 1
           /\ matches' = matches \ Involving(inputs) /\ indexedTokens' = indexedTokens \ inputs
  <2>1. \A id \in indexedTokens \ indexedTokens' : destroyerEventsCount'[id] >= MaxDestroyerEvents
    BY <1>1
  <2>2. \A other \in matches \ matches' : Range(other.inputTokens) \cap inputs # {}
    BY <1>1 DEF Involving
  <2> QED  BY <1>1, <2>1, <2>2
<1>2. CASE matches' = matches \ {match} /\ indexedTokens' = indexedTokens
  BY <1>2
<1>3. CASE /\ matches' = matches \ ({match} \cup Involving(exhausted))
           /\ indexedTokens' = indexedTokens \ exhausted
  <2>1. \A id \in indexedTokens \ indexedTokens' : destroyerEventsCount'[id] >= MaxDestroyerEvents
    BY <1>3
  <2>2. \A other \in matches \ matches' :
          other = match \/ Range(other.inputTokens) \cap exhausted # {}
    BY <1>3 DEF Involving
  <2> QED  BY <1>3, <2>1, <2>2
<1> QED  BY <1>1, <1>2, <1>3 DEF ForgetDestroyed

LEMMA QuietKeepsSeen ==
    ASSUME SystemSound, AllTokensSeen, QuietStep
    PROVE  AllTokensSeen'
<1> DEFINE limit == stepSpec.maxGenerationsLocal
<1>1. GraphTyped /\ TokensGood /\ UNCHANGED <<graphVars, tokens>> /\ limit \in Nat
  BY Constants DEF SystemSound, CallsWithinLimits, QuietStep
<1>2. \A id : Graph!TokenGeneration(id)' = Graph!TokenGeneration(id)
  BY <1>1 DEF Graph!TokenGeneration, graphVars
<1>3. \A id \in 1..Len(creatorEvents) : /\ Graph!TokenGeneration(id) \in Nat
                                        /\ Graph!TokenGeneration(id) <= limit
  BY <1>1, GraphDomains DEF AllTokensSeen
<1>4. CASE \E spec : /\ UpdateStepSpec(spec) /\ spec.maxGenerationsLocal \in Nat
                     /\ spec.maxGenerationsLocal >= limit
  <2>1. PICK spec : /\ UpdateStepSpec(spec) /\ spec.maxGenerationsLocal \in Nat
                    /\ spec.maxGenerationsLocal >= limit
    BY <1>4
  <2>2. stepSpec' = spec  BY <2>1 DEF UpdateStepSpec
  <2>3. ASSUME NEW id, Usable(id)' PROVE id \in indexedTokens' \cup unindexedTokens'
    <3>1. /\ id \in 1..Len(creatorEvents) /\ destroyerEventsCount[id] < MaxDestroyerEvents
          /\ Graph!TokenGeneration(id) < spec.maxGenerationsLocal
      BY <1>1, <1>2, <2>2, <2>3 DEF Usable, graphVars
    <3>2. CASE Graph!TokenGeneration(id) < limit
      <4>1. Usable(id)  BY <3>1, <3>2 DEF Usable
      <4> QED  BY <4>1, QuietQueues DEF AllTokensSeen
    <3>3. CASE Graph!TokenGeneration(id) = limit
      <4>1. id \in DOMAIN tokens  BY <1>1, <3>1, TokensDomain
      <4> QED  BY <2>1, <3>1, <3>3, <4>1 DEF UpdateStepSpec
    <3> QED  BY <1>1, <1>3, <3>1, <3>2, <3>3
  <2>4. /\ largestGeneration' \in Nat /\ largestGeneration' <= stepSpec'.maxGenerationsLocal
        /\ \A id \in 1..Len(creatorEvents') : Graph!TokenGeneration(id)' <= largestGeneration'
    BY <1>1, <1>2, <2>1, <2>2 DEF AllTokensSeen, graphVars
  <2> QED  BY <2>3, <2>4 DEF AllTokensSeen
<1>5. CASE UNCHANGED stepSpec
  <2>1. ASSUME NEW id, Usable(id)' PROVE id \in indexedTokens' \cup unindexedTokens'
    <3>1. Usable(id)  BY <1>1, <1>2, <1>5, <2>1 DEF Usable, graphVars
    <3> QED  BY <3>1, QuietQueues DEF AllTokensSeen
  <2>2. /\ largestGeneration' \in Nat /\ largestGeneration' <= stepSpec'.maxGenerationsLocal
        /\ \A id \in 1..Len(creatorEvents') : Graph!TokenGeneration(id)' <= largestGeneration'
    BY <1>1, <1>2, <1>5 DEF AllTokensSeen, graphVars
  <2> QED  BY <2>1, <2>2 DEF AllTokensSeen
<1> QED  BY <1>4, <1>5 DEF QuietStep

LEMMA EventKeepsSeen ==
    ASSUME SystemSound, AllTokensSeen, NEW match \in matches, Instantiate(match)
    PROVE  AllTokensSeen'
<1> DEFINE inputs == match.inputTokens
           generation == Graph!NewEventGeneration(inputs)
           limit == stepSpec.maxGenerationsLocal
<1>1. GraphTyped /\ limit \in Nat
  BY Constants DEF SystemSound, CallsWithinLimits
<1>2. /\ generation \in 0..limit /\ \A id \in Range(inputs) : Usable(id)
      /\ 1..Len(creatorEvents) \subseteq 1..Len(creatorEvents')
      /\ \A id \in 1..Len(creatorEvents) :
           /\ Graph!TokenGeneration(id)' = Graph!TokenGeneration(id)
           /\ id \in Range(inputs) => destroyerEventsCount'[id] = destroyerEventsCount[id] + 1
           /\ id \notin Range(inputs) => destroyerEventsCount'[id] = destroyerEventsCount[id]
      /\ \A id \in 1..Len(creatorEvents') \ 1..Len(creatorEvents) :
           /\ destroyerEventsCount'[id] = 0
           /\ Graph!TokenGeneration(id)' = generation
      /\ largestGeneration' = Graph!Larger(largestGeneration, generation)
      /\ stepSpec' = stepSpec /\ unindexedTokens = {}
      /\ DOMAIN tokens' = 1..Len(creatorEvents') /\ DOMAIN tokens = 1..Len(creatorEvents)
  BY EventEffect
<1>3. \A id \in 1..Len(creatorEvents) : /\ destroyerEventsCount[id] \in Nat
                                        /\ Graph!TokenGeneration(id) \in Nat
  BY <1>1, GraphDomains
<1> HIDE DEF inputs, generation
<1>4. \A id \in indexedTokens \ indexedTokens' : destroyerEventsCount'[id] >= MaxDestroyerEvents
  <2>1. \A id \in Range(inputs) : destroyerEventsCount'[id] \in Nat /\ destroyerEventsCount'[id] > 0
    BY <1>2, <1>3 DEF Usable
  <2> QED  BY <2>1, OnlyUsedUpForgotten DEF Instantiate, inputs
<1>5. ASSUME NEW id, Usable(id)' PROVE id \in indexedTokens' \cup unindexedTokens'
  <2>1. /\ id \in 1..Len(creatorEvents') /\ destroyerEventsCount'[id] < MaxDestroyerEvents
        /\ Graph!TokenGeneration(id)' < limit
    BY <1>2, <1>5 DEF Usable
  <2>2. CASE id \in 1..Len(creatorEvents)
    <3>1. /\ Graph!TokenGeneration(id) < limit
          /\ destroyerEventsCount'[id] \in Nat /\ destroyerEventsCount[id] <= destroyerEventsCount'[id]
      BY <1>2, <1>3, <2>1, <2>2
    <3>2. Usable(id)  BY <1>3, <2>1, <2>2, <3>1, Constants DEF Usable
    <3>3. id \in indexedTokens  BY <1>2, <3>2 DEF AllTokensSeen
    <3> QED  BY <1>4, <2>1, <3>1, <3>3, Constants
  <2>3. CASE id \notin 1..Len(creatorEvents)
    <3>1. id \in DOMAIN tokens' \ DOMAIN tokens  BY <1>2, <2>1, <2>3
    <3> QED  BY <2>1, <3>1 DEF Instantiate, AddTokens
  <2> QED  BY <2>2, <2>3
<1>6. /\ largestGeneration' \in Nat /\ largestGeneration' <= limit
      /\ largestGeneration <= largestGeneration' /\ generation <= largestGeneration'
  <2>1. largestGeneration \in Nat /\ largestGeneration <= limit  BY DEF AllTokensSeen
  <2> QED  BY <1>1, <1>2, <2>1 DEF Graph!Larger
<1>7. ASSUME NEW id \in 1..Len(creatorEvents') PROVE Graph!TokenGeneration(id)' <= largestGeneration'
  <2>1. CASE id \in 1..Len(creatorEvents)
    <3>1. Graph!TokenGeneration(id) <= largestGeneration /\ largestGeneration \in Nat
      BY <2>1 DEF AllTokensSeen
    <3>2. Graph!TokenGeneration(id)' = Graph!TokenGeneration(id)  BY <1>2, <2>1
    <3> QED  BY <1>3, <1>6, <2>1, <3>1, <3>2
  <2>2. CASE id \notin 1..Len(creatorEvents)
    BY <1>2, <1>6, <1>7, <2>2
  <2> QED  BY <2>1, <2>2
<1> QED  BY <1>2, <1>5, <1>6, <1>7 DEF AllTokensSeen

LEMMA InitSeen == Init => AllTokensSeen
<1> SUFFICES ASSUME Init PROVE AllTokensSeen  OBVIOUS
<1>1. SystemSound  BY InitSound
<1>2. largestGeneration = 0 /\ stepSpec.maxGenerationsLocal = 0
  BY DEF Init, Graph!Init, NoSteps
<1>3. \A id \in 1..Len(creatorEvents) : Graph!TokenGeneration(id) = 0
  <2>1. PICK first, count : /\ events = <<first>> /\ first.generation = 0
                            /\ creatorEvents = [i \in 1..count |-> 1]
                            /\ count \in {Len(state) : state \in InitialStates}
    BY DEF Init, Graph!Init
  <2>2. count \in Nat  BY <2>1, RuleListAssumption
  <2>3. \A id \in 1..Len(creatorEvents) : creatorEvents[id] = 1
    BY <2>1, <2>2
  <2> QED  BY <2>1, <2>3 DEF Graph!TokenGeneration
<1> QED  BY <1>2, <1>3 DEF AllTokensSeen, Usable

-----------------------------------------------------------------------------
(* All matches are found.                                                  *)

LEMMA QuietKeepsFound ==
    ASSUME MatchesFound, QuietStep
    PROVE  MatchesFound'
<1>1. UNCHANGED <<graphVars, tokens>>  BY DEF QuietStep
<1>2. ASSUME NEW match \in matches' \cup newMatches' PROVE FitsRule(match)'
  <2>1. match \in matches \cup newMatches \cup ScannedMatches  BY QuietQueues
  <2>2. FitsRule(match)  BY <2>1, ScannedMeans DEF MatchesFound
  <2> QED  BY <1>1, <2>2, FittingUnchanged
<1>3. ASSUME NEW match, FitsRule(match)', Range(match.inputTokens) # {},
             Range(match.inputTokens) \subseteq indexedTokens' \ unindexedTokens'
      PROVE  match \in matches' \cup newMatches' \/ IsEvent(match)'
  <2>1. FitsRule(match) /\ (IsEvent(match)' <=> IsEvent(match))
    BY <1>1, <1>3, FittingUnchanged
  <2>2. CASE Range(match.inputTokens) \subseteq indexedTokens \ unindexedTokens
    <3>1. match \in matches \cup newMatches \/ IsEvent(match)
      BY <1>3, <2>1, <2>2 DEF MatchesFound
    <3> QED  BY <2>1, <3>1, QuietQueues
  <2>3. CASE ~(Range(match.inputTokens) \subseteq indexedTokens \ unindexedTokens)
    <3>1. /\ ScannedMatches \subseteq matches' \cup newMatches'
          /\ indexedTokens' \subseteq indexedTokens \cup unindexedTokens
      BY <1>3, <2>3, QuietQueues
    <3>2. match \in ScannedMatches
      BY <1>3, <2>1, <2>3, <3>1, ScannedMeans
    <3> QED  BY <3>1, <3>2
  <2> QED  BY <2>2, <2>3
<1> QED  BY <1>2, <1>3 DEF MatchesFound

LEMMA EventKeepsFound ==
    ASSUME SystemSound, MatchesFound, SeparationsKnown', NEW match \in matches, Instantiate(match)
    PROVE  MatchesFound'
<1> DEFINE inputs == match.inputTokens
<1>1. GraphTyped /\ TokensGood /\ \A other \in matches : MatchGood(other)
  BY DEF SystemSound
<1>2. /\ \A id \in Range(inputs) : Usable(id)
      /\ Len(events) \in Nat /\ Len(events') = Len(events) + 1
      /\ \A e \in 1..Len(events) : events'[e] = events[e]
      /\ events'[Len(events')].rule = match.rule
      /\ events'[Len(events')].inputTokens = inputs
      /\ \A id \in 1..Len(creatorEvents) :
           /\ tokens'[id] = tokens[id]
           /\ id \in Range(inputs) => destroyerEventsCount'[id] = destroyerEventsCount[id] + 1
      /\ Tracked' =>
           \A first, second \in 1..Len(creatorEvents) :
             Graph!TokenSeparation(first, second)' = Graph!TokenSeparation(first, second)
      /\ unindexedTokens = {} /\ newMatches = {} /\ newMatches' = {}
  BY EventEffect
<1>3. DOMAIN events = 1..Len(events) /\ DOMAIN events' = 1..Len(events')
  <2>1. DOMAIN events = 1..Len(events)  BY <1>1, GraphDomains
  <2>2. events' = Append(events, events'[Len(events')])
    BY <1>1, <1>2 DEF Instantiate, Graph!AddEvent, GraphTyped
  <2> QED  BY <1>1, <1>2, <2>1, <2>2 DEF GraphTyped
<1>4. /\ indexedTokens' \subseteq indexedTokens /\ matches' \subseteq matches
      /\ \A other \in matches \ matches' :
           other = match \/ ~(Range(other.inputTokens) \subseteq indexedTokens')
  <2>1. \A id \in Range(inputs) : destroyerEventsCount'[id] \in Nat /\ destroyerEventsCount'[id] > 0
    BY <1>1, <1>2, GraphDomains DEF Usable
  <2> QED  BY <2>1, OnlyUsedUpForgotten DEF Instantiate
<1>5. ASSUME NEW other, Range(other.inputTokens) \subseteq 1..Len(creatorEvents)
      PROVE  FitsRule(other)' <=> FitsRule(other)
  <2>1. other.rule \in SpacelikeRuleIDs => Tracked'
    BY DEF SeparationsKnown, Tracked, SeparationTrackingMethod
  <2> QED  BY <1>2, <1>5, <2>1, FittingKept
<1>6. ASSUME NEW other, IsEvent(other) PROVE IsEvent(other)'
  <2>1. PICK e \in 1..Len(events) :
          events[e].rule = other.rule /\ events[e].inputTokens = other.inputTokens
    BY <1>3, <1>6 DEF IsEvent
  <2>2. e \in DOMAIN events' /\ events'[e] = events[e]  BY <1>2, <1>3
  <2> QED  BY <2>1, <2>2 DEF IsEvent
<1>7. IsEvent(match)'
  <2>1. Len(events') \in DOMAIN events'  BY <1>2, <1>3
  <2> QED  BY <1>2, <2>1 DEF IsEvent
<1>8. ASSUME NEW other \in matches' PROVE FitsRule(other)'
  <2>1. FitsRule(other) /\ MatchGood(other)  BY <1>1, <1>4 DEF MatchesFound
  <2>2. Range(other.inputTokens) \subseteq 1..Len(creatorEvents)
    BY <2>1 DEF MatchGood, Usable
  <2> QED  BY <1>5, <2>1, <2>2
<1>9. ASSUME NEW other, FitsRule(other)', Range(other.inputTokens) # {},
             Range(other.inputTokens) \subseteq indexedTokens' \ unindexedTokens'
      PROVE  other \in matches' \/ IsEvent(other)'
  <2>1. Range(other.inputTokens) \subseteq indexedTokens'  BY <1>9
  <2>2. /\ Range(other.inputTokens) \subseteq indexedTokens \ unindexedTokens
        /\ Range(other.inputTokens) \subseteq 1..Len(creatorEvents)
    BY <1>1, <1>2, <1>4, <2>1 DEF TokensGood, Usable
  <2>3. FitsRule(other)  BY <1>5, <1>9, <2>2
  <2>4. other \in matches \/ IsEvent(other)
    BY <1>2, <1>9, <2>2, <2>3 DEF MatchesFound
  <2> QED  BY <1>4, <1>6, <1>7, <2>1, <2>4
<1> QED  BY <1>2, <1>8, <1>9 DEF MatchesFound

LEMMA KnownBefore ==
    ASSUME SteadyUse, SystemSound, [Next]_vars, SeparationsKnown'
    PROVE  SeparationsKnown
<1>1. CASE QuietStep
  BY <1>1 DEF QuietStep, SeparationsKnown, graphVars
<1>2. ASSUME NEW match \in matches, Instantiate(match) PROVE SeparationsKnown
  BY <1>2, EventEffect DEF SeparationsKnown
<1> QED  BY <1>1, <1>2, StepsOfSearch

LEMMA StepKeepsFound ==
    ASSUME SteadyUse, SystemSound, SeparationsKnown => MatchesFound, [Next]_vars
    PROVE  (SeparationsKnown => MatchesFound)'
<1> SUFFICES ASSUME SeparationsKnown' PROVE MatchesFound'  OBVIOUS
<1>1. MatchesFound  BY KnownBefore
<1> QED  BY <1>1, StepsOfSearch, QuietKeepsFound, EventKeepsFound

LEMMA InitFound == Init => MatchesFound
<1> SUFFICES ASSUME Init PROVE MatchesFound  OBVIOUS
<1> QED  BY DEF Init, MatchesFound

SearchSound ==
    /\ SystemSound /\ MatchesAreNew /\ AllTokensSeen
    /\ SeparationsKnown => MatchesFound
    /\ newMatches # {} => unindexedTokens # {}

LEMMA StepKeepsWaiting ==
    ASSUME SteadyUse, SystemSound, newMatches # {} => unindexedTokens # {}, [Next]_vars
    PROVE  newMatches' # {} => unindexedTokens' # {}
<1>1. ASSUME NEW match \in matches, Instantiate(match) PROVE newMatches' = {}
  BY <1>1, EventEffect
<1>2. CASE QuietStep
  <2>1. IndexNewTokens => newMatches' = {}  BY IndexingGood
  <2>2. AbortIndexing => unindexedTokens' # {}  BY DEF AbortIndexing
  <2>3. ASSUME NEW spec, UpdateStepSpec(spec) PROVE unindexedTokens \subseteq unindexedTokens'
    BY <2>3 DEF UpdateStepSpec
  <2> QED  BY <1>2, <2>1, <2>2, <2>3 DEF QuietStep, matcherVars
<1> QED  BY <1>1, <1>2, StepsOfSearch

LEMMA SearchStaysSound ==
    ASSUME SteadyUse
    PROVE  Spec => []SearchSound
<1>1. Init => SearchSound
  BY InitSound, InitNew, InitSeen, InitFound DEF Init, SearchSound
<1>2. ASSUME SearchSound, [Next]_vars PROVE SearchSound'
  <2>1. SystemSound /\ MatchesAreNew /\ AllTokensSeen /\ (SeparationsKnown => MatchesFound)
    BY <1>2 DEF SearchSound
  <2>2. SystemSound' /\ MatchesAreNew'  BY <1>2, <2>1, StepSound, StepKeepsNew
  <2>3. AllTokensSeen'  BY <1>2, <2>1, StepsOfSearch, QuietKeepsSeen, EventKeepsSeen
  <2>4. (SeparationsKnown => MatchesFound)'  BY <1>2, <2>1, StepKeepsFound
  <2>5. newMatches' # {} => unindexedTokens' # {}  BY <1>2, StepKeepsWaiting DEF SearchSound
  <2> QED  BY <2>2, <2>3, <2>4, <2>5 DEF SearchSound
<1> QED  BY <1>1, <1>2, PTL DEF Spec

-----------------------------------------------------------------------------
(* What the queue holds.                                                   *)

\* The generation of a match is the latest of its tokens.
LEMMA GenerationOfMatch ==
    ASSUME GraphTyped, AllTokensSeen, NEW match, Range(match.inputTokens) # {},
           Range(match.inputTokens) \subseteq 1..Len(creatorEvents)
    PROVE  /\ MatchGeneration(match) \in 0..largestGeneration
           /\ \A id \in Range(match.inputTokens) :
                Graph!TokenGeneration(id) <= MatchGeneration(match)
           /\ \E id \in Range(match.inputTokens) :
                Graph!TokenGeneration(id) = MatchGeneration(match)
<1> DEFINE generations == {Graph!TokenGeneration(id) : id \in Range(match.inputTokens)}
<1>1. /\ generations \subseteq Nat /\ generations # {} /\ largestGeneration \in Nat
      /\ \A g \in generations : g <= largestGeneration
  BY GraphDomains DEF AllTokensSeen
<1>2. MatchGeneration(match) = Max(generations)
  BY DEF MatchGeneration
<1>3. \A id \in Range(match.inputTokens) : Graph!TokenGeneration(id) \in generations
  OBVIOUS
<1>4. \A g \in generations : \E id \in Range(match.inputTokens) : Graph!TokenGeneration(id) = g
  OBVIOUS
<1> HIDE DEF generations
<1>5. PICK g \in generations : \A h \in generations : h <= g
  BY <1>1, LargestElement
<1>6. Max(generations) \in generations /\ \A h \in generations : Max(generations) >= h
  BY <1>1, <1>5 DEF Max
<1>7. MatchGeneration(match) \in 0..largestGeneration
  <2>1. Max(generations) \in Nat /\ Max(generations) <= largestGeneration  BY <1>1, <1>6
  <2> QED  BY <1>1, <1>2, <2>1
<1>8. \A id \in Range(match.inputTokens) : Graph!TokenGeneration(id) <= MatchGeneration(match)
  BY <1>1, <1>2, <1>3, <1>6
<1>9. \E id \in Range(match.inputTokens) : Graph!TokenGeneration(id) = MatchGeneration(match)
  BY <1>2, <1>4, <1>6
<1> QED  BY <1>7, <1>8, <1>9

\* A possible match is in the queue unless one of its tokens is in a generation at
\* the limit, and then the match would pass it.
LEMMA QueueHoldsPossible ==
    ASSUME SteadyUse, RulesHaveInputs, SearchSound, SeparationsKnown, unindexedTokens = {},
           NEW match
    PROVE  /\ match \in matches => match \in PossibleMatches
           /\ match \in PossibleMatches =>
                /\ MatchGeneration(match) \in 0..largestGeneration
                /\ match \in matches
                     <=> MatchGeneration(match) < stepSpec.maxGenerationsLocal
<1> DEFINE inputs == match.inputTokens
           limit == stepSpec.maxGenerationsLocal
<1>1. /\ GraphTyped /\ TokensGood /\ AllTokensSeen /\ MatchesAreNew /\ MatchesFound
      /\ limit \in Nat /\ newMatches = {} /\ \A other \in matches : MatchGood(other)
  BY Constants DEF SearchSound, SystemSound, CallsWithinLimits
<1>2. LiveTokens = {id \in 1..Len(creatorEvents) : destroyerEventsCount[id] < MaxDestroyerEvents}
  BY <1>1, TokensDomain DEF LiveTokens
<1>3. ASSUME match \in matches PROVE match \in PossibleMatches
  <2>1. FitsRule(match) /\ ~IsEvent(match)  BY <1>1, <1>3 DEF MatchesFound, MatchesAreNew
  <2>2. Range(inputs) \subseteq LiveTokens  BY <1>1, <1>2, <1>3 DEF MatchGood, Usable
  <2> QED  BY <2>1, <2>2, PossibleMeans
<1>4. ASSUME match \in PossibleMatches
      PROVE  /\ MatchGeneration(match) \in 0..largestGeneration
             /\ match \in matches <=> MatchGeneration(match) < limit
  <2>1. FitsRule(match) /\ ~IsEvent(match) /\ Range(inputs) \subseteq LiveTokens
    BY <1>4, PossibleMeans
  <2>2. Range(inputs) # {}
    <3>1. /\ RuleList[match.rule].inputs \in Seq(Seq(Int)) /\ RuleList[match.rule].inputs # <<>>
      BY <2>1, Constants DEF FitsRule, RulesHaveInputs
    <3>2. 1 \in DOMAIN RuleList[match.rule].inputs  BY <3>1
    <3>3. 1 \in DOMAIN inputs  BY <2>1, <3>2 DEF FitsRule
    <3> QED  BY <3>3 DEF Range
  <2>3. Range(inputs) \subseteq 1..Len(creatorEvents)  BY <1>2, <2>1
  <2> HIDE DEF inputs
  <2>4. /\ MatchGeneration(match) \in 0..largestGeneration
        /\ \A id \in Range(inputs) : Graph!TokenGeneration(id) <= MatchGeneration(match)
        /\ \E id \in Range(inputs) : Graph!TokenGeneration(id) = MatchGeneration(match)
    BY <1>1, <2>2, <2>3, GenerationOfMatch DEF inputs
  <2>5. \A id \in Range(inputs) : Graph!TokenGeneration(id) \in Nat
    BY <1>1, <2>3, GraphDomains
  <2>6. MatchGeneration(match) \in Nat
    BY <2>4, <2>5
  <2>7. ASSUME match \in matches PROVE MatchGeneration(match) < limit
    <3>1. \A id \in Range(inputs) : Graph!TokenGeneration(id) < limit
      BY <1>1, <2>7 DEF MatchGood, Usable, inputs
    <3> QED  BY <2>4, <3>1
  <2>8. ASSUME MatchGeneration(match) < limit PROVE match \in matches
    <3>1. \A id \in Range(inputs) : Graph!TokenGeneration(id) < limit
      BY <1>1, <2>4, <2>5, <2>6, <2>8
    <3>2. \A id \in Range(inputs) : Usable(id)
      BY <1>2, <2>1, <3>1 DEF Usable, inputs
    <3>3. Range(inputs) \subseteq indexedTokens \ unindexedTokens
      BY <3>2 DEF SearchSound, AllTokensSeen
    <3> QED  BY <1>1, <2>1, <2>2, <3>3 DEF MatchesFound, inputs
  <2> QED  BY <2>4, <2>7, <2>8
<1> QED  BY <1>3, <1>4

\* Whatever calls, aborts and higher limits came before, when the next match is about
\* to be taken the queue holds every possible match below the last generation and no
\* other, as long as separations are known.
THEOREM QueueAlwaysExact ==
    ASSUME SteadyUse, RulesHaveInputs
    PROVE  Spec => [](SeparationsKnown => QueueIsExact)
<1>1. ASSUME SearchSound, SeparationsKnown, stage = "indexed"
      PROVE  matches = {match \in PossibleMatches :
                          MatchGeneration(match) < stepSpec.maxGenerationsLocal}
  <2>1. unindexedTokens = {}  BY <1>1 DEF SearchSound, SystemSound, CallsWithinLimits
  <2> QED  BY <1>1, <2>1, QueueHoldsPossible
<1>2. SearchSound => (SeparationsKnown => QueueIsExact)
  BY <1>1 DEF QueueIsExact
<1> QED  BY <1>2, SearchStaysSound, PTL

LEMMA CompleteGenerationRight ==
    ASSUME SteadyUse, RulesHaveInputs, SearchSound, SeparationsKnown, unindexedTokens = {}
    PROVE  /\ CompleteGeneration = LargestCompleteGeneration
           /\ CompleteGeneration \in 0..largestGeneration
<1> DEFINE inQueue == {largestGeneration} \cup {MatchGeneration(match) : match \in matches}
           complete == {g \in 0..largestGeneration :
                          \A match \in PossibleMatches : MatchGeneration(match) + 1 > g}
           answer == Min(inQueue)
           limit == stepSpec.maxGenerationsLocal
<1>1. /\ largestGeneration \in Nat /\ limit \in Nat /\ largestGeneration <= limit
  BY Constants DEF SearchSound, AllTokensSeen, SystemSound, CallsWithinLimits
<1>2. \A match \in matches : MatchGeneration(match) \in 0..largestGeneration
  BY QueueHoldsPossible
<1>3. inQueue \in SUBSET Nat /\ inQueue # {}
  BY <1>1, <1>2
<1>4. PICK least \in inQueue : \A n \in inQueue : least <= n
  <2> HIDE DEF inQueue
  <2> QED  BY <1>3, LeastOf
<1>5. answer \in inQueue /\ \A n \in inQueue : answer <= n
  <2> HIDE DEF inQueue
  <2> QED  BY <1>4 DEF Min
<1>6. /\ answer \in 0..largestGeneration
      /\ \A match \in matches : answer <= MatchGeneration(match)
      /\ answer = largestGeneration \/ \E match \in matches : answer = MatchGeneration(match)
  <2>1. answer \in Nat /\ answer <= largestGeneration  BY <1>3, <1>5
  <2>2. \A match \in matches : answer <= MatchGeneration(match)  BY <1>5
  <2>3. answer = largestGeneration \/ \E match \in matches : answer = MatchGeneration(match)
    BY <1>5
  <2> HIDE DEF answer
  <2> QED  BY <1>1, <2>1, <2>2, <2>3
<1> HIDE DEF answer, inQueue
<1>7. answer \in complete
  <2>1. ASSUME NEW match \in PossibleMatches PROVE MatchGeneration(match) + 1 > answer
    <3>1. /\ MatchGeneration(match) \in 0..largestGeneration
          /\ match \in matches <=> MatchGeneration(match) < limit
      BY QueueHoldsPossible
    <3>2. CASE match \in matches
      BY <1>1, <1>6, <3>1, <3>2
    <3>3. CASE match \notin matches
      BY <1>1, <1>6, <3>1, <3>3
    <3> QED  BY <3>2, <3>3
  <2> QED  BY <1>6, <2>1
<1>8. ASSUME NEW g \in complete PROVE answer >= g
  <2>1. g \in 0..largestGeneration  OBVIOUS
  <2>2. CASE answer = largestGeneration
    BY <1>1, <2>1, <2>2
  <2>3. ASSUME NEW match \in matches, answer = MatchGeneration(match) PROVE answer >= g
    <3>1. match \in PossibleMatches  BY QueueHoldsPossible
    <3>2. MatchGeneration(match) + 1 > g  BY <3>1
    <3> QED  BY <1>1, <1>6, <2>1, <2>3, <3>2
  <2> QED  BY <1>6, <2>2, <2>3
<1>9. complete \subseteq Nat  BY <1>1
<1> HIDE DEF complete
<1>10. Max(complete) = answer
  <2>1. Max(complete) \in complete /\ \A g \in complete : Max(complete) >= g
    BY <1>7, <1>8 DEF Max
  <2>2. Max(complete) \in Nat /\ answer \in Nat /\ Max(complete) >= answer /\ answer >= Max(complete)
    BY <1>7, <1>8, <1>9, <2>1
  <2> QED  BY <2>2
<1>11. CompleteGeneration = answer
  BY DEF CompleteGeneration, answer, inQueue
<1>12. LargestCompleteGeneration = Max(complete)
  BY DEF LargestCompleteGeneration, complete
<1> QED  BY <1>6, <1>10, <1>11, <1>12

\* What maxCompleteGeneration answers is the largest generation that is reached and
\* that no match could still add an event to, though it only looks at the queue.
THEOREM MaxCompleteGenerationAlwaysRight ==
    ASSUME SteadyUse, RulesHaveInputs
    PROVE  Spec => [](SeparationsKnown => MaxCompleteGenerationRight)
<1>1. SearchSound => (SeparationsKnown => MaxCompleteGenerationRight)
  BY CompleteGenerationRight DEF MaxCompleteGenerationRight
<1> QED  BY <1>1, SearchStaysSound, PTL

-----------------------------------------------------------------------------
(* Fixed points.                                                           *)

NothingPossible ==
    ~\E match : /\ FitsRule(match) /\ ~IsEvent(match)
                /\ Range(match.inputTokens) \subseteq LiveTokens

\* The reason is cleared by the scan that comes before every event.
CompleteSound ==
    /\ stage = "indexed" => terminationReason = "NotTerminated"
    /\ (SeparationsKnown /\ terminationReason = "Complete") => NothingPossible

LEMMA StopIsFixedPoint ==
    ASSUME SteadyUse, RulesHaveInputs, SearchSound, SeparationsKnown, StopWithoutMatches,
           terminationReason' = "Complete"
    PROVE  NothingPossible
<1>1. /\ largestGeneration \in Nat /\ stepSpec.maxGenerationsLocal \in Nat
      /\ largestGeneration <= stepSpec.maxGenerationsLocal
      /\ unindexedTokens = {}
  BY Constants DEF SearchSound, AllTokensSeen, SystemSound, CallsWithinLimits, StopWithoutMatches
<1>2. matches = {} /\ largestGeneration < stepSpec.maxGenerationsLocal
  BY <1>1 DEF StopWithoutMatches, Return
<1>3. ASSUME NEW match \in PossibleMatches PROVE FALSE
  <2>1. /\ MatchGeneration(match) \in 0..largestGeneration
        /\ match \in matches <=> MatchGeneration(match) < stepSpec.maxGenerationsLocal
    BY <1>1, QueueHoldsPossible
  <2> QED  BY <1>1, <1>2, <2>1
<1> QED  BY <1>3, PossibleMeans DEF NothingPossible

LEMMA NothingPossibleKept ==
    ASSUME UNCHANGED <<graphVars, tokens>>, NothingPossible
    PROVE  NothingPossible'
<1>1. ASSUME NEW match
      PROVE  (FitsRule(match)' <=> FitsRule(match)) /\ (IsEvent(match)' <=> IsEvent(match))
  BY FittingUnchanged
<1>2. LiveTokens' = LiveTokens  BY DEF LiveTokens, graphVars
<1> QED  BY <1>1, <1>2 DEF NothingPossible

LEMMA StepKeepsComplete ==
    ASSUME SteadyUse, RulesHaveInputs, SearchSound, CompleteSound, [Next]_vars
    PROVE  CompleteSound'
<1>1. CallsWithinLimits  BY DEF SearchSound, SystemSound
<1>2. ASSUME NEW match \in matches, Instantiate(match) PROVE CompleteSound'
  <2>1. terminationReason' = "NotTerminated" /\ stage' = "begin"
    BY <1>2 DEF Instantiate, CompleteSound
  <2> QED  BY <2>1 DEF CompleteSound
<1>3. CASE QuietStep
  <2>1. UNCHANGED <<graphVars, tokens>>  BY <1>3 DEF QuietStep
  <2>2. ASSUME SeparationsKnown' PROVE SeparationsKnown
    BY <2>1, <2>2 DEF SeparationsKnown, graphVars
  <2>3. stage' = "indexed" => terminationReason' = "NotTerminated"
    <3>1. stage' = "begin" \/ terminationReason' = "NotTerminated"
             \/ (stage' = stage /\ terminationReason' = terminationReason)
      BY DEF Next, Replace, ReplaceOnce, StopAtMaxEvents, Index, Abort, StopWithoutMatches,
             StopAtFinalStateLimit, RunOutOfAtoms, Instantiate, MaxCompleteGeneration, Return, vars
    <3> QED  BY <3>1 DEF CompleteSound
  <2>4. ASSUME SeparationsKnown', terminationReason' = "Complete" PROVE NothingPossible
    <3>1. terminationReason' = terminationReason \/ StopWithoutMatches
      <4>1. ASSUME NEW match, StopAtFinalStateLimit(match) PROVE FALSE
        BY <2>4, <4>1 DEF StopAtFinalStateLimit, Return, FinalStateLimit
      <4> QED
        BY <2>4, <4>1
        DEF Next, Replace, ReplaceOnce, StopAtMaxEvents, Index, Abort,
            RunOutOfAtoms, Instantiate, MaxCompleteGeneration, Return, vars
    <3>2. CASE StopWithoutMatches
      BY <2>2, <2>4, <3>2, StopIsFixedPoint
    <3>3. CASE terminationReason' = terminationReason
      BY <2>2, <2>4, <3>3 DEF CompleteSound
    <3> QED  BY <3>1, <3>2, <3>3
  <2>5. (SeparationsKnown' /\ terminationReason' = "Complete") => NothingPossible'
    BY <2>1, <2>4, NothingPossibleKept
  <2> QED  BY <2>3, <2>5 DEF CompleteSound
<1> QED  BY <1>2, <1>3, StepsOfSearch DEF SearchSound

LEMMA CompleteStaysSound ==
    ASSUME SteadyUse, RulesHaveInputs
    PROVE  Spec => []CompleteSound
<1>1. Init => CompleteSound  BY DEF Init, CompleteSound
<1>2. SearchSound /\ CompleteSound /\ [Next]_vars => CompleteSound'  BY StepKeepsComplete
<1> QED  BY <1>1, <1>2, SearchStaysSound, PTL DEF Spec

\* A system that reports a fixed point is at one: no match among its live tokens is
\* left that has not been instantiated.
THEOREM CompleteIsFixedPoint ==
    ASSUME SteadyUse, RulesHaveInputs
    PROVE  Spec => [](SeparationsKnown => CompleteMeansFixedPoint)
<1>1. ASSUME CompleteSound, SeparationsKnown, terminationReason = "Complete"
      PROVE  PossibleMatches = {}
  BY <1>1, PossibleMeans DEF CompleteSound, NothingPossible
<1>2. CompleteSound => (SeparationsKnown => CompleteMeansFixedPoint)
  BY <1>1 DEF CompleteMeansFixedPoint
<1> QED  BY <1>2, CompleteStaysSound, PTL

-----------------------------------------------------------------------------
(* Atoms, counters and limits of the final state.                          *)
(*                                                                         *)
(* The atoms of the system and the counters behind the limits of its final *)
(* state, for every list of rules, every initial state and all limits, as  *)
(* long as the system is used steadily: new atoms are new, the counters,   *)
(* which are only updated by differences, are those of the tokens that are *)
(* left, and an event never passes a limit, although the limits are looked *)
(* at before the new atoms have names.                                     *)

-----------------------------------------------------------------------------
(* The names of new atoms.                                                 *)

\* A function on an initial segment of the numbers is a sequence.
LEMMA FunctionInSeq ==
    ASSUME NEW S, NEW n \in Nat, NEW f \in [1..n -> S]
    PROVE  f \in Seq(S) /\ Len(f) = n
OBVIOUS

\* Names are the atoms after the last, as many as there are patterns, and differ.
LEMMA NamesAreNext ==
    ASSUME NEW lists \in Seq(Seq(Int)), nextAtom \in Nat, NEW a \in NewPatterns(lists)
    PROVE  /\ NameOf(lists, a) \in (nextAtom + 1)..(nextAtom + Cardinality(NewPatterns(lists)))
           /\ \A b \in NewPatterns(lists) : NameOf(lists, a) = NameOf(lists, b) => a = b
<1> DEFINE count == Cardinality(NewPatterns(lists))
<1>1. \A pattern \in NewPatterns(lists) :
        NameOf(lists, pattern) = nextAtom + RankOfPattern(lists, pattern)
  BY DEF NameOf, RankOfPattern
<1>2. \A pattern \in NewPatterns(lists) : RankOfPattern(lists, pattern) \in 1..count
  BY RanksOfPatterns
<1>3. \A b \in NewPatterns(lists) : RankOfPattern(lists, a) = RankOfPattern(lists, b) => a = b
  BY RanksOfPatterns
<1>4. count \in Nat
  BY PatternsAreFinite
<1> HIDE DEF count
<1>5. NameOf(lists, a) \in (nextAtom + 1)..(nextAtom + count)
  BY <1>1, <1>2, <1>4
<1>6. ASSUME NEW b \in NewPatterns(lists), NameOf(lists, a) = NameOf(lists, b) PROVE a = b
  <2>1. RankOfPattern(lists, a) \in Int /\ RankOfPattern(lists, b) \in Int
    BY <1>2
  <2>2. RankOfPattern(lists, a) = RankOfPattern(lists, b)
    BY <1>1, <1>6, <2>1
  <2> QED  BY <1>3, <2>2
<1> QED  BY <1>5, <1>6 DEF count

-----------------------------------------------------------------------------
(* The invariant of the atoms.                                             *)

\* Atoms that rules name are atoms already when a system is created; the run
\* explicit_atoms shows what happens otherwise.
RulesNameKnownAtoms ==
    \A state \in InitialStates : \A atom \in RuleAtoms : atom < 0 \/ atom \in 1..FirstAtom(state)

\* Every atom that tokens have or rules name is counted by nextAtom_, and tokens
\* are still what their matches were found for.
AtomsSound ==
    /\ nextAtom \in 1..LargestAtom
    /\ \A id \in DOMAIN tokens : tokens[id] \in Seq(1..nextAtom)
    /\ \A atom \in RuleAtoms : atom < 0 \/ atom \in 1..nextAtom
    /\ \A match \in matches \cup newMatches :
         IsRecord(match) /\ Fits(RuleList[match.rule].inputs, InputAtoms(match))

LEMMA AtomTypes ==
    ASSUME AtomsSound
    PROVE  nextAtom \in Nat /\ nextAtom > 0 /\ LargestAtom \in Nat /\ nextAtom <= LargestAtom
BY LimitsAssumption DEF AtomsSound

LEMMA InputAtomsMean ==
    ASSUME SystemSound, AtomsSound, NEW match \in matches
    PROVE  LET inputs == InputAtoms(match)
               patterns == RuleList[match.rule].inputs
           IN  /\ inputs \in Seq(Seq(1..nextAtom)) /\ inputs \in Seq(Seq(Int))
               /\ patterns \in Seq(Seq(Int)) /\ DOMAIN inputs = DOMAIN patterns
               /\ Len(inputs) = Len(match.inputTokens)
               /\ DOMAIN inputs = DOMAIN match.inputTokens
               /\ \A i \in DOMAIN inputs : /\ inputs[i] = tokens[match.inputTokens[i]]
                                           /\ DOMAIN inputs[i] = DOMAIN patterns[i]
               /\ \A atom \in AtomsOf(inputs) : atom \in 1..nextAtom
<1> DEFINE inputs == InputAtoms(match)
           patterns == RuleList[match.rule].inputs
           ids == match.inputTokens
           size == Len(ids)
<1>1. /\ match.rule \in RuleIDs /\ ids \in Seq(1..Len(creatorEvents))
      /\ DOMAIN ids = 1..size /\ size = Len(patterns)
  BY InputsOfMatch DEF SystemSound
<1>2. patterns \in Seq(Seq(Int)) /\ Len(patterns) \in Nat /\ DOMAIN patterns = 1..Len(patterns)
  <2>1. patterns \in Seq(Seq(Int))  BY <1>1, Constants
  <2> HIDE DEF patterns
  <2> QED  BY <2>1
<1>3. DOMAIN tokens = 1..Len(creatorEvents)
  BY TokensDomain DEF SystemSound
<1>4. \A i \in 1..size : ids[i] \in DOMAIN tokens
  <2> HIDE DEF size
  <2>1. \A i \in DOMAIN ids : ids[i] \in 1..Len(creatorEvents)
    BY <1>1
  <2> QED  BY <1>1, <1>3, <2>1
<1>5. DOMAIN inputs = 1..size /\ \A i \in 1..size : inputs[i] = tokens[ids[i]]
  BY <1>1 DEF InputAtoms
<1>6. \A i \in 1..size : inputs[i] \in Seq(1..nextAtom)
  BY <1>4, <1>5 DEF AtomsSound
<1>7. inputs = [i \in 1..size |-> inputs[i]]
  BY <1>1 DEF InputAtoms
<1>8. Fits(patterns, inputs)
  BY DEF AtomsSound
<1> HIDE DEF inputs, patterns, size, ids
<1>9. inputs \in [1..size -> Seq(1..nextAtom)] /\ size \in Nat
  BY <1>1, <1>2, <1>6, <1>7
<1>10. inputs \in Seq(Seq(1..nextAtom)) /\ Len(inputs) = size
  <2> DEFINE S == Seq(1..nextAtom)
  <2>1. inputs \in [1..size -> S] /\ size \in Nat  BY <1>9
  <2> HIDE DEF S
  <2>2. inputs \in Seq(S) /\ Len(inputs) = size  BY <2>1
  <2> QED  BY <2>2 DEF S
<1>11. inputs \in Seq(Seq(Int))
  <2> DEFINE S == Seq(Int)
  <2>1. \A s \in Seq(1..nextAtom) : s \in Seq(Int)
    BY AtomTypes
  <2>2. inputs \in [1..size -> S] /\ size \in Nat  BY <1>6, <1>9, <2>1
  <2> HIDE DEF S
  <2>3. inputs \in Seq(S)  BY <2>2
  <2> QED  BY <2>3 DEF S
<1>12. \A i \in 1..size : DOMAIN inputs[i] = DOMAIN patterns[i]
  <2> SUFFICES ASSUME NEW i \in 1..size PROVE DOMAIN inputs[i] = DOMAIN patterns[i]
    OBVIOUS
  <2>1. Len(patterns[i]) = Len(inputs[i])
    BY <1>1, <1>2, <1>8 DEF Fits
  <2>2. patterns[i] \in Seq(Int) /\ inputs[i] \in Seq(Int)
    BY <1>1, <1>2, <1>5, <1>11
  <2>3. DOMAIN patterns[i] = 1..Len(patterns[i])  BY <2>2
  <2>4. DOMAIN inputs[i] = 1..Len(inputs[i])  BY <2>2
  <2> QED  BY <2>1, <2>3, <2>4
<1>13. ASSUME NEW atom \in AtomsOf(inputs) PROVE atom \in 1..nextAtom
  <2>1. PICK i \in 1..size : \E p \in DOMAIN inputs[i] : atom = inputs[i][p]
    BY <1>5 DEF AtomsOf, Range
  <2>2. inputs[i] \in Seq(1..nextAtom)  BY <1>6
  <2>3. PICK p \in DOMAIN inputs[i] : atom = inputs[i][p]  BY <2>1
  <2>4. inputs[i][p] \in 1..nextAtom
    <3> DEFINE S == 1..nextAtom
    <3>1. inputs[i] \in Seq(S)  BY <2>2
    <3> HIDE DEF S
    <3>2. inputs[i][p] \in S  BY <3>1
    <3> QED  BY <3>2 DEF S
  <2> QED  BY <2>3, <2>4
<1>14. Len(inputs) = Len(ids)
  BY <1>10 DEF size
<1> QED  BY <1>1, <1>2, <1>5, <1>10, <1>11, <1>12, <1>13, <1>14 DEF inputs, patterns, ids

\* The outputs of a match have atoms that exist and patterns.
LEMMA ExplicitOutputsMean ==
    ASSUME SystemSound, AtomsSound, NEW match \in matches
    PROVE  LET explicit == ExplicitOutputs(match)
           IN  /\ explicit \in Seq(Seq(Int))
               /\ Len(explicit) = Len(RuleList[match.rule].outputs)
               /\ \A atom \in AtomsOf(explicit) : atom < 0 \/ atom \in 1..nextAtom
<1> DEFINE explicit == ExplicitOutputs(match)
           outputs == RuleList[match.rule].outputs
           patterns == RuleList[match.rule].inputs
           inputs == InputAtoms(match)
           Known(atom) == {place \in Places(patterns) : AtomAt(patterns, place) = atom}
           Value(atom) ==
             IF atom >= 0 \/ Known(atom) = {} THEN atom
             ELSE AtomAt(inputs, CHOOSE place \in Known(atom) : TRUE)
<1>1. match.rule \in RuleIDs
  BY InputsOfMatch DEF SystemSound
<1>2. outputs \in Seq(Seq(Int))
  BY <1>1, Constants
<1>3. /\ patterns \in Seq(Seq(Int)) /\ DOMAIN inputs = DOMAIN patterns
      /\ \A i \in DOMAIN inputs : DOMAIN inputs[i] = DOMAIN patterns[i]
      /\ \A atom \in AtomsOf(inputs) : atom \in 1..nextAtom
  BY InputAtomsMean
<1>4. explicit = [i \in DOMAIN outputs |-> [p \in DOMAIN outputs[i] |-> Value(outputs[i][p])]]
  BY DEF ExplicitOutputs, Substituted
<1> HIDE DEF explicit, outputs, patterns, inputs
<1>5. ASSUME NEW i \in DOMAIN outputs, NEW p \in DOMAIN outputs[i]
      PROVE  /\ Value(outputs[i][p]) \in Int
             /\ Value(outputs[i][p]) < 0 \/ Value(outputs[i][p]) \in 1..nextAtom
  <2> DEFINE atom == outputs[i][p]
  <2>1. atom \in Int /\ atom \in RuleAtoms
    <3>1. atom \in Int  BY <1>2
    <3>2. atom \in AtomsOf(outputs)  BY DEF AtomsOf, Range
    <3> QED  BY <1>1, <3>1, <3>2 DEF RuleAtoms, outputs
  <2>2. CASE atom >= 0 \/ Known(atom) = {}
    BY <2>1, <2>2 DEF AtomsSound
  <2>3. CASE ~(atom >= 0 \/ Known(atom) = {})
    <3> DEFINE place == CHOOSE any \in Known(atom) : TRUE
    <3>1. place \in Places(patterns)
      BY <2>3
    <3> HIDE DEF place
    <3>2. place[1] \in DOMAIN inputs /\ place[2] \in DOMAIN inputs[place[1]]
      BY <1>3, <3>1, PlacesMean
    <3>3. AtomAt(inputs, place) \in AtomsOf(inputs)
      BY <3>2 DEF AtomAt, AtomsOf, Range
    <3>4. AtomAt(inputs, place) \in 1..nextAtom
      BY <1>3, <3>3
    <3>5. Value(atom) = AtomAt(inputs, place)
      BY <2>3 DEF place
    <3> QED  BY <3>4, <3>5, AtomTypes
  <2> QED  BY <2>2, <2>3
<1> HIDE DEF Value
<1>6. /\ DOMAIN outputs = 1..Len(outputs) /\ Len(outputs) \in Nat
      /\ \A i \in DOMAIN outputs : DOMAIN outputs[i] = 1..Len(outputs[i]) /\ Len(outputs[i]) \in Nat
  BY <1>2
<1>7. \A i \in DOMAIN outputs :
        explicit[i] = [p \in DOMAIN outputs[i] |-> Value(outputs[i][p])]
  BY <1>4
<1>8. \A i \in DOMAIN outputs : explicit[i] \in Seq(Int)
  <2> SUFFICES ASSUME NEW i \in DOMAIN outputs PROVE explicit[i] \in Seq(Int)
    OBVIOUS
  <2>1. explicit[i] = [p \in 1..Len(outputs[i]) |-> Value(outputs[i][p])]
    BY <1>6, <1>7
  <2>2. \A p \in 1..Len(outputs[i]) : Value(outputs[i][p]) \in Int
    BY <1>5, <1>6
  <2>3. explicit[i] \in [1..Len(outputs[i]) -> Int]
    BY <2>1, <2>2
  <2> QED  BY <1>6, <2>3
<1>9. explicit \in Seq(Seq(Int)) /\ Len(explicit) = Len(outputs)
  <2> DEFINE S == Seq(Int)
  <2>1. explicit \in [1..Len(outputs) -> S] /\ Len(outputs) \in Nat
    BY <1>4, <1>6, <1>8
  <2> HIDE DEF S
  <2>2. explicit \in Seq(S) /\ Len(explicit) = Len(outputs)  BY <2>1
  <2> QED  BY <2>2 DEF S
<1>10. ASSUME NEW atom \in AtomsOf(explicit) PROVE atom < 0 \/ atom \in 1..nextAtom
  <2>1. PICK i \in DOMAIN explicit : \E p \in DOMAIN explicit[i] : atom = explicit[i][p]
    BY DEF AtomsOf, Range
  <2>2. i \in DOMAIN outputs
    BY <1>4
  <2>3. PICK p \in DOMAIN outputs[i] : atom = Value(outputs[i][p])
    BY <1>7, <2>1, <2>2
  <2> QED  BY <1>5, <2>2, <2>3
<1> QED  BY <1>9, <1>10 DEF explicit, outputs

\* What a pattern or an atom of the outputs is called in the end.
FinalName(explicit, atom) == IF atom < 0 THEN NameOf(explicit, atom) ELSE atom

\* Naming keeps the places, and keeps different atoms apart.
LEMMA NamedOutputsMean ==
    ASSUME nextAtom \in Nat, NEW explicit \in Seq(Seq(Int)),
           \A atom \in AtomsOf(explicit) : atom < 0 \/ atom \in 1..nextAtom,
           NEW last, last = nextAtom + Cardinality(NewPatterns(explicit))
    PROVE  LET named == NamedOutputs(explicit)
               all == NewPatterns(explicit) \cup 1..nextAtom
           IN  /\ named \in Seq(Seq(1..last)) /\ Len(named) = Len(explicit)
               /\ last \in Nat /\ last >= nextAtom
               /\ DOMAIN named = DOMAIN explicit
               /\ \A i \in DOMAIN explicit : /\ DOMAIN named[i] = DOMAIN explicit[i]
                                             /\ \A p \in DOMAIN explicit[i] :
                                                  named[i][p] = FinalName(explicit, explicit[i][p])
               /\ AtomsOf(explicit) \subseteq all
               /\ \A a, b \in all : FinalName(explicit, a) = FinalName(explicit, b) => a = b
               /\ \A a \in NewPatterns(explicit) : FinalName(explicit, a) \in (nextAtom + 1)..last
               /\ \A a \in 1..nextAtom : FinalName(explicit, a) = a
<1> DEFINE named == NamedOutputs(explicit)
           new == NewPatterns(explicit)
           all == new \cup 1..nextAtom
<1>1. Cardinality(new) \in Nat /\ last \in Nat /\ last >= nextAtom
  BY PatternsAreFinite
<1>2. \A a \in new : a < 0 /\ a \in Int
  BY PatternsAreFinite DEF NewPatterns
<1>3. \A a \in 1..nextAtom : FinalName(explicit, a) = a /\ a > 0
  BY DEF FinalName
<1>4. \A a \in new : /\ FinalName(explicit, a) \in (nextAtom + 1)..last
                     /\ \A b \in new : FinalName(explicit, a) = FinalName(explicit, b) => a = b
  BY <1>2, NamesAreNext DEF FinalName
<1>5. ASSUME NEW a \in all, NEW b \in all, FinalName(explicit, a) = FinalName(explicit, b)
      PROVE  a = b
  <2>1. CASE a \in new /\ b \in new
    BY <1>4, <1>5, <2>1
  <2>2. CASE a \in 1..nextAtom /\ b \in 1..nextAtom
    BY <1>3, <1>5, <2>2
  <2>3. \A x \in new, y \in 1..nextAtom : FinalName(explicit, x) # FinalName(explicit, y)
    <3> SUFFICES ASSUME NEW x \in new, NEW y \in 1..nextAtom
                 PROVE  FinalName(explicit, x) # FinalName(explicit, y)
      OBVIOUS
    <3>1. FinalName(explicit, x) \in (nextAtom + 1)..last /\ FinalName(explicit, y) = y
      BY <1>3, <1>4
    <3> QED  BY <1>1, <3>1
  <2> QED  BY <1>5, <2>1, <2>2, <2>3
<1>6. AtomsOf(explicit) \subseteq all
  BY DEF NewPatterns
<1>7. /\ DOMAIN explicit = 1..Len(explicit) /\ Len(explicit) \in Nat
      /\ \A i \in DOMAIN explicit : /\ explicit[i] \in Seq(Int) /\ Len(explicit[i]) \in Nat
                                    /\ DOMAIN explicit[i] = 1..Len(explicit[i])
  OBVIOUS
<1>8. named = [i \in DOMAIN explicit |->
                 [p \in DOMAIN explicit[i] |-> FinalName(explicit, explicit[i][p])]]
  BY DEF NamedOutputs, FinalName
<1>9. \A i \in DOMAIN explicit :
        named[i] = [p \in DOMAIN explicit[i] |-> FinalName(explicit, explicit[i][p])]
  BY <1>8
<1>10. ASSUME NEW i \in DOMAIN explicit, NEW p \in DOMAIN explicit[i]
       PROVE  FinalName(explicit, explicit[i][p]) \in 1..last
  <2>1. explicit[i][p] \in AtomsOf(explicit)
    BY DEF AtomsOf, Range
  <2>2. explicit[i][p] \in new \/ explicit[i][p] \in 1..nextAtom
    BY <1>6, <2>1
  <2>3. CASE explicit[i][p] \in new
    <3>1. FinalName(explicit, explicit[i][p]) \in (nextAtom + 1)..last
      BY <1>4, <2>3
    <3> QED  BY <1>1, <3>1
  <2>4. CASE explicit[i][p] \in 1..nextAtom
    <3>1. FinalName(explicit, explicit[i][p]) = explicit[i][p]
      BY <1>3, <2>4
    <3> QED  BY <1>1, <2>4, <3>1
  <2> QED  BY <2>2, <2>3, <2>4
<1>11. \A i \in DOMAIN explicit : named[i] \in Seq(1..last)
  <2> SUFFICES ASSUME NEW i \in DOMAIN explicit PROVE named[i] \in Seq(1..last)
    OBVIOUS
  <2> DEFINE S == 1..last
  <2>1. named[i] = [p \in 1..Len(explicit[i]) |-> FinalName(explicit, explicit[i][p])]
    BY <1>7, <1>9
  <2>2. \A p \in 1..Len(explicit[i]) : FinalName(explicit, explicit[i][p]) \in S
    BY <1>7, <1>10
  <2> HIDE DEF S, named
  <2>3. named[i] \in [1..Len(explicit[i]) -> S]
    BY <2>1, <2>2
  <2>4. named[i] \in Seq(S)
    BY <1>7, <2>3, FunctionInSeq
  <2> QED  BY <2>4 DEF S
<1>12. named \in Seq(Seq(1..last)) /\ Len(named) = Len(explicit)
  <2> DEFINE S == Seq(1..last)
  <2>1. named = [i \in 1..Len(explicit) |-> named[i]] /\ Len(explicit) \in Nat
    BY <1>7, <1>8
  <2>2. \A i \in 1..Len(explicit) : named[i] \in S
    BY <1>7, <1>11
  <2> HIDE DEF S, named
  <2>3. named \in [1..Len(explicit) -> S]
    BY <2>1, <2>2
  <2>4. named \in Seq(S) /\ Len(named) = Len(explicit)
    BY <2>1, <2>3, FunctionInSeq
  <2> QED  BY <2>4 DEF S
<1>13. DOMAIN named = DOMAIN explicit
  BY <1>8
<1>14. \A i \in DOMAIN explicit : /\ DOMAIN named[i] = DOMAIN explicit[i]
                                  /\ \A p \in DOMAIN explicit[i] :
                                       named[i][p] = FinalName(explicit, explicit[i][p])
  BY <1>9
<1> HIDE DEF named, new
<1> QED  BY <1>1, <1>3, <1>4, <1>5, <1>6, <1>12, <1>13, <1>14 DEF named, new

-----------------------------------------------------------------------------
(* What the steps do to the atoms.                                         *)

LEMMA SeqWidens ==
    ASSUME NEW S, NEW T, S \subseteq T, NEW s \in Seq(S)
    PROVE  s \in Seq(T)
OBVIOUS

LEMMA SeqOfAtomsWidens ==
    ASSUME NEW m \in Nat, NEW n \in Nat, m <= n, NEW s \in Seq(1..m)
    PROVE  s \in Seq(1..n)
<1>1. 1..m \subseteq 1..n  OBVIOUS
<1> QED  BY <1>1, SeqWidens

LEMMA ConcatenatedEnd ==
    ASSUME NEW s, NEW t, IsSequence(s), IsSequence(t)
    PROVE  /\ Len(s) \in Nat /\ Len(t) \in Nat
           /\ \A i \in 1..Len(t) : (s \o t)[Len(s) + i] = t[i]
<1> DEFINE S == Range(s) \cup Range(t)
<1>1. s \in Seq(S) /\ t \in Seq(S)
  BY DEF IsSequence
<1> HIDE DEF S
<1> QED  BY <1>1

\* Only events name atoms, except when they run out.
LEMMA OtherSteps ==
    ASSUME [Next]_vars
    PROVE  \/ \E match \in matches : Instantiate(match)
           \/ /\ UNCHANGED <<graphVars, tokens, atomDegrees, destroyedTokenCount>>
              /\ nextAtom' = nextAtom \/ nextAtom' = LargestAtom
<1>1. ASSUME NEW match \in matches, RunOutOfAtoms(match)
      PROVE  /\ UNCHANGED <<graphVars, tokens, atomDegrees, destroyedTokenCount>>
             /\ nextAtom' = LargestAtom
  BY <1>1 DEF RunOutOfAtoms
<1>2. ASSUME NEW match \in matches, StopAtFinalStateLimit(match) PROVE UNCHANGED <<graphVars, stateVars>>
  BY <1>2 DEF StopAtFinalStateLimit
<1>3. ASSUME NEW spec \in StepSpecs, Replace(spec) PROVE UNCHANGED <<graphVars, stateVars>>
  BY <1>3 DEF Replace
<1>4. \/ ReplaceOnce \/ StopAtMaxEvents \/ Index \/ Abort \/ StopWithoutMatches
      \/ MaxCompleteGeneration \/ UNCHANGED vars
      => UNCHANGED <<graphVars, stateVars>>
  BY DEF ReplaceOnce, StopAtMaxEvents, Index, Abort, StopWithoutMatches, MaxCompleteGeneration, vars
<1>5. UNCHANGED <<graphVars, stateVars>> =>
        UNCHANGED <<graphVars, tokens, atomDegrees, destroyedTokenCount, nextAtom>>
  BY DEF stateVars
<1> QED  BY <1>1, <1>2, <1>3, <1>4, <1>5 DEF Next

\* What an event adds to the tokens.
LEMMA EventTokens ==
    ASSUME SystemSound, AtomsSound, NEW match \in matches, Instantiate(match)
    PROVE  LET explicit == ExplicitOutputs(match)
               named == NamedOutputs(explicit)
               count == Len(named)
           IN  /\ explicit \in Seq(Seq(Int)) /\ Len(explicit) = count /\ count \in Nat
               /\ count = Len(RuleList[match.rule].outputs)
               /\ \A atom \in AtomsOf(explicit) : atom < 0 \/ atom \in 1..nextAtom
               /\ nextAtom' = nextAtom + Cardinality(NewPatterns(explicit))
               /\ nextAtom' \in Nat /\ nextAtom <= nextAtom' /\ nextAtom' <= LargestAtom
               /\ named \in Seq(Seq(1..nextAtom')) /\ DOMAIN named = 1..count
               /\ Len(tokens) \in Nat /\ Len(tokens) = Len(creatorEvents)
               /\ DOMAIN tokens = 1..Len(tokens) /\ DOMAIN tokens' = 1..(Len(tokens) + count)
               /\ Len(tokens') = Len(tokens) + count
               /\ \A id \in 1..Len(tokens) : tokens'[id] = tokens[id]
               /\ \A i \in 1..count : tokens'[Len(tokens) + i] = named[i]
               /\ events'[Len(events')].rule = match.rule
               /\ events'[Len(events')].inputTokens = match.inputTokens
               /\ events'[Len(events')].outputTokens = [i \in 1..count |-> Len(tokens) + i]
<1> DEFINE explicit == ExplicitOutputs(match)
           named == NamedOutputs(explicit)
           count == Len(named)
<1>1. /\ explicit \in Seq(Seq(Int)) /\ Len(explicit) = Len(RuleList[match.rule].outputs)
      /\ \A atom \in AtomsOf(explicit) : atom < 0 \/ atom \in 1..nextAtom
  BY ExplicitOutputsMean
<1>2. /\ nextAtom' = nextAtom + Cardinality(NewPatterns(explicit)) /\ nextAtom' <= LargestAtom
      /\ Graph!AddEvent(match.rule, match.inputTokens, count) /\ AddTokens(named)
  BY DEF Instantiate
<1> HIDE DEF explicit
<1>3. /\ named \in Seq(Seq(1..nextAtom')) /\ Len(named) = Len(explicit)
      /\ nextAtom' \in Nat /\ nextAtom' >= nextAtom /\ DOMAIN named = DOMAIN explicit
  BY <1>1, <1>2, AtomTypes, NamedOutputsMean
<1> HIDE DEF named
<1>4. IsSequence(named) /\ count \in Nat /\ DOMAIN named = 1..count
  <2> DEFINE S == Seq(1..nextAtom')
  <2>1. named \in Seq(S)  BY <1>3
  <2> HIDE DEF S
  <2>2. IsSequence(named)  BY <2>1, SequenceOf
  <2> QED  BY <2>1, <2>2
<1>5. IsSequence(tokens) /\ Len(tokens) = Len(creatorEvents) /\ DOMAIN tokens = 1..Len(tokens)
  BY TokensDomain DEF SystemSound, TokensGood
<1>6. tokens' = tokens \o named
  BY <1>2 DEF AddTokens
<1>7. /\ Len(tokens) \in Nat
      /\ IsSequence(tokens') /\ Len(tokens') = Len(tokens) + count
      /\ \A id \in 1..Len(tokens) : tokens'[id] = tokens[id]
      /\ \A i \in 1..count : tokens'[Len(tokens) + i] = named[i]
  <2>1. Len(tokens) \in Nat /\ \A i \in 1..Len(named) : (tokens \o named)[Len(tokens) + i] = named[i]
    BY <1>4, <1>5, ConcatenatedEnd
  <2>2. IsSequence(tokens \o named) /\ Len(tokens \o named) = Len(tokens) + Len(named)
    BY <1>4, <1>5, Concatenated
  <2>3. \A id \in 1..Len(tokens) : (tokens \o named)[id] = tokens[id]
    BY <1>4, <1>5, ConcatenatedStart
  <2>4. IsSequence(tokens')  BY <1>6, <2>2
  <2> QED  BY <1>6, <2>1, <2>2, <2>3, <2>4
<1>8. DOMAIN tokens' = 1..(Len(tokens) + count)
  <2>1. DOMAIN tokens' = 1..Len(tokens')  BY <1>7 DEF IsSequence
  <2> QED  BY <1>7, <2>1
<1>9. /\ events'[Len(events')].rule = match.rule
      /\ events'[Len(events')].inputTokens = match.inputTokens
      /\ events'[Len(events')].outputTokens = Graph!NewTokens(count)
  <2>1. /\ match.rule \in Int /\ match.inputTokens \in Seq(1..Len(creatorEvents))
        /\ \A id \in Range(match.inputTokens) : destroyerEventsCount[id] < MaxDestroyerEvents
        /\ Graph!NewEventGeneration(match.inputTokens) \in 0..stepSpec.maxGenerationsLocal
    BY InputsOfMatch DEF SystemSound, Usable
  <2>2. stepSpec.maxGenerationsLocal \in Nat
    BY Constants DEF SystemSound, CallsWithinLimits
  <2>3. Graph!NewEventGeneration(match.inputTokens) \in Nat
    BY <2>1, <2>2
  <2> QED  BY <1>2, <1>4, <2>1, <2>3, GraphGrows DEF SystemSound
<1>10. Graph!NewTokens(count) = [i \in 1..count |-> Len(tokens) + i]
  BY <1>5 DEF Graph!NewTokens
<1> QED  BY <1>1, <1>2, <1>3, <1>4, <1>5, <1>7, <1>8, <1>9, <1>10 DEF explicit, named

-----------------------------------------------------------------------------
(* The atoms stay sound.                                                   *)

LEMMA LargestIs ==
    ASSUME NEW S \in SUBSET Nat, S # {}, NEW b \in Nat, \A s \in S : s <= b
    PROVE  Max(S) \in S /\ \A s \in S : s <= Max(S)
<1>1. PICK m \in S : \A s \in S : s <= m
  BY LargestElement
<1>2. \A s \in S : m >= s
  BY <1>1
<1>3. Max(S) \in S /\ \A s \in S : Max(S) >= s
  BY <1>2 DEF Max
<1> QED  BY <1>3

LEMMA FirstAtomMeans ==
    ASSUME NEW state \in InitialStates
    PROVE  /\ FirstAtom(state) \in 1..LargestAtom
           /\ \A atom \in AtomsOf(state) : atom \in 1..(FirstAtom(state) - 1)
<1> DEFINE all == {0} \cup AtomsOf(state)
<1>1. /\ LargestAtom - 1 \in Nat /\ LargestAtom \in Nat
      /\ \A atom \in AtomsOf(state) : atom \in 1..(LargestAtom - 1)
  BY LimitsAssumption
<1>2. all \in SUBSET Nat /\ all # {} /\ \A atom \in all : atom <= LargestAtom - 1
  BY <1>1
<1>3. Max(all) \in all /\ \A atom \in all : atom <= Max(all)
  <2> HIDE DEF all
  <2> QED  BY <1>1, <1>2, LargestIs
<1>4. Max(all) \in Nat /\ Max(all) <= LargestAtom - 1
  <2> HIDE DEF all
  <2> QED  BY <1>2, <1>3
<1>5. FirstAtom(state) = 1 + Max(all)
  BY DEF FirstAtom
<1>6. \A atom \in AtomsOf(state) : atom \in Nat /\ atom >= 1 /\ atom <= Max(all)
  BY <1>1, <1>3
<1> HIDE DEF all
<1> QED  BY <1>1, <1>4, <1>5, <1>6

LEMMA InitAtoms ==
    ASSUME RulesNameKnownAtoms, Init
    PROVE  AtomsSound
<1>1. PICK state \in InitialStates : tokens = state /\ nextAtom = FirstAtom(state)
  BY DEF Init
<1>2. /\ nextAtom \in 1..LargestAtom /\ nextAtom \in Nat
      /\ \A atom \in AtomsOf(state) : atom \in 1..(nextAtom - 1)
  BY <1>1, FirstAtomMeans, LimitsAssumption
<1>3. state \in Seq(Seq(Nat))
  BY RuleListAssumption
<1>4. ASSUME NEW id \in DOMAIN state PROVE state[id] \in Seq(1..nextAtom)
  <2>1. state[id] \in Seq(Nat)  BY <1>3
  <2>2. state[id] \in [1..Len(state[id]) -> Nat] /\ Len(state[id]) \in Nat
        /\ DOMAIN state[id] = 1..Len(state[id])
    BY <2>1
  <2>3. ASSUME NEW p \in 1..Len(state[id]) PROVE state[id][p] \in 1..nextAtom
    <3>1. state[id][p] \in AtomsOf(state)  BY <2>2 DEF AtomsOf, Range
    <3>2. state[id][p] \in 1..(nextAtom - 1)  BY <1>2, <3>1
    <3> QED  BY <1>2, <3>2
  <2> DEFINE S == 1..nextAtom
  <2>4. \A p \in 1..Len(state[id]) : state[id][p] \in S  BY <2>3
  <2> HIDE DEF S
  <2>5. state[id] \in [1..Len(state[id]) -> S]  BY <2>2, <2>4
  <2>6. state[id] \in Seq(S)  BY <2>2, <2>5, FunctionInSeq
  <2> QED  BY <2>6 DEF S
<1>5. matches = {} /\ newMatches = {}
  BY DEF Init
<1> QED  BY <1>1, <1>2, <1>4, <1>5 DEF AtomsSound, RulesNameKnownAtoms

LEMMA OtherStepsKeepAtoms ==
    ASSUME SystemSound, AtomsSound, QuietStep,
           UNCHANGED tokens, nextAtom' = nextAtom \/ nextAtom' = LargestAtom
    PROVE  AtomsSound'
<1>1. /\ nextAtom \in Nat /\ nextAtom > 0 /\ nextAtom' \in Nat
      /\ nextAtom <= nextAtom' /\ nextAtom' \in 1..LargestAtom
  BY AtomTypes
<1>2. \A id \in DOMAIN tokens' : tokens'[id] \in Seq(1..nextAtom')
  BY <1>1, SeqOfAtomsWidens DEF AtomsSound
<1>3. \A atom \in RuleAtoms : atom < 0 \/ atom \in 1..nextAtom'
  <2>1. \A atom \in 1..nextAtom : atom \in 1..nextAtom'  BY <1>1
  <2> QED  BY <2>1 DEF AtomsSound
<1>4. ASSUME NEW match \in matches' \cup newMatches'
      PROVE  IsRecord(match) /\ Fits(RuleList[match.rule].inputs, InputAtoms(match)')
  <2>1. match \in matches \cup newMatches \cup ScannedMatches
    BY QuietQueues
  <2>2. IsRecord(match) /\ Fits(RuleList[match.rule].inputs, InputAtoms(match))
    BY <2>1, ScannedMeans DEF FitsRule, AtomsSound
  <2>3. InputAtoms(match)' = InputAtoms(match)
    BY DEF InputAtoms
  <2> QED  BY <2>2, <2>3
<1> QED  BY <1>1, <1>2, <1>3, <1>4 DEF AtomsSound, IsRecord

LEMMA EventKeepsAtoms ==
    ASSUME SystemSound, AtomsSound, NEW match \in matches, Instantiate(match)
    PROVE  AtomsSound'
<1> DEFINE named == NamedOutputs(ExplicitOutputs(match))
           count == Len(named)
           old == Len(tokens)
<1>1. /\ count \in Nat /\ nextAtom' \in Nat /\ nextAtom <= nextAtom' /\ nextAtom' <= LargestAtom
      /\ named \in Seq(Seq(1..nextAtom')) /\ DOMAIN named = 1..count
      /\ old \in Nat /\ old = Len(creatorEvents)
      /\ DOMAIN tokens = 1..old /\ DOMAIN tokens' = 1..(old + count)
      /\ \A id \in 1..old : tokens'[id] = tokens[id]
      /\ \A i \in 1..count : tokens'[old + i] = named[i]
  BY EventTokens
<1> HIDE DEF named, count, old
<1>2. nextAtom \in Nat /\ nextAtom > 0 /\ LargestAtom \in Nat /\ nextAtom' \in 1..LargestAtom
  BY <1>1, AtomTypes
<1>3. ASSUME NEW id \in DOMAIN tokens' PROVE tokens'[id] \in Seq(1..nextAtom')
  <2>1. CASE id \in 1..old
    <3>1. tokens[id] \in Seq(1..nextAtom)  BY <1>1, <2>1 DEF AtomsSound
    <3>2. tokens[id] \in Seq(1..nextAtom')  BY <1>1, <1>2, <3>1, SeqOfAtomsWidens
    <3> QED  BY <1>1, <2>1, <3>2
  <2>2. CASE id \notin 1..old
    <3>1. id - old \in 1..count /\ id = old + (id - old)  BY <1>1, <2>2
    <3>2. tokens'[id] = named[id - old]  BY <1>1, <3>1
    <3> DEFINE S == Seq(1..nextAtom')
    <3>3. named \in Seq(S)  BY <1>1
    <3> HIDE DEF S
    <3>4. named[id - old] \in S  BY <1>1, <3>1, <3>3
    <3> QED  BY <3>2, <3>4 DEF S
  <2> QED  BY <2>1, <2>2
<1>4. \A atom \in RuleAtoms : atom < 0 \/ atom \in 1..nextAtom'
  <2>1. \A atom \in 1..nextAtom : atom \in 1..nextAtom'  BY <1>1, <1>2
  <2> QED  BY <2>1 DEF AtomsSound
<1>5. ASSUME NEW other \in matches' \cup newMatches'
      PROVE  IsRecord(other) /\ Fits(RuleList[other.rule].inputs, InputAtoms(other)')
  <2>1. other \in matches
    <3>1. newMatches' = {}  BY EventEffect
    <3>2. matches' \subseteq matches
      BY DEF Instantiate, ForgetDestroyed
    <3> QED  BY <3>1, <3>2
  <2>2. IsRecord(other) /\ Fits(RuleList[other.rule].inputs, InputAtoms(other))
    BY <2>1 DEF AtomsSound
  <2>3. \A i \in DOMAIN other.inputTokens : other.inputTokens[i] \in 1..old
    <3>1. MatchGood(other)  BY <2>1 DEF SystemSound
    <3> QED  BY <1>1, <3>1 DEF MatchGood
  <2>4. InputAtoms(other)' = InputAtoms(other)
    BY <1>1, <2>3 DEF InputAtoms
  <2> QED  BY <2>2, <2>4
<1> QED  BY <1>2, <1>3, <1>4, <1>5 DEF AtomsSound, IsRecord

LEMMA StepKeepsAtoms ==
    ASSUME SteadyUse, SystemSound, AtomsSound, [Next]_vars
    PROVE  AtomsSound'
<1>1. CASE \E match \in matches : Instantiate(match)
  BY <1>1, EventKeepsAtoms
<1>2. CASE ~\E match \in matches : Instantiate(match)
  <2>1. UNCHANGED tokens /\ (nextAtom' = nextAtom \/ nextAtom' = LargestAtom)
    BY <1>2, OtherSteps
  <2>2. QuietStep
    BY <1>2, StepsOfSearch
  <2> QED  BY <2>1, <2>2, OtherStepsKeepAtoms
<1> QED  BY <1>1, <1>2

LEMMA AtomsStaySound ==
    ASSUME SteadyUse, RulesNameKnownAtoms
    PROVE  Spec => [](SystemSound /\ AtomsSound)
<1>1. Init => SystemSound /\ AtomsSound
  BY InitSound, InitAtoms
<1>2. SystemSound /\ AtomsSound /\ [Next]_vars => (SystemSound /\ AtomsSound)'
  BY StepSound, StepKeepsAtoms
<1> QED  BY <1>1, <1>2, PTL DEF Spec

\* The atoms that an event names are in no token and no rule before, and differ
\* as far as the patterns they replace do, as long as the atoms that rules
\* name were there when the system was created.
THEOREM NamedAtomsAreNew ==
    ASSUME SteadyUse, RulesNameKnownAtoms
    PROVE  Spec => NewAtomsAreNew
<1>1. ASSUME SystemSound, AtomsSound, NEW match \in matches, Instantiate(match)
      PROVE  NewestEventNamesNewAtoms
  <2> DEFINE explicit == ExplicitOutputs(match)
             named == NamedOutputs(explicit)
             count == Len(named)
             old == Len(tokens)
             newest == events'[Len(events')]
             again == [rule |-> newest.rule, inputTokens |-> newest.inputTokens]
             Named(place) == tokens'[newest.outputTokens[place[1]]][place[2]]
             all == NewPatterns(explicit) \cup 1..nextAtom
  <2>1. /\ explicit \in Seq(Seq(Int)) /\ Len(explicit) = count /\ count \in Nat
        /\ \A atom \in AtomsOf(explicit) : atom < 0 \/ atom \in 1..nextAtom
        /\ nextAtom' = nextAtom + Cardinality(NewPatterns(explicit))
        /\ \A i \in 1..count : tokens'[old + i] = named[i]
        /\ newest.rule = match.rule /\ newest.inputTokens = match.inputTokens
        /\ newest.outputTokens = [i \in 1..count |-> old + i]
        /\ DOMAIN tokens = 1..old
    BY <1>1, EventTokens
  <2>2. ExplicitOutputs(again) = explicit
    <3> HIDE DEF newest
    <3>1. again.rule = match.rule /\ again.inputTokens = match.inputTokens
      BY <2>1
    <3> HIDE DEF again
    <3> QED  BY <3>1 DEF ExplicitOutputs, InputAtoms
  <2> HIDE DEF explicit, newest
  <2>3. /\ DOMAIN explicit = 1..count
        /\ \A i \in DOMAIN explicit : \A p \in DOMAIN explicit[i] :
             named[i][p] = FinalName(explicit, explicit[i][p])
        /\ AtomsOf(explicit) \subseteq all
        /\ \A a, b \in all : FinalName(explicit, a) = FinalName(explicit, b) => a = b
        /\ \A a \in NewPatterns(explicit) : FinalName(explicit, a) \in (nextAtom + 1)..nextAtom'
    <3>1. DOMAIN explicit = 1..count  BY <2>1
    <3>2. /\ nextAtom \in Nat /\ explicit \in Seq(Seq(Int))
          /\ \A atom \in AtomsOf(explicit) : atom < 0 \/ atom \in 1..nextAtom
          /\ nextAtom' = nextAtom + Cardinality(NewPatterns(explicit))
      BY <1>1, <2>1, AtomTypes
    <3>3. /\ \A i \in DOMAIN explicit : \A p \in DOMAIN explicit[i] :
               named[i][p] = FinalName(explicit, explicit[i][p])
          /\ AtomsOf(explicit) \subseteq all
          /\ \A a, b \in all : FinalName(explicit, a) = FinalName(explicit, b) => a = b
          /\ \A a \in NewPatterns(explicit) : FinalName(explicit, a) \in (nextAtom + 1)..nextAtom'
      BY <3>2, NamedOutputsMean
    <3> QED  BY <3>1, <3>3
  <2> HIDE DEF named, count, old
  <2>4. ASSUME NEW place \in Places(explicit)
        PROVE  /\ Named(place) = FinalName(explicit, AtomAt(explicit, place))
               /\ AtomAt(explicit, place) \in all
               /\ AtomAt(explicit, place) < 0 => AtomAt(explicit, place) \in NewPatterns(explicit)
    <3>1. /\ place[1] \in 1..count /\ place[2] \in DOMAIN explicit[place[1]]
          /\ AtomAt(explicit, place) \in AtomsOf(explicit)
      BY <2>1, <2>3, PlacesMean
    <3>2. newest.outputTokens[place[1]] = old + place[1]
      BY <2>1, <3>1
    <3>3. Named(place) = named[place[1]][place[2]]
      BY <2>1, <3>1, <3>2
    <3> QED  BY <2>3, <3>1, <3>3 DEF AtomAt, NewPatterns
  <2>5. ASSUME NEW place \in Places(explicit), AtomAt(explicit, place) < 0
        PROVE  /\ Named(place) \notin AtomsOf(tokens) \cup RuleAtoms
               /\ \A other \in Places(explicit) :
                    AtomAt(explicit, other) = AtomAt(explicit, place) <=> Named(other) = Named(place)
    <3>1. Named(place) \in (nextAtom + 1)..nextAtom' /\ nextAtom \in Nat
      BY <1>1, <2>3, <2>4, <2>5, AtomTypes
    <3>2. ASSUME NEW atom \in AtomsOf(tokens) PROVE atom \in 1..nextAtom
      <4>1. PICK id \in DOMAIN tokens : \E p \in DOMAIN tokens[id] : atom = tokens[id][p]
        BY DEF AtomsOf, Range
      <4>2. tokens[id] \in Seq(1..nextAtom)  BY <1>1 DEF AtomsSound
      <4> DEFINE S == 1..nextAtom
      <4>3. tokens[id] \in Seq(S)  BY <4>2
      <4> HIDE DEF S
      <4>4. atom \in S  BY <4>1, <4>3
      <4> QED  BY <4>4 DEF S
    <3>3. \A atom \in RuleAtoms : atom < 0 \/ atom \in 1..nextAtom
      BY <1>1 DEF AtomsSound
    <3>4. Named(place) \notin AtomsOf(tokens) \cup RuleAtoms
      <4> DEFINE name == Named(place)
      <4>1. name > nextAtom /\ name \in Nat /\ nextAtom' \in Nat
        <5>1. nextAtom' \in Nat  BY <1>1, <2>1, EventTokens
        <5>2. name \in (nextAtom + 1)..nextAtom' /\ nextAtom \in Nat  BY <3>1
        <5> HIDE DEF name
        <5> QED  BY <5>1, <5>2
      <4> HIDE DEF name
      <4>2. ~(name < 0) /\ name \notin 1..nextAtom
        BY <3>1, <4>1
      <4>3. name \notin AtomsOf(tokens) \cup RuleAtoms
        BY <3>2, <3>3, <4>2
      <4> QED  BY <4>3 DEF name
    <3>5. ASSUME NEW other \in Places(explicit)
          PROVE  AtomAt(explicit, other) = AtomAt(explicit, place) <=> Named(other) = Named(place)
      <4>1. /\ Named(other) = FinalName(explicit, AtomAt(explicit, other))
            /\ Named(place) = FinalName(explicit, AtomAt(explicit, place))
            /\ AtomAt(explicit, other) \in all /\ AtomAt(explicit, place) \in all
        BY <2>4
      <4> HIDE DEF Named, all
      <4> QED  BY <2>3, <4>1
    <3> QED  BY <3>4, <3>5
  <2> HIDE DEF Named, again
  <2> QED  BY <2>2, <2>5 DEF NewestEventNamesNewAtoms, Named, again, newest
<1>2. SystemSound /\ AtomsSound /\ [Next]_vars => [events' # events => NewestEventNamesNewAtoms]_vars
  BY <1>1, OtherSteps DEF graphVars
<1>3. Spec => [](SystemSound /\ AtomsSound)
  BY AtomsStaySound
<1> QED  BY <1>2, <1>3, PTL DEF Spec, NewAtomsAreNew

-----------------------------------------------------------------------------
(* The counters.  The final state is that of a single history.             *)

\* The counters agree with the tokens, and are not used in a multihistory.
CountersSound ==
    /\ CountersAgree
    /\ destroyedTokenCount \in Nat
    /\ HasMultipleHistories => destroyedTokenCount = 0 /\ DOMAIN atomDegrees = {}

SingleHistory == SteadyUse /\ ~HasMultipleHistories

LEMMA SingleDestroyer ==
    ASSUME SingleHistory
    PROVE  MaxDestroyerEvents = 1
BY Constants DEF SingleHistory, SteadyUse, HasMultipleHistories

\* The tokens of the final state with an atom.
Holders(atom, ids) == {id \in ids : atom \in Range(tokens[id])}

LEMMA LiveTokensMean ==
    ASSUME SystemSound
    PROVE  /\ Len(tokens) \in Nat /\ DOMAIN tokens = 1..Len(tokens)
           /\ LiveTokens \subseteq 1..Len(tokens) /\ IsFiniteSet(LiveTokens)
           /\ \A atom : /\ DegreeIn(atom, FinalState) = Cardinality(Holders(atom, LiveTokens))
                        /\ IsFiniteSet(Holders(atom, LiveTokens))
                        /\ DegreeIn(atom, FinalState) \in Nat
                        /\ atom \in AtomsOf(FinalState) <=> DegreeIn(atom, FinalState) # 0
<1>1. Len(tokens) \in Nat /\ DOMAIN tokens = 1..Len(tokens)
  BY TokensDomain, GraphDomains DEF SystemSound, TokensGood
<1>2. LiveTokens \in SUBSET (1..Len(tokens))
  BY <1>1 DEF LiveTokens
<1>3. IsFiniteSet(LiveTokens)
  <2> DEFINE all == 1..Len(tokens)
  <2>1. 1 \in Int /\ Len(tokens) \in Int  BY <1>1
  <2>2. IsFiniteSet(all)  BY <2>1, FS_Interval
  <2> HIDE DEF all
  <2>3. LiveTokens \in SUBSET all  BY <1>2 DEF all
  <2> QED  BY <2>2, <2>3, FS_Subset
<1>4. ASSUME NEW atom
      PROVE  /\ DegreeIn(atom, FinalState) = Cardinality(Holders(atom, LiveTokens))
             /\ IsFiniteSet(Holders(atom, LiveTokens))
             /\ DegreeIn(atom, FinalState) \in Nat
             /\ atom \in AtomsOf(FinalState) <=> DegreeIn(atom, FinalState) # 0
  <2>1. DOMAIN FinalState = LiveTokens /\ \A id \in LiveTokens : FinalState[id] = tokens[id]
    BY DEF FinalState
  <2>2. {i \in DOMAIN FinalState : atom \in Range(FinalState[i])} = Holders(atom, LiveTokens)
    BY <2>1 DEF Holders
  <2>3. Holders(atom, LiveTokens) \in SUBSET LiveTokens
    BY DEF Holders
  <2>4. IsFiniteSet(Holders(atom, LiveTokens))
    BY <1>3, <2>3, FS_Subset
  <2>5. atom \in AtomsOf(FinalState) <=> Holders(atom, LiveTokens) # {}
    BY <2>1 DEF AtomsOf, Holders
  <2>6. DegreeIn(atom, FinalState) = Cardinality(Holders(atom, LiveTokens))
    BY <2>2 DEF DegreeIn
  <2> QED  BY <2>4, <2>5, <2>6, FS_CardinalityType, FS_EmptySet
<1> QED  BY <1>1, <1>2, <1>3, <1>4

\* The inputs are live tokens, and the outputs take their place.
LEMMA EventReplacesTokens ==
    ASSUME SingleHistory, SystemSound, AtomsSound, NEW match \in matches, Instantiate(match)
    PROVE  LET inputs == Range(match.inputTokens)
               count == Len(NamedOutputs(ExplicitOutputs(match)))
               created == (Len(tokens) + 1)..(Len(tokens) + count)
           IN  /\ count \in Nat /\ Len(tokens) \in Nat
               /\ inputs \in SUBSET LiveTokens
               /\ created \cap LiveTokens = {}
               /\ LiveTokens' = (LiveTokens \ inputs) \cup created
               /\ IsFiniteSet(created) /\ Cardinality(created) = count
<1> DEFINE inputs == Range(match.inputTokens)
           count == Len(NamedOutputs(ExplicitOutputs(match)))
           old == Len(tokens)
           created == (old + 1)..(old + count)
<1>1. /\ count \in Nat /\ old \in Nat /\ old = Len(creatorEvents)
      /\ DOMAIN tokens = 1..old /\ DOMAIN tokens' = 1..(old + count)
  BY EventTokens
<1>2. /\ \A id \in inputs : Usable(id)
      /\ \A id \in 1..old :
           /\ id \in inputs => destroyerEventsCount'[id] = destroyerEventsCount[id] + 1
           /\ id \notin inputs => destroyerEventsCount'[id] = destroyerEventsCount[id]
      /\ \A id \in 1..Len(creatorEvents') \ 1..old : destroyerEventsCount'[id] = 0
      /\ DOMAIN tokens' = 1..Len(creatorEvents')
  BY <1>1, EventEffect
<1>3. \A id \in 1..old : destroyerEventsCount[id] \in Nat
  BY <1>1, GraphDomains DEF SystemSound
<1>4. MaxDestroyerEvents = 1
  BY SingleDestroyer
<1> HIDE DEF inputs, count, old
<1>5. inputs \in SUBSET LiveTokens
  BY <1>1, <1>2 DEF Usable, LiveTokens
<1>6. created \cap LiveTokens = {}
  <2>1. LiveTokens \subseteq 1..old  BY <1>1 DEF LiveTokens
  <2> QED  BY <1>1, <2>1
<1>7. LiveTokens' = (LiveTokens \ inputs) \cup created
  <2>1. ASSUME NEW id \in 1..old PROVE id \in LiveTokens' <=> id \in LiveTokens \ inputs
    <3>1. id \in DOMAIN tokens /\ id \in DOMAIN tokens'  BY <1>1
    <3>2. id \in LiveTokens' <=> destroyerEventsCount'[id] < 1
      BY <1>4, <3>1 DEF LiveTokens
    <3>3. id \in LiveTokens <=> destroyerEventsCount[id] < 1
      BY <1>4, <3>1 DEF LiveTokens
    <3> QED  BY <1>2, <1>3, <3>2, <3>3
  <2>2. ASSUME NEW id \in created PROVE id \in LiveTokens'
    <3>1. id \in DOMAIN tokens' /\ id \notin 1..old  BY <1>1
    <3>2. destroyerEventsCount'[id] = 0  BY <1>2, <3>1
    <3> QED  BY <1>4, <3>1, <3>2 DEF LiveTokens
  <2>3. \A id \in LiveTokens' : id \in 1..old \/ id \in created
    <3>1. \A id \in DOMAIN tokens' : id \in 1..old \/ id \in created  BY <1>1
    <3> QED  BY <3>1 DEF LiveTokens
  <2>4. \A id \in LiveTokens : id \in 1..old  BY <1>1 DEF LiveTokens
  <2> HIDE DEF created
  <2> QED  BY <2>1, <2>2, <2>3, <2>4
<1>8. IsFiniteSet(created) /\ Cardinality(created) = count
  <2> DEFINE first == old + 1
             last == old + count
  <2>1. first \in Int /\ last \in Int /\ last - first + 1 = count /\ (first > last => count = 0)
    BY <1>1
  <2> HIDE DEF first, last
  <2>2. /\ IsFiniteSet(first..last)
        /\ Cardinality(first..last) = IF first > last THEN 0 ELSE last - first + 1
    BY <2>1, FS_Interval
  <2>3. IsFiniteSet(first..last) /\ Cardinality(first..last) = count
    BY <2>1, <2>2
  <2> QED  BY <2>3 DEF first, last
<1> QED  BY <1>1, <1>5, <1>6, <1>7, <1>8 DEF inputs, count, old

\* A list of tokens counts each of them once.
LEMMA DegreeOfInputs ==
    ASSUME SystemSound, AtomsSound, NEW match \in matches, NEW atom
    PROVE  /\ IsFiniteSet(Holders(atom, Range(match.inputTokens)))
           /\ DegreeIn(atom, InputAtoms(match)) = Cardinality(Holders(atom, Range(match.inputTokens)))
           /\ DegreeIn(atom, InputAtoms(match)) \in Nat
           /\ IsFiniteSet(Range(match.inputTokens))
           /\ Cardinality(Range(match.inputTokens)) = Len(match.inputTokens)
<1> DEFINE ids == match.inputTokens
           I == {i \in DOMAIN InputAtoms(match) : atom \in Range(InputAtoms(match)[i])}
           held == Holders(atom, Range(ids))
<1>1. /\ DOMAIN InputAtoms(match) = DOMAIN ids
      /\ \A i \in DOMAIN ids : InputAtoms(match)[i] = tokens[ids[i]]
  BY InputAtomsMean
<1>2. /\ DOMAIN ids = 1..Len(ids) /\ Len(ids) \in Nat /\ ids \in [DOMAIN ids -> Range(ids)]
      /\ \A i, j \in DOMAIN ids : ids[i] = ids[j] => i = j
  <2>1. MatchGood(match)  BY DEF SystemSound
  <2>2. DOMAIN ids = 1..Len(ids) /\ ids \in Seq(1..Len(creatorEvents))  BY <2>1, InputsOfMatch
  <2>3. \A i, j \in DOMAIN ids : ids[i] = ids[j] => i = j  BY <2>1 DEF MatchGood, IsInjective
  <2>4. Len(ids) \in Nat /\ ids \in [DOMAIN ids -> Range(ids)]
    <3> HIDE DEF ids
    <3> QED  BY <2>2 DEF Range
  <2> QED  BY <2>2, <2>3, <2>4
<1>3. IsFiniteSet(DOMAIN ids) /\ Cardinality(DOMAIN ids) = Len(ids)
  <2> DEFINE size == Len(ids)
  <2>1. 1 \in Int /\ size \in Int /\ size - 1 + 1 = size /\ (1 > size => size = 0)
    BY <1>2
  <2> HIDE DEF size
  <2>2. IsFiniteSet(1..size) /\ Cardinality(1..size) = IF 1 > size THEN 0 ELSE size - 1 + 1
    BY <2>1, FS_Interval
  <2>3. IsFiniteSet(1..size) /\ Cardinality(1..size) = size
    BY <2>1, <2>2
  <2> QED  BY <1>2, <2>3 DEF size
<1>4. I \in SUBSET DOMAIN ids /\ I = {i \in DOMAIN ids : atom \in Range(tokens[ids[i]])}
  BY <1>1
<1>5. IsFiniteSet(I)
  BY <1>3, <1>4, FS_Subset
<1>6. DegreeIn(atom, InputAtoms(match)) = Cardinality(I)
  BY DEF DegreeIn
<1> HIDE DEF ids
<1>7. IsFiniteSet(Range(ids)) /\ Cardinality(Range(ids)) = Len(ids)
  <2> DEFINE all == DOMAIN ids
             range == Range(ids)
             f == [i \in all |-> ids[i]]
  <2>1. \A x : x \in range <=> \E i \in all : x = f[i]
    BY DEF Range
  <2>2. IsFiniteSet(all) /\ Cardinality(all) = Len(ids)
    BY <1>3
  <2>3. f \in [all -> range]
    BY <1>2
  <2>4. \A i, j \in all : f[i] = f[j] => i = j
    BY <1>2
  <2>5. IsFiniteSet(all)
    BY <2>2
  <2> HIDE DEF all, range, f
  <2>6. IsFiniteSet(range) /\ Cardinality(range) = Cardinality(all)
    BY <2>1, <2>3, <2>4, <2>5, ImageCardinality
  <2> QED  BY <2>2, <2>6 DEF range
<1>8. IsFiniteSet(held) /\ Cardinality(held) = Cardinality(I)
  <2> DEFINE f == [i \in I |-> ids[i]]
  <2>1. f \in [I -> Range(ids)]
    BY <1>4 DEF Range
  <2>2. \A i, j \in I : f[i] = f[j] => i = j
    BY <1>2, <1>4
  <2>3. ASSUME NEW x PROVE x \in held <=> \E i \in I : x = f[i]
    <3>1. x \in Range(ids) <=> \E i \in DOMAIN ids : x = ids[i]
      BY DEF Range
    <3>2. \A i \in DOMAIN ids : i \in I <=> atom \in Range(tokens[ids[i]])
      BY <1>4
    <3>3. x \in held <=> x \in Range(ids) /\ atom \in Range(tokens[x])
      BY DEF Holders
    <3>4. \A i \in I : i \in DOMAIN ids /\ f[i] = ids[i]
      BY <1>4
    <3> HIDE DEF I, held, f
    <3> QED  BY <3>1, <3>2, <3>3, <3>4
  <2> DEFINE all == Range(ids)
  <2>4. f \in [I -> all]  BY <2>1
  <2> HIDE DEF I, held, f, all
  <2> QED  BY <1>5, <2>2, <2>3, <2>4, ImageCardinality
<1> QED  BY <1>5, <1>6, <1>7, <1>8, FS_CardinalityType DEF ids

\* The degree of an atom changes by its degrees in the inputs and the outputs.
LEMMA DegreeAfterEvent ==
    ASSUME SingleHistory, SystemSound, AtomsSound,
           NEW match \in matches, Instantiate(match), NEW atom
    PROVE  LET named == NamedOutputs(ExplicitOutputs(match))
           IN  /\ DegreeIn(atom, FinalState') = DegreeIn(atom, FinalState)
                    - DegreeIn(atom, InputAtoms(match)) + DegreeIn(atom, named)
               /\ DegreeIn(atom, named) \in Nat
<1> DEFINE named == NamedOutputs(ExplicitOutputs(match))
           inputs == Range(match.inputTokens)
           count == Len(named)
           old == Len(tokens)
           created == (old + 1)..(old + count)
           J == {i \in DOMAIN named : atom \in Range(named[i])}
           A == Holders(atom, LiveTokens)
           B == Holders(atom, inputs)
           C == {id \in created : atom \in Range(tokens'[id])}
<1>1. /\ count \in Nat /\ old \in Nat /\ DOMAIN named = 1..count
      /\ \A id \in 1..old : tokens'[id] = tokens[id]
      /\ \A i \in 1..count : tokens'[old + i] = named[i]
  BY EventTokens
<1>2. /\ inputs \in SUBSET LiveTokens /\ created \cap LiveTokens = {}
      /\ LiveTokens' = (LiveTokens \ inputs) \cup created
      /\ IsFiniteSet(created)
  BY EventReplacesTokens
<1>3. LiveTokens \subseteq 1..old /\ IsFiniteSet(A) /\ DegreeIn(atom, FinalState) = Cardinality(A)
  BY LiveTokensMean
<1>4. IsFiniteSet(B) /\ DegreeIn(atom, InputAtoms(match)) = Cardinality(B)
  BY DegreeOfInputs
<1>5. DegreeIn(atom, FinalState') = Cardinality(Holders(atom, LiveTokens)')
  <2>1. DOMAIN FinalState' = LiveTokens' /\ \A id \in LiveTokens' : FinalState'[id] = tokens'[id]
    BY DEF FinalState
  <2>2. {i \in DOMAIN FinalState' : atom \in Range(FinalState'[i])}
          = {i \in LiveTokens' : atom \in Range(tokens'[i])}
    BY <2>1
  <2> QED  BY <2>2 DEF DegreeIn, Holders
<1>6. DegreeIn(atom, named) = Cardinality(J)
  BY DEF DegreeIn
<1> HIDE DEF named, count, old, inputs
<1>7. Holders(atom, LiveTokens)' = (A \ B) \cup C
  <2>1. Holders(atom, LiveTokens)' = {id \in LiveTokens' : atom \in Range(tokens'[id])}
    BY DEF Holders
  <2>2. \A id \in LiveTokens : tokens'[id] = tokens[id]
    BY <1>1, <1>3
  <2> HIDE DEF created
  <2> QED  BY <1>2, <2>1, <2>2 DEF Holders
<1>8. C \cap A = {} /\ B \in SUBSET A
  <2> HIDE DEF created
  <2> QED  BY <1>2 DEF Holders
<1>9. IsFiniteSet(J) /\ IsFiniteSet(C) /\ Cardinality(C) = Cardinality(J)
  <2> DEFINE f == [i \in J |-> old + i]
  <2>1. J \in SUBSET (1..count) /\ IsFiniteSet(1..count)
    BY <1>1, FS_Interval
  <2>2. IsFiniteSet(J)
    BY <2>1, FS_Subset
  <2>3. f \in [J -> Nat] /\ \A i, j \in J : f[i] = f[j] => i = j
    BY <1>1, <2>1
  <2>4. ASSUME NEW x PROVE x \in C <=> \E i \in J : x = f[i]
    <3>1. ASSUME x \in C PROVE \E i \in J : x = f[i]
      <4>1. x - old \in 1..count /\ x = old + (x - old)  BY <1>1, <3>1
      <4>2. atom \in Range(named[x - old])  BY <1>1, <3>1, <4>1
      <4>3. x - old \in J  BY <1>1, <4>1, <4>2
      <4> QED  BY <4>1, <4>3
    <3>2. ASSUME NEW i \in J, x = f[i] PROVE x \in C
      <4>1. i \in 1..count /\ x = old + i  BY <2>1, <3>2
      <4>2. x \in created  BY <1>1, <4>1
      <4>3. tokens'[x] = named[i]  BY <1>1, <4>1
      <4> QED  BY <4>2, <4>3
    <3> QED  BY <3>1, <3>2
  <2> HIDE DEF J, C, f
  <2> QED  BY <2>2, <2>3, <2>4, ImageCardinality
<1> HIDE DEF A, B, C, J, created
<1>10. Cardinality((A \ B) \cup C) = Cardinality(A) - Cardinality(B) + Cardinality(C)
       /\ Cardinality(C) \in Nat
  BY <1>3, <1>8, <1>9, ReplacedCardinality
<1> QED  BY <1>3, <1>4, <1>5, <1>6, <1>7, <1>9, <1>10 DEF named

LEMMA DegreeMeans ==
    ASSUME NEW lists, IsFiniteSet(DOMAIN lists), NEW atom
    PROVE  /\ DegreeIn(atom, lists) \in Nat
           /\ atom \in AtomsOf(lists) <=> DegreeIn(atom, lists) # 0
<1> DEFINE holders == {i \in DOMAIN lists : atom \in Range(lists[i])}
<1>1. holders \in SUBSET DOMAIN lists /\ (atom \in AtomsOf(lists) <=> holders # {})
  BY DEF AtomsOf
<1>2. DegreeIn(atom, lists) = Cardinality(holders)
  BY DEF DegreeIn
<1> HIDE DEF holders
<1>3. IsFiniteSet(holders)
  BY <1>1, FS_Subset
<1> QED  BY <1>1, <1>2, <1>3, FS_CardinalityType, FS_EmptySet

\* The counter of an atom is its degree, zero when there is none.
LEMMA DegreesKnown ==
    ASSUME ~HasMultipleHistories, SystemSound, CountersSound, NEW atom
    PROVE  /\ CurrentDegree(atom) = DegreeIn(atom, FinalState)
           /\ CurrentDegree(atom) \in Nat
           /\ atom \in DOMAIN atomDegrees <=> CurrentDegree(atom) # 0
<1>1. /\ DegreeIn(atom, FinalState) \in Nat
      /\ atom \in AtomsOf(FinalState) <=> DegreeIn(atom, FinalState) # 0
  BY LiveTokensMean
<1>2. /\ DOMAIN atomDegrees = AtomsOf(FinalState)
      /\ \A a \in DOMAIN atomDegrees : atomDegrees[a] = DegreeIn(a, FinalState)
  BY DEF CountersSound, CountersAgree
<1> QED  BY <1>1, <1>2 DEF CurrentDegree

LEMMA InitCounters ==
    ASSUME SteadyUse, Init
    PROVE  CountersSound
<1>1. PICK state \in InitialStates :
        /\ tokens = state
        /\ atomDegrees = IF HasMultipleHistories THEN [a \in {} |-> 0]
                         ELSE [a \in AtomsOf(state) |-> DegreeIn(a, state)]
  BY DEF Init
<1>2. destroyedTokenCount = 0
  BY DEF Init
<1>3. HasMultipleHistories => DOMAIN atomDegrees = {}
  BY <1>1
<1>4. ASSUME ~HasMultipleHistories
      PROVE  /\ Len(tokens) - destroyedTokenCount = Cardinality(LiveTokens)
             /\ DOMAIN atomDegrees = AtomsOf(FinalState)
             /\ \A a \in DOMAIN atomDegrees : atomDegrees[a] = DegreeIn(a, FinalState)
  <2>1. SystemSound  BY InitSound
  <2>2. Len(tokens) \in Nat /\ DOMAIN tokens = 1..Len(tokens) /\ Len(tokens) = Len(creatorEvents)
    BY <2>1, TokensDomain, LiveTokensMean DEF SystemSound
  <2>3. PICK count \in {Len(initial) : initial \in InitialStates} :
          creatorEvents = [i \in 1..count |-> 1] /\ destroyerEventsCount = [i \in 1..count |-> 0]
    BY DEF Init, Graph!Init
  <2>4. count \in Nat  BY RuleListAssumption
  <2>5. \A id \in DOMAIN tokens : destroyerEventsCount[id] = 0
    BY <2>2, <2>3, <2>4
  <2>6. LiveTokens = DOMAIN tokens
    <3>1. MaxDestroyerEvents = 1  BY <1>4, SingleDestroyer DEF SingleHistory
    <3>2. \A id \in DOMAIN tokens : destroyerEventsCount[id] < MaxDestroyerEvents
      BY <2>5, <3>1
    <3> QED  BY <3>2 DEF LiveTokens
  <2>7. DOMAIN FinalState = DOMAIN state /\ \A id \in DOMAIN state : FinalState[id] = state[id]
    BY <1>1, <2>6 DEF FinalState
  <2>8. AtomsOf(FinalState) = AtomsOf(state)
    BY <2>7 DEF AtomsOf
  <2>9. ASSUME NEW a PROVE DegreeIn(a, FinalState) = DegreeIn(a, state)
    <3>1. {i \in DOMAIN FinalState : a \in Range(FinalState[i])}
            = {i \in DOMAIN state : a \in Range(state[i])}
      BY <2>7
    <3> QED  BY <3>1 DEF DegreeIn
  <2>10. Cardinality(LiveTokens) = Len(tokens)
    <3> DEFINE size == Len(tokens)
    <3>1. 1 \in Int /\ size \in Int /\ size - 1 + 1 = size /\ (1 > size => size = 0)
      BY <2>2
    <3> HIDE DEF size
    <3>2. Cardinality(1..size) = IF 1 > size THEN 0 ELSE size - 1 + 1
      BY <3>1, FS_Interval
    <3>3. Cardinality(1..size) = size
      BY <3>1, <3>2
    <3> QED  BY <2>2, <2>6, <3>3 DEF size
  <2> QED  BY <1>1, <1>2, <1>4, <2>2, <2>8, <2>9, <2>10
<1> QED  BY <1>2, <1>3, <1>4 DEF CountersSound, CountersAgree

LEMMA OtherStepsKeepCounters ==
    ASSUME CountersSound, UNCHANGED <<graphVars, tokens, atomDegrees, destroyedTokenCount>>
    PROVE  CountersSound'
<1>1. LiveTokens' = LiveTokens /\ FinalState' = FinalState
  BY DEF LiveTokens, FinalState, graphVars
<1> QED  BY <1>1 DEF CountersSound, CountersAgree

\* In a single history an event updates both counters.
LEMMA EventUpdatesCounters ==
    ASSUME SingleHistory, NEW match \in matches, Instantiate(match)
    PROVE  /\ destroyedTokenCount' = destroyedTokenCount + Len(match.inputTokens)
           /\ atomDegrees' = UpdatedDegrees(InputAtoms(match), NamedOutputs(ExplicitOutputs(match)))
           /\ FinalStateLimit(InputAtoms(match), ExplicitOutputs(match)) = "NotTerminated"
<1>1. MaxDestroyerEvents = 1 /\ Disabled # 1
  BY SingleDestroyer, LimitsAssumption
<1>2. destroyedTokenCount' = destroyedTokenCount + Len(match.inputTokens)
  BY <1>1 DEF Instantiate, ForgetDestroyed
<1>3. ~HasMultipleHistories
  BY DEF SingleHistory
<1> QED  BY <1>1, <1>2, <1>3 DEF Instantiate

LEMMA EventKeepsCounters ==
    ASSUME SteadyUse, SystemSound, AtomsSound, CountersSound,
           NEW match \in matches, Instantiate(match)
    PROVE  CountersSound'
<1> DEFINE named == NamedOutputs(ExplicitOutputs(match))
           removed == InputAtoms(match)
           ids == Range(match.inputTokens)
           count == Len(named)
           created == (Len(tokens) + 1)..(Len(tokens) + count)
           Degree(atom) == CurrentDegree(atom) - DegreeIn(atom, removed) + DegreeIn(atom, named)
           all == DOMAIN atomDegrees \cup AtomsOf(removed) \cup AtomsOf(named)
<1>1. CASE HasMultipleHistories
  <2>1. MaxDestroyerEvents > 1  BY <1>1 DEF HasMultipleHistories
  <2>2. destroyedTokenCount' = destroyedTokenCount /\ atomDegrees' = atomDegrees
    BY <1>1, <2>1 DEF Instantiate, ForgetDestroyed
  <2> QED  BY <1>1, <2>2 DEF CountersSound, CountersAgree, HasMultipleHistories
<1>2. CASE ~HasMultipleHistories
  <2>1. SingleHistory
    BY <1>2 DEF SingleHistory
  <2>2. /\ destroyedTokenCount' = destroyedTokenCount + Len(match.inputTokens)
        /\ atomDegrees' = UpdatedDegrees(removed, named)
    BY <2>1, EventUpdatesCounters
  <2>3. /\ count \in Nat /\ Len(tokens) \in Nat /\ ids \in SUBSET LiveTokens
        /\ created \cap LiveTokens = {} /\ LiveTokens' = (LiveTokens \ ids) \cup created
        /\ IsFiniteSet(created) /\ Cardinality(created) = count
    BY <2>1, EventReplacesTokens
  <2>4. DOMAIN named = 1..count /\ Len(tokens') = Len(tokens) + count
    BY EventTokens
  <2>5. IsFiniteSet(LiveTokens)  BY LiveTokensMean
  <2>6. Cardinality(ids) = Len(match.inputTokens) /\ IsFiniteSet(DOMAIN removed)
    <3>1. IsFiniteSet(ids) /\ Cardinality(ids) = Len(match.inputTokens)
      BY DegreeOfInputs
    <3>2. DOMAIN removed = DOMAIN match.inputTokens
      BY DEF InputAtoms
    <3>3. DOMAIN match.inputTokens = 1..Len(match.inputTokens) /\ Len(match.inputTokens) \in Nat
      BY <3>1, InputsOfMatch, FS_CardinalityType DEF SystemSound
    <3> DEFINE size == Len(match.inputTokens)
    <3>4. 1 \in Int /\ size \in Int  BY <3>3
    <3> HIDE DEF size
    <3>5. IsFiniteSet(1..size)  BY <3>4, FS_Interval
    <3> QED  BY <3>1, <3>2, <3>3, <3>5 DEF size
  <2>7. IsFiniteSet(DOMAIN named)
    <3>1. 1 \in Int /\ count \in Int  BY <2>3
    <3> HIDE DEF count
    <3>2. IsFiniteSet(1..count)  BY <3>1, FS_Interval
    <3> QED  BY <2>4, <3>2
  <2>8. \A atom : /\ DegreeIn(atom, FinalState') = Degree(atom)
                  /\ DegreeIn(atom, named) \in Nat /\ CurrentDegree(atom) \in Nat
                  /\ atom \in DOMAIN atomDegrees <=> CurrentDegree(atom) # 0
                  /\ atom \in AtomsOf(named) <=> DegreeIn(atom, named) # 0
                  /\ DegreeIn(atom, removed) \in Nat
                  /\ atom \in AtomsOf(removed) <=> DegreeIn(atom, removed) # 0
    BY <1>2, <2>1, <2>6, <2>7, DegreeAfterEvent, DegreesKnown, DegreeMeans
  <2> HIDE DEF named, removed, ids, count, created
  <2>9. /\ IsFiniteSet(LiveTokens')
        /\ Cardinality(LiveTokens') = Cardinality(LiveTokens) - Cardinality(ids) + count
        /\ Cardinality(LiveTokens) \in Nat /\ Cardinality(ids) \in Nat
    <3> DEFINE live == LiveTokens
    <3>1. IsFiniteSet(live) /\ ids \in SUBSET live /\ IsFiniteSet(created) /\ created \cap live = {}
      BY <2>3, <2>5
    <3> HIDE DEF live
    <3>2. /\ IsFiniteSet((live \ ids) \cup created)
          /\ Cardinality((live \ ids) \cup created)
               = Cardinality(live) - Cardinality(ids) + Cardinality(created)
          /\ Cardinality(live) \in Nat /\ Cardinality(ids) \in Nat
      BY <3>1, ReplacedCardinality
    <3>3. LiveTokens' = (live \ ids) \cup created /\ Cardinality(created) = count
      BY <2>3 DEF live
    <3> QED  BY <3>2, <3>3 DEF live
  <2>10. Len(tokens') - destroyedTokenCount' = Cardinality(LiveTokens')
         /\ destroyedTokenCount' \in Nat
    <3>1. Len(tokens) - destroyedTokenCount = Cardinality(LiveTokens) /\ destroyedTokenCount \in Nat
      BY <1>2 DEF CountersSound, CountersAgree
    <3>2. /\ destroyedTokenCount' = destroyedTokenCount + Cardinality(ids)
          /\ Len(tokens') = Len(tokens) + count /\ count \in Nat /\ Len(tokens) \in Nat
      BY <2>2, <2>3, <2>4, <2>6
    <3> DEFINE size == Len(tokens)
               used == Cardinality(ids)
               live == Cardinality(LiveTokens)
    <3>3. /\ size - destroyedTokenCount = live /\ size \in Nat /\ used \in Nat /\ live \in Nat
          /\ Len(tokens') = size + count /\ destroyedTokenCount' = destroyedTokenCount + used
          /\ Cardinality(LiveTokens') = live - used + count /\ count \in Nat
          /\ destroyedTokenCount \in Nat
      BY <2>9, <3>1, <3>2
    <3> HIDE DEF size, used, live
    <3>4. (size + count) - (destroyedTokenCount + used) = live - used + count
          /\ destroyedTokenCount + used \in Nat
      BY <3>3
    <3> QED  BY <3>3, <3>4
  <2>11. /\ DOMAIN atomDegrees' = {a \in all : Degree(a) # 0}
         /\ \A a \in DOMAIN atomDegrees' : atomDegrees'[a] = Degree(a)
    <3>1. atomDegrees' = [a \in {b \in all : Degree(b) # 0} |-> Degree(a)]
      BY <2>2 DEF UpdatedDegrees
    <3> HIDE DEF Degree, all
    <3> QED  BY <3>1
  <2>12. DOMAIN FinalState' = LiveTokens'
    BY DEF FinalState
  <2>13. \A a : a \in AtomsOf(FinalState') <=> DegreeIn(a, FinalState') # 0
    BY <2>9, <2>12, DegreeMeans
  <2>14. \A a : a \in AtomsOf(FinalState') <=> a \in all /\ Degree(a) # 0
    <3> SUFFICES ASSUME NEW a, Degree(a) # 0 PROVE a \in all
      BY <2>8, <2>13
    <3>1. CurrentDegree(a) # 0 \/ DegreeIn(a, removed) # 0 \/ DegreeIn(a, named) # 0
      OBVIOUS
    <3> QED  BY <2>8, <3>1
  <2>15. DOMAIN atomDegrees' = AtomsOf(FinalState')
    <3> HIDE DEF Degree, all
    <3> QED  BY <2>11, <2>14
  <2>16. \A a \in DOMAIN atomDegrees' : atomDegrees'[a] = DegreeIn(a, FinalState')
    <3> HIDE DEF Degree, all
    <3> QED  BY <2>8, <2>11
  <2>17. HasMultipleHistories' = HasMultipleHistories
    BY DEF HasMultipleHistories
  <2> QED  BY <1>2, <2>10, <2>15, <2>16, <2>17 DEF CountersSound, CountersAgree
<1> QED  BY <1>1, <1>2

LEMMA CountersStaySound ==
    ASSUME SteadyUse, RulesNameKnownAtoms
    PROVE  Spec => [](SystemSound /\ AtomsSound /\ CountersSound)
<1>1. Init => SystemSound /\ AtomsSound /\ CountersSound
  BY InitSound, InitAtoms, InitCounters
<1>2. ASSUME SystemSound, AtomsSound, CountersSound, [Next]_vars
      PROVE  (SystemSound /\ AtomsSound /\ CountersSound)'
  <2>1. SystemSound' /\ AtomsSound'
    BY <1>2, StepSound, StepKeepsAtoms
  <2>2. CASE \E match \in matches : Instantiate(match)
    BY <1>2, <2>1, <2>2, EventKeepsCounters
  <2>3. CASE UNCHANGED <<graphVars, tokens, atomDegrees, destroyedTokenCount>>
    BY <1>2, <2>1, <2>3, OtherStepsKeepCounters
  <2> QED  BY <1>2, <2>2, <2>3, OtherSteps
<1> QED  BY <1>1, <1>2, PTL DEF Spec

\* In a single history the counters of the tokens and of the atoms, which events
\* update by differences, are those of the tokens that are left.
THEOREM CountersAlwaysAgree ==
    ASSUME SteadyUse, RulesNameKnownAtoms
    PROVE  Spec => []CountersAgree
<1>1. SystemSound /\ AtomsSound /\ CountersSound => CountersAgree
  BY DEF CountersSound
<1> QED  BY <1>1, CountersStaySound, PTL

-----------------------------------------------------------------------------
(* The limits of the final state.                                          *)

StepSpecKnown == stepSpec \in StepSpecs \cup {NoSteps, AllSteps}

LEMMA LimitsAreNumbers ==
    ASSUME StepSpecKnown
    PROVE  stepSpec.maxFinalAtoms \in Nat /\ stepSpec.maxFinalTokens \in Nat
           /\ stepSpec.maxFinalAtomDegree \in Nat
BY LimitsAssumption DEF StepSpecKnown, NoSteps, AllSteps

LEMMA StepKeepsStepSpec ==
    ASSUME StepSpecKnown, [Next]_vars
    PROVE  StepSpecKnown'
<1>1. ASSUME NEW spec \in StepSpecs, Replace(spec) PROVE StepSpecKnown'
  BY <1>1 DEF Replace, UpdateStepSpec, StepSpecKnown
<1>2. ReplaceOnce => StepSpecKnown'
  BY DEF ReplaceOnce, UpdateStepSpec, StepSpecKnown
<1>3. ASSUME NEW match \in matches,
             StopAtFinalStateLimit(match) \/ RunOutOfAtoms(match) \/ Instantiate(match)
      PROVE  stepSpec' = stepSpec
  BY <1>3 DEF StopAtFinalStateLimit, RunOutOfAtoms, Instantiate
<1>4. \/ StopAtMaxEvents \/ Index \/ Abort \/ StopWithoutMatches
      \/ MaxCompleteGeneration \/ UNCHANGED vars
      => stepSpec' = stepSpec
  BY DEF StopAtMaxEvents, Index, Abort, StopWithoutMatches, MaxCompleteGeneration, vars
<1>5. stepSpec' = stepSpec => StepSpecKnown'
  BY DEF StepSpecKnown
<1> QED  BY <1>1, <1>2, <1>3, <1>4, <1>5 DEF Next

\* Naming keeps the degrees, as different atoms have different names.
LEMMA NamedDegrees ==
    ASSUME nextAtom \in Nat, NEW explicit \in Seq(Seq(Int)),
           \A atom \in AtomsOf(explicit) : atom < 0 \/ atom \in 1..nextAtom,
           NEW pattern \in NewPatterns(explicit) \cup 1..nextAtom
    PROVE  /\ DegreeIn(FinalName(explicit, pattern), NamedOutputs(explicit))
                = DegreeIn(pattern, explicit)
           /\ DegreeIn(pattern, explicit) \in Nat
           /\ pattern \in AtomsOf(explicit) <=> DegreeIn(pattern, explicit) # 0
<1> DEFINE named == NamedOutputs(explicit)
           name == FinalName(explicit, pattern)
           last == nextAtom + Cardinality(NewPatterns(explicit))
           all == NewPatterns(explicit) \cup 1..nextAtom
<1>1. /\ DOMAIN named = DOMAIN explicit
      /\ \A i \in DOMAIN explicit : /\ DOMAIN named[i] = DOMAIN explicit[i]
                                    /\ \A p \in DOMAIN explicit[i] :
                                         named[i][p] = FinalName(explicit, explicit[i][p])
      /\ AtomsOf(explicit) \subseteq all
      /\ \A a, b \in all : FinalName(explicit, a) = FinalName(explicit, b) => a = b
  <2> HIDE DEF last
  <2>1. last = nextAtom + Cardinality(NewPatterns(explicit))  BY DEF last
  <2> QED  BY <2>1, NamedOutputsMean
<1> HIDE DEF named, all
<1>2. ASSUME NEW i \in DOMAIN explicit
      PROVE  name \in Range(named[i]) <=> pattern \in Range(explicit[i])
  <2>1. \A p \in DOMAIN explicit[i] : explicit[i][p] \in all
    BY <1>1 DEF AtomsOf, Range
  <2>2. pattern \in all
    BY DEF all
  <2>3. \A p \in DOMAIN explicit[i] : named[i][p] = name <=> explicit[i][p] = pattern
    BY <1>1, <2>1, <2>2
  <2> HIDE DEF name
  <2>4. name \in Range(named[i]) <=> \E p \in DOMAIN explicit[i] : named[i][p] = name
    BY <1>1 DEF Range
  <2>5. pattern \in Range(explicit[i]) <=> \E p \in DOMAIN explicit[i] : explicit[i][p] = pattern
    BY DEF Range
  <2> QED  BY <2>3, <2>4, <2>5
<1> HIDE DEF name
<1>3. {i \in DOMAIN named : name \in Range(named[i])}
        = {i \in DOMAIN explicit : pattern \in Range(explicit[i])}
  BY <1>1, <1>2
<1>4. DegreeIn(name, named) = DegreeIn(pattern, explicit)
  BY <1>3 DEF DegreeIn
<1>5. IsFiniteSet(DOMAIN explicit)
  <2> DEFINE size == Len(explicit)
  <2>1. 1 \in Int /\ size \in Int /\ DOMAIN explicit = 1..size  OBVIOUS
  <2> HIDE DEF size
  <2>2. IsFiniteSet(1..size)  BY <2>1, FS_Interval
  <2> QED  BY <2>1, <2>2
<1> QED  BY <1>4, <1>5, DegreeMeans DEF name, named

\* Atoms that are not yet counted are in no token.
LEMMA UncountedAtoms ==
    ASSUME SystemSound, AtomsSound, CountersSound, ~HasMultipleHistories,
           NEW match \in matches, NEW atom, atom \notin 1..nextAtom
    PROVE  /\ DegreeIn(atom, FinalState) = 0 /\ CurrentDegree(atom) = 0
           /\ DegreeIn(atom, InputAtoms(match)) = 0
<1>1. ASSUME NEW id \in DOMAIN tokens PROVE atom \notin Range(tokens[id])
  <2> DEFINE S == 1..nextAtom
  <2>1. tokens[id] \in Seq(S)  BY DEF AtomsSound
  <2> HIDE DEF S
  <2>2. Range(tokens[id]) \subseteq S  BY <2>1 DEF Range
  <2> QED  BY <2>2 DEF S
<1>2. atom \notin AtomsOf(FinalState)
  BY <1>1 DEF AtomsOf, FinalState, LiveTokens
<1>3. DegreeIn(atom, FinalState) = 0
  BY <1>2, LiveTokensMean
<1>4. {i \in DOMAIN InputAtoms(match) : atom \in Range(InputAtoms(match)[i])} = {}
  <2>1. atom \notin AtomsOf(InputAtoms(match))
    BY InputAtomsMean
  <2> QED  BY <2>1 DEF AtomsOf
<1>5. DegreeIn(atom, InputAtoms(match)) = 0
  BY <1>4, FS_EmptySet DEF DegreeIn
<1> QED  BY <1>3, <1>5, DegreesKnown

\* What the limits are compared with before there are names is what the degrees
\* are afterwards.
LEMMA PatternDegrees ==
    ASSUME SingleHistory, SystemSound, AtomsSound, CountersSound,
           NEW match \in matches, Instantiate(match),
           NEW pattern \in NewPatterns(ExplicitOutputs(match)) \cup 1..nextAtom
    PROVE  LET explicit == ExplicitOutputs(match)
           IN  /\ DegreeIn(FinalName(explicit, pattern), FinalState')
                    = CurrentDegree(pattern)
                        + (DegreeIn(pattern, explicit) - DegreeIn(pattern, InputAtoms(match)))
               /\ DegreeIn(pattern, explicit) \in Nat /\ CurrentDegree(pattern) \in Nat
               /\ DegreeIn(pattern, InputAtoms(match)) \in Nat
               /\ pattern \in AtomsOf(explicit) <=> DegreeIn(pattern, explicit) # 0
               /\ pattern \in AtomsOf(InputAtoms(match))
                    <=> DegreeIn(pattern, InputAtoms(match)) # 0
<1> DEFINE explicit == ExplicitOutputs(match)
           named == NamedOutputs(explicit)
           inputs == InputAtoms(match)
           name == FinalName(explicit, pattern)
<1>1. /\ explicit \in Seq(Seq(Int)) /\ nextAtom \in Nat
      /\ \A atom \in AtomsOf(explicit) : atom < 0 \/ atom \in 1..nextAtom
      /\ nextAtom' = nextAtom + Cardinality(NewPatterns(explicit))
  BY EventTokens, AtomTypes
<1>2. ~HasMultipleHistories
  BY DEF SingleHistory
<1>3. /\ DegreeIn(name, named) = DegreeIn(pattern, explicit)
      /\ DegreeIn(pattern, explicit) \in Nat
      /\ pattern \in AtomsOf(explicit) <=> DegreeIn(pattern, explicit) # 0
  <2> HIDE DEF explicit
  <2> QED  BY <1>1, NamedDegrees DEF explicit
<1>4. /\ CurrentDegree(pattern) = DegreeIn(pattern, FinalState)
      /\ CurrentDegree(pattern) \in Nat /\ DegreeIn(pattern, inputs) \in Nat
  BY <1>2, DegreesKnown, DegreeOfInputs
<1>5. pattern \in AtomsOf(inputs) <=> DegreeIn(pattern, inputs) # 0
  <2>1. IsFiniteSet(DOMAIN inputs)
    <3> DEFINE size == Len(inputs)
    <3>1. 1 \in Int /\ size \in Int /\ DOMAIN inputs = 1..size
      <4>1. inputs \in Seq(Seq(Int))  BY InputAtomsMean
      <4> HIDE DEF inputs
      <4> QED  BY <4>1
    <3> HIDE DEF size, inputs
    <3>2. IsFiniteSet(1..size)  BY <3>1, FS_Interval
    <3> QED  BY <3>1, <3>2
  <2> QED  BY <2>1, DegreeMeans
<1>6. DegreeIn(name, FinalState') = DegreeIn(name, FinalState)
        - DegreeIn(name, inputs) + DegreeIn(name, named)
  BY DegreeAfterEvent
<1>7. CASE pattern \in 1..nextAtom
  <2>1. name = pattern  BY <1>7 DEF FinalName
  <2> HIDE DEF explicit, named, inputs, name
  <2> QED  BY <1>3, <1>4, <1>5, <1>6, <2>1 DEF explicit, inputs, name
<1>8. CASE pattern \in NewPatterns(explicit)
  <2>1. name \in (nextAtom + 1)..nextAtom'
    <3> HIDE DEF explicit
    <3> QED  BY <1>1, <1>8, NamedOutputsMean
  <2>2. nextAtom' \in Nat  BY EventTokens
  <2>3. name \notin 1..nextAtom
    <3> HIDE DEF name
    <3> QED  BY <1>1, <2>1, <2>2
  <2>4. pattern < 0 /\ pattern \notin 1..nextAtom
    BY <1>1, <1>8 DEF NewPatterns
  <2>5. DegreeIn(name, FinalState) = 0 /\ DegreeIn(name, inputs) = 0
    BY <1>2, <2>3, UncountedAtoms
  <2>6. CurrentDegree(pattern) = 0 /\ DegreeIn(pattern, inputs) = 0
    BY <1>2, <2>4, UncountedAtoms
  <2> HIDE DEF explicit, named, inputs, name
  <2> QED  BY <1>3, <1>4, <1>5, <1>6, <2>5, <2>6 DEF explicit, inputs, name
<1> QED  BY <1>7, <1>8

\* Every atom afterwards is one that was counted or the name of a pattern.
LEMMA AtomsHaveNames ==
    ASSUME SystemSound, AtomsSound, NEW match \in matches, Instantiate(match),
           NEW id \in DOMAIN tokens', NEW atom \in Range(tokens'[id])
    PROVE  LET explicit == ExplicitOutputs(match)
               named == NamedOutputs(explicit)
           IN  /\ \E pattern \in NewPatterns(explicit) \cup 1..nextAtom :
                    atom = FinalName(explicit, pattern)
               /\ id \in 1..Len(tokens) =>
                    atom \in 1..nextAtom /\ atom = FinalName(explicit, atom)
               /\ id \notin 1..Len(tokens) =>
                    \E pattern \in AtomsOf(explicit) : /\ atom = FinalName(explicit, pattern)
                                                       /\ pattern \in NewPatterns(explicit) \cup 1..nextAtom
<1> DEFINE explicit == ExplicitOutputs(match)
           named == NamedOutputs(explicit)
           old == Len(tokens)
           count == Len(named)
           all == NewPatterns(explicit) \cup 1..nextAtom
<1>1. /\ explicit \in Seq(Seq(Int)) /\ nextAtom \in Nat
      /\ \A a \in AtomsOf(explicit) : a < 0 \/ a \in 1..nextAtom
      /\ nextAtom' = nextAtom + Cardinality(NewPatterns(explicit))
      /\ old \in Nat /\ count \in Nat /\ DOMAIN tokens = 1..old /\ DOMAIN tokens' = 1..(old + count)
      /\ \A i \in 1..old : tokens'[i] = tokens[i]
      /\ \A i \in 1..count : tokens'[old + i] = named[i]
      /\ Len(explicit) = count
  BY EventTokens, AtomTypes
<1>2. DOMAIN explicit = 1..count
  <2> HIDE DEF explicit, count
  <2> QED  BY <1>1
<1>3. /\ \A i \in DOMAIN explicit : /\ DOMAIN named[i] = DOMAIN explicit[i]
                                    /\ \A p \in DOMAIN explicit[i] :
                                         named[i][p] = FinalName(explicit, explicit[i][p])
      /\ AtomsOf(explicit) \subseteq all
  <2> HIDE DEF explicit
  <2> QED  BY <1>1, NamedOutputsMean
<1> HIDE DEF named, old, count
<1>4. CASE id \in 1..old
  <2> DEFINE S == 1..nextAtom
  <2>1. tokens[id] \in Seq(S)  BY <1>1, <1>4 DEF AtomsSound
  <2>2. atom \in Range(tokens[id])  BY <1>1, <1>4
  <2> HIDE DEF S
  <2>3. atom \in S  BY <2>1, <2>2 DEF Range
  <2>4. FinalName(explicit, atom) = atom  BY <1>1, <2>3 DEF S, FinalName
  <2> QED  BY <1>4, <2>3, <2>4 DEF S, old
<1>5. CASE id \notin 1..old
  <2>1. id - old \in 1..count /\ id = old + (id - old)
    BY <1>1, <1>5
  <2>2. tokens'[id] = named[id - old]
    BY <1>1, <2>1
  <2> DEFINE i == id - old
  <2>3. i \in DOMAIN explicit /\ atom \in Range(named[i])
    BY <1>2, <2>1, <2>2
  <2> HIDE DEF i, explicit, all
  <2>4. PICK p \in DOMAIN explicit[i] : atom = FinalName(explicit, explicit[i][p])
    BY <1>3, <2>3 DEF Range
  <2>5. explicit[i][p] \in AtomsOf(explicit)
    BY <2>3 DEF AtomsOf, Range
  <2>6. explicit[i][p] \in all  BY <1>3, <2>5
  <2> QED  BY <1>5, <2>4, <2>5, <2>6 DEF old, explicit, all
<1> QED  BY <1>4, <1>5

\* The atoms afterwards are counted by differences too.
LEMMA AtomsCounted ==
    ASSUME SingleHistory, SystemSound, AtomsSound, CountersSound,
           NEW match \in matches, Instantiate(match)
    PROVE  LET inputs == InputAtoms(match)
               outputs == ExplicitOutputs(match)
               touched == AtomsOf(inputs) \cup AtomsOf(outputs)
               Delta(atom) == DegreeIn(atom, outputs) - DegreeIn(atom, inputs)
               created == {a \in touched : CurrentDegree(a) = 0 /\ Delta(a) > 0}
               deleted == {a \in touched : CurrentDegree(a) > 0 /\ CurrentDegree(a) + Delta(a) = 0}
           IN  Cardinality(AtomsOf(FinalState'))
                 = Cardinality(DOMAIN atomDegrees) + Cardinality(created) - Cardinality(deleted)
<1> DEFINE inputs == InputAtoms(match)
           outputs == ExplicitOutputs(match)
           touched == AtomsOf(inputs) \cup AtomsOf(outputs)
           Delta(atom) == DegreeIn(atom, outputs) - DegreeIn(atom, inputs)
           created == {a \in touched : CurrentDegree(a) = 0 /\ Delta(a) > 0}
           deleted == {a \in touched : CurrentDegree(a) > 0 /\ CurrentDegree(a) + Delta(a) = 0}
           all == NewPatterns(outputs) \cup 1..nextAtom
           known == DOMAIN atomDegrees
           kept == (known \ deleted) \cup created
           after == AtomsOf(FinalState')
           names == [pattern \in kept |-> FinalName(outputs, pattern)]
<1>1. /\ outputs \in Seq(Seq(Int)) /\ nextAtom \in Nat
      /\ \A a \in AtomsOf(outputs) : a < 0 \/ a \in 1..nextAtom
      /\ nextAtom' = nextAtom + Cardinality(NewPatterns(outputs))
  BY EventTokens, AtomTypes
<1>2. /\ AtomsOf(outputs) \subseteq all
      /\ \A a, b \in all : FinalName(outputs, a) = FinalName(outputs, b) => a = b
  <2> HIDE DEF outputs
  <2> QED  BY <1>1, NamedOutputsMean
<1>3. AtomsOf(inputs) \subseteq 1..nextAtom
  BY InputAtomsMean
<1>4. touched \subseteq all
  BY <1>2, <1>3
<1>5. \A a : /\ CurrentDegree(a) \in Nat /\ (a \in known <=> CurrentDegree(a) # 0)
             /\ a \notin 1..nextAtom => CurrentDegree(a) = 0
  BY DegreesKnown, UncountedAtoms DEF SingleHistory
<1>6. known \in SUBSET 1..nextAtom
  BY <1>5
<1>7. IsFiniteSet(1..nextAtom) /\ IsFiniteSet(NewPatterns(outputs))
  <2> DEFINE last == nextAtom
  <2>1. 1 \in Int /\ last \in Int  BY <1>1
  <2> HIDE DEF last
  <2>2. IsFiniteSet(1..last)  BY <2>1, FS_Interval
  <2> QED  BY <1>1, <2>2, PatternsAreFinite DEF last
<1>8. IsFiniteSet(all) /\ IsFiniteSet(known)
  <2> DEFINE old == 1..nextAtom
             new == NewPatterns(outputs)
  <2>1. IsFiniteSet(old) /\ IsFiniteSet(new) /\ known \in SUBSET old  BY <1>6, <1>7
  <2> HIDE DEF old, new, known
  <2>2. IsFiniteSet(new \cup old) /\ IsFiniteSet(known)  BY <2>1, FS_Union, FS_Subset
  <2> QED  BY <2>2 DEF old, new
<1>9. \A pattern \in all :
        /\ DegreeIn(FinalName(outputs, pattern), FinalState')
             = CurrentDegree(pattern) + Delta(pattern)
        /\ Delta(pattern) \in Int
        /\ pattern \notin touched => Delta(pattern) = 0
  <2> SUFFICES ASSUME NEW pattern \in all
               PROVE  /\ DegreeIn(FinalName(outputs, pattern), FinalState')
                           = CurrentDegree(pattern) + Delta(pattern)
                      /\ Delta(pattern) \in Int
                      /\ pattern \notin touched => Delta(pattern) = 0
    OBVIOUS
  <2>1. /\ DegreeIn(FinalName(outputs, pattern), FinalState')
             = CurrentDegree(pattern) + Delta(pattern)
        /\ DegreeIn(pattern, outputs) \in Nat /\ DegreeIn(pattern, inputs) \in Nat
        /\ pattern \in AtomsOf(outputs) <=> DegreeIn(pattern, outputs) # 0
        /\ pattern \in AtomsOf(inputs) <=> DegreeIn(pattern, inputs) # 0
    BY PatternDegrees
  <2> HIDE DEF inputs, outputs
  <2> QED  BY <2>1
<1>10. \A x : /\ DegreeIn(x, FinalState') \in Nat
              /\ x \in after <=> DegreeIn(x, FinalState') # 0
  <2>1. DOMAIN FinalState' = LiveTokens'  BY DEF FinalState
  <2>2. IsFiniteSet(LiveTokens')
    <3> DEFINE ids == Range(match.inputTokens)
               first == Len(tokens) + 1
               last == Len(tokens) + Len(NamedOutputs(outputs))
               live == LiveTokens
    <3>1. ids \in SUBSET live /\ LiveTokens' = (live \ ids) \cup first..last
          /\ IsFiniteSet(first..last) /\ IsFiniteSet(live)
      BY EventReplacesTokens, LiveTokensMean
    <3> HIDE DEF ids, first, last, live
    <3>2. IsFiniteSet(live \ ids)  BY <3>1, FS_Subset
    <3>3. IsFiniteSet((live \ ids) \cup first..last)  BY <3>1, <3>2, FS_Union
    <3> QED  BY <3>1, <3>3
  <2> QED  BY <2>1, <2>2, DegreeMeans
<1>11. \A x \in after : \E pattern \in all : x = FinalName(outputs, pattern)
  <2> SUFFICES ASSUME NEW x \in after PROVE \E pattern \in all : x = FinalName(outputs, pattern)
    OBVIOUS
  <2>1. PICK id \in DOMAIN FinalState' : x \in Range(FinalState'[id])
    BY DEF AtomsOf
  <2>2. id \in DOMAIN tokens' /\ FinalState'[id] = tokens'[id]
    BY DEF FinalState, LiveTokens
  <2>3. x \in Range(tokens'[id])
    BY <2>1, <2>2
  <2> QED  BY <2>2, <2>3, AtomsHaveNames
<1> HIDE DEF inputs, outputs, after
<1>12. kept \in SUBSET all /\ created \in SUBSET all /\ deleted \in SUBSET known
       /\ created \cap known = {}
  BY <1>4, <1>5, <1>6
<1>13. \A pattern \in all : pattern \in kept <=> CurrentDegree(pattern) + Delta(pattern) # 0
  <2> SUFFICES ASSUME NEW pattern \in all
               PROVE  pattern \in kept <=> CurrentDegree(pattern) + Delta(pattern) # 0
    OBVIOUS
  <2> DEFINE degree == CurrentDegree(pattern)
             delta == Delta(pattern)
  <2>1. /\ degree \in Nat /\ (pattern \in known <=> degree # 0)
        /\ delta \in Int /\ degree + delta \in Nat /\ (pattern \notin touched => delta = 0)
    BY <1>5, <1>9, <1>10
  <2>2. pattern \in created <=> pattern \in touched /\ degree = 0 /\ delta > 0
    OBVIOUS
  <2>3. pattern \in deleted <=> pattern \in touched /\ degree > 0 /\ degree + delta = 0
    OBVIOUS
  <2> HIDE DEF degree, delta, touched, created, deleted, known, Delta
  <2>4. pattern \in kept <=> degree + delta # 0
    BY <2>1, <2>2, <2>3
  <2> QED  BY <2>4 DEF degree, delta
<1> HIDE DEF created, deleted, known, touched, Delta, all
<1>14. IsFiniteSet(created)
  BY <1>8, <1>12, FS_Subset
<1>15. /\ IsFiniteSet((known \ deleted) \cup created)
       /\ Cardinality((known \ deleted) \cup created)
            = Cardinality(known) - Cardinality(deleted) + Cardinality(created)
       /\ Cardinality(known) \in Nat /\ Cardinality(deleted) \in Nat /\ Cardinality(created) \in Nat
  <2>1. IsFiniteSet(known) /\ deleted \in SUBSET known /\ created \cap known = {}
    BY <1>8, <1>12
  <2> HIDE DEF kept
  <2> QED  BY <2>1, <1>14, ReplacedCardinality
<1>16. ASSUME NEW x PROVE x \in after <=> \E pattern \in kept : x = names[pattern]
  <2>1. ASSUME x \in after PROVE \E pattern \in kept : x = names[pattern]
    <3>1. PICK pattern \in all : x = FinalName(outputs, pattern)
      BY <1>11, <2>1
    <3>2. DegreeIn(x, FinalState') # 0  BY <1>10, <2>1
    <3>3. CurrentDegree(pattern) + Delta(pattern) # 0  BY <1>9, <3>1, <3>2
    <3>4. pattern \in kept  BY <1>13, <3>3
    <3> HIDE DEF kept
    <3> QED  BY <3>1, <3>4
  <2>2. ASSUME NEW pattern \in kept, x = names[pattern] PROVE x \in after
    <3>1. pattern \in all  BY <1>12
    <3>2. CurrentDegree(pattern) + Delta(pattern) # 0  BY <1>13, <3>1
    <3> HIDE DEF kept
    <3>3. x = FinalName(outputs, pattern)  BY <2>2
    <3>4. DegreeIn(x, FinalState') # 0  BY <1>9, <3>1, <3>2, <3>3
    <3> QED  BY <1>10, <3>4
  <2> QED  BY <2>1, <2>2
<1>17. \A a, b \in kept : names[a] = names[b] => a = b
  <2> HIDE DEF kept
  <2>1. \A a \in kept : names[a] = FinalName(outputs, a) /\ a \in all
    BY <1>12
  <2> HIDE DEF names
  <2> QED  BY <1>2, <2>1 DEF all
<1>18. names \in [kept -> after]
  <2> HIDE DEF kept
  <2>1. names = [pattern \in kept |-> names[pattern]]  OBVIOUS
  <2> HIDE DEF names
  <2> QED  BY <1>16, <2>1
<1>19. IsFiniteSet(kept)  BY <1>15
<1> HIDE DEF kept, names
<1>20. Cardinality(after) = Cardinality(kept)
  BY <1>16, <1>17, <1>18, <1>19, ImageCardinality
<1>21. Cardinality(after) = Cardinality(known) + Cardinality(created) - Cardinality(deleted)
  BY <1>15, <1>20 DEF kept
<1> QED  BY <1>21 DEF after, known, created, deleted, touched, Delta, inputs, outputs

LEMMA EventWithinLimits ==
    ASSUME SingleHistory, SystemSound, AtomsSound, CountersSound, StepSpecKnown,
           NEW match \in matches, Instantiate(match)
    PROVE  WithinFinalLimits'
<1> DEFINE inputs == InputAtoms(match)
           outputs == ExplicitOutputs(match)
           touched == AtomsOf(inputs) \cup AtomsOf(outputs)
           Delta(atom) == DegreeIn(atom, outputs) - DegreeIn(atom, inputs)
           created == {a \in touched : CurrentDegree(a) = 0 /\ Delta(a) > 0}
           deleted == {a \in touched : CurrentDegree(a) > 0 /\ CurrentDegree(a) + Delta(a) = 0}
           atomsCount == Cardinality(DOMAIN atomDegrees) + Cardinality(created) - Cardinality(deleted)
           tokensCount == Len(creatorEvents) - destroyedTokenCount - Len(inputs) + Len(outputs)
           all == NewPatterns(outputs) \cup 1..nextAtom
           newest == events'[Len(events')]
<1>1. /\ \A a \in touched : ~(CurrentDegree(a) + Delta(a) > stepSpec.maxFinalAtomDegree)
      /\ ~(atomsCount > stepSpec.maxFinalAtoms)
      /\ ~(tokensCount > stepSpec.maxFinalTokens)
  <2>1. FinalStateLimit(inputs, outputs) = "NotTerminated"
    BY EventUpdatesCounters
  <2> HIDE DEF inputs, outputs
  <2> QED  BY <2>1 DEF FinalStateLimit
<1>2. stepSpec' = stepSpec
  BY DEF Instantiate
<1>3. /\ stepSpec.maxFinalAtoms \in Nat /\ stepSpec.maxFinalTokens \in Nat
      /\ stepSpec.maxFinalAtomDegree \in Nat
  BY LimitsAreNumbers
<1>4. IsFiniteSet(LiveTokens') /\ Cardinality(LiveTokens') = tokensCount
  <2> DEFINE ids == Range(match.inputTokens)
             count == Len(NamedOutputs(outputs))
             added == (Len(tokens) + 1)..(Len(tokens) + count)
             live == LiveTokens
  <2>1. /\ ids \in SUBSET live /\ IsFiniteSet(live) /\ IsFiniteSet(added) /\ added \cap live = {}
    BY EventReplacesTokens, LiveTokensMean
  <2>2. LiveTokens' = (live \ ids) \cup added /\ Cardinality(added) = count
    BY EventReplacesTokens
  <2>3. /\ Cardinality(ids) = Len(inputs) /\ Len(outputs) = count /\ count \in Nat
        /\ Len(tokens) = Len(creatorEvents) /\ Len(tokens) \in Nat
    BY DegreeOfInputs, InputAtomsMean, EventTokens
  <2>4. Len(tokens) - destroyedTokenCount = Cardinality(live) /\ destroyedTokenCount \in Nat
    BY DEF CountersSound, CountersAgree, SingleHistory
  <2> HIDE DEF live, ids, added, count, inputs, outputs
  <2>5. /\ IsFiniteSet((live \ ids) \cup added)
        /\ Cardinality((live \ ids) \cup added)
             = Cardinality(live) - Cardinality(ids) + Cardinality(added)
        /\ Cardinality(live) \in Nat /\ Cardinality(ids) \in Nat
    BY <2>1, ReplacedCardinality
  <2>6. IsFiniteSet(LiveTokens')
        /\ Cardinality(LiveTokens') = Cardinality(live) - Cardinality(ids) + count
    BY <2>2, <2>5
  <2> QED  BY <2>3, <2>4, <2>5, <2>6
<1>5. Cardinality(AtomsOf(FinalState')) = atomsCount
  BY AtomsCounted
<1>6. IsFiniteSet(AtomsOf(FinalState')) /\ Cardinality(AtomsOf(FinalState')) \in Nat
  <2> DEFINE last == nextAtom'
             after == AtomsOf(FinalState')
  <2>1. last \in Nat /\ \A id \in DOMAIN tokens' : tokens'[id] \in Seq(1..last)
    <3>1. AtomsSound'  BY EventKeepsAtoms
    <3> QED  BY <3>1, EventTokens DEF AtomsSound
  <2>2. after \in SUBSET (1..last)
    <3> SUFFICES ASSUME NEW x \in after PROVE x \in 1..last
      OBVIOUS
    <3>1. PICK id \in DOMAIN FinalState' : x \in Range(FinalState'[id])
      BY DEF AtomsOf
    <3>2. id \in DOMAIN tokens' /\ FinalState'[id] = tokens'[id]
      BY DEF FinalState, LiveTokens
    <3> DEFINE S == 1..last
    <3>3. tokens'[id] \in Seq(S) /\ x \in Range(tokens'[id])  BY <2>1, <3>1, <3>2
    <3> HIDE DEF S
    <3>4. x \in S  BY <3>3 DEF Range
    <3> QED  BY <3>4 DEF S
  <2>3. 1 \in Int /\ last \in Int  BY <2>1
  <2> HIDE DEF last, after
  <2>4. IsFiniteSet(1..last)  BY <2>3, FS_Interval
  <2>5. IsFiniteSet(after) /\ Cardinality(after) \in Nat
    BY <2>2, <2>4, FS_Subset, FS_CardinalityType
  <2> QED  BY <2>5 DEF after
<1>7. Cardinality(AtomsOf(FinalState')) <= stepSpec.maxFinalAtoms
  <2> DEFINE atoms == Cardinality(AtomsOf(FinalState'))
  <2>1. atoms \in Nat /\ ~(atoms > stepSpec.maxFinalAtoms)
    BY <1>1, <1>5, <1>6
  <2> HIDE DEF atoms
  <2>2. atoms <= stepSpec.maxFinalAtoms  BY <1>3, <2>1
  <2> QED  BY <2>2 DEF atoms
<1>8. Cardinality(LiveTokens') <= stepSpec.maxFinalTokens
  <2> DEFINE live == Cardinality(LiveTokens')
  <2>1. live \in Nat  BY <1>4, FS_CardinalityType
  <2>2. ~(live > stepSpec.maxFinalTokens)  BY <1>1, <1>4
  <2> HIDE DEF live
  <2>3. live <= stepSpec.maxFinalTokens  BY <1>3, <2>1, <2>2
  <2> QED  BY <2>3 DEF live
<1>9. ASSUME NEW pattern \in touched, pattern \in all
      PROVE  DegreeIn(FinalName(outputs, pattern), FinalState') <= stepSpec.maxFinalAtomDegree
  <2>1. /\ DegreeIn(FinalName(outputs, pattern), FinalState')
             = CurrentDegree(pattern) + Delta(pattern)
        /\ DegreeIn(pattern, outputs) \in Nat /\ DegreeIn(pattern, inputs) \in Nat
        /\ CurrentDegree(pattern) \in Nat
    BY <1>9, PatternDegrees
  <2>2. ~(CurrentDegree(pattern) + Delta(pattern) > stepSpec.maxFinalAtomDegree)
    BY <1>1
  <2> HIDE DEF touched, inputs, outputs
  <2> QED  BY <1>3, <2>1, <2>2
<1>10. ASSUME NEW id \in Range(newest.inputTokens) \cup Range(newest.outputTokens),
              NEW atom \in Range(tokens'[id])
       PROVE  DegreeIn(atom, FinalState') <= stepSpec.maxFinalAtomDegree
  <2> DEFINE old == Len(tokens)
             count == Len(NamedOutputs(outputs))
  <2>1. /\ newest.inputTokens = match.inputTokens
        /\ newest.outputTokens = [i \in 1..count |-> old + i]
        /\ old \in Nat /\ count \in Nat /\ DOMAIN tokens = 1..old
        /\ DOMAIN tokens' = 1..(old + count)
        /\ \A any \in 1..old : tokens'[any] = tokens[any]
    BY EventTokens
  <2>2. CASE id \in Range(match.inputTokens)
    <3>1. id \in LiveTokens  BY <2>2, EventReplacesTokens
    <3>2. id \in 1..old /\ id \in DOMAIN tokens'  BY <2>1, <3>1 DEF LiveTokens
    <3>3. PICK i \in DOMAIN match.inputTokens : id = match.inputTokens[i]
      BY <2>2 DEF Range
    <3>4. atom \in Range(inputs[i]) /\ i \in DOMAIN inputs
      BY <2>1, <3>2, <3>3 DEF InputAtoms
    <3>5. atom \in touched  BY <3>4 DEF AtomsOf
    <3>6. atom \in 1..nextAtom /\ atom = FinalName(outputs, atom)
      BY <3>2, AtomsHaveNames
    <3> HIDE DEF touched, outputs
    <3> QED  BY <1>9, <3>5, <3>6
  <2>3. CASE id \in Range(newest.outputTokens)
    <3>1. \E i \in 1..count : id = old + i
      <4> HIDE DEF newest, count, old
      <4> QED  BY <2>1, <2>3 DEF Range
    <3>2. id \in DOMAIN tokens' /\ id \notin 1..old
      <4> HIDE DEF count, old
      <4> QED  BY <2>1, <3>1
    <3>3. PICK pattern \in AtomsOf(outputs) : atom = FinalName(outputs, pattern) /\ pattern \in all
      BY <3>2, AtomsHaveNames
    <3> HIDE DEF outputs
    <3> QED  BY <1>9, <3>3
  <2> HIDE DEF newest
  <2> QED  BY <1>10, <2>1, <2>2, <2>3
<1> HIDE DEF newest
<1>11. \A id \in Range(newest.inputTokens) \cup Range(newest.outputTokens) :
         \A atom \in Range(tokens'[id]) :
           DegreeIn(atom, FinalState') <= stepSpec.maxFinalAtomDegree
  BY <1>10
<1> QED  BY <1>2, <1>7, <1>8, <1>11 DEF WithinFinalLimits, newest

\* In a single history no event leaves more atoms or tokens than the limits of the
\* final state allow, nor gives an atom it touches a larger degree, although
\* the limits are looked at before the atoms it names have names.
THEOREM FinalLimitsHold ==
    ASSUME SteadyUse, RulesNameKnownAtoms
    PROVE  Spec => EventsRespectFinalLimits
<1> DEFINE Inv == SystemSound /\ AtomsSound /\ CountersSound
<1>1. Init => StepSpecKnown
  BY DEF Init, StepSpecKnown
<1>2. Inv /\ StepSpecKnown /\ [Next]_vars
        => [~HasMultipleHistories /\ events' # events => WithinFinalLimits']_vars
  <2> SUFFICES ASSUME Inv, StepSpecKnown, [Next]_vars, ~HasMultipleHistories, events' # events
               PROVE  WithinFinalLimits'
    OBVIOUS
  <2>1. PICK match \in matches : Instantiate(match)
    BY OtherSteps DEF graphVars
  <2> QED  BY <2>1, EventWithinLimits DEF SingleHistory
<1>3. StepSpecKnown /\ [Next]_vars => StepSpecKnown'
  BY StepKeepsStepSpec
<1>4. Spec => []Inv
  BY CountersStaySound
<1> HIDE DEF Inv
<1> QED  BY <1>1, <1>2, <1>3, <1>4, PTL DEF Spec, EventsRespectFinalLimits

-----------------------------------------------------------------------------
(* Types.                                                                  *)

ReasonKnown ==
    terminationReason \in Limits \cup {"NotTerminated", "MaxEvents", "MaxGenerationsLocal",
                                       "Complete", "Aborted", "TimeConstrained"}

LEMMA StepKeepsReason ==
    ASSUME ReasonKnown, [Next]_vars
    PROVE  ReasonKnown'
<1>1. ASSUME NEW match \in matches, StopAtFinalStateLimit(match) PROVE ReasonKnown'
  <2>1. terminationReason' = FinalStateLimit(InputAtoms(match), ExplicitOutputs(match))
    BY <1>1 DEF StopAtFinalStateLimit, Return
  <2>2. \A inputs, outputs : FinalStateLimit(inputs, outputs) \in Limits \cup {"NotTerminated"}
    BY DEF FinalStateLimit, Limits
  <2> QED  BY <2>1, <2>2 DEF ReasonKnown
<1>2. ASSUME NEW match \in matches, RunOutOfAtoms(match) PROVE ReasonKnown'
  BY <1>2 DEF RunOutOfAtoms, Return, ReasonKnown
<1>3. ASSUME NEW match \in matches, Instantiate(match) PROVE ReasonKnown'
  BY <1>3 DEF Instantiate, ReasonKnown
<1>4. ASSUME NEW spec \in StepSpecs, Replace(spec) PROVE ReasonKnown'
  BY <1>4 DEF Replace, ReasonKnown
<1>5. ReplaceOnce \/ MaxCompleteGeneration \/ UNCHANGED vars => ReasonKnown'
  BY DEF ReplaceOnce, MaxCompleteGeneration, vars, ReasonKnown
<1>6. StopAtMaxEvents \/ StopWithoutMatches => ReasonKnown'
  BY DEF StopAtMaxEvents, StopWithoutMatches, Return, ReasonKnown
<1>7. Index \/ Abort => ReasonKnown'
  BY DEF Index, Abort, Return, ReasonKnown
<1> QED  BY <1>1, <1>2, <1>3, <1>4, <1>5, <1>6, <1>7 DEF Next

LEMMA TokensTyped ==
    ASSUME SystemSound, AtomsSound
    PROVE  /\ tokens \in Seq(Seq(1..nextAtom)) /\ Len(tokens) = Len(creatorEvents)
           /\ Len(tokens) \in Nat /\ DOMAIN tokens = 1..Len(tokens)
           /\ nextAtom \in 1..LargestAtom
<1> DEFINE S == Seq(1..nextAtom)
<1>1. IsSequence(tokens) /\ Len(tokens) = Len(creatorEvents)
  BY DEF SystemSound, TokensGood
<1>2. \A id \in DOMAIN tokens : tokens[id] \in S
  BY DEF AtomsSound
<1> HIDE DEF S
<1>3. tokens \in Seq(S)
  <2>1. Range(tokens) \subseteq S  BY <1>2 DEF Range
  <2>2. tokens \in Seq(Range(tokens))  BY <1>1 DEF IsSequence
  <2> DEFINE R == Range(tokens)
  <2> HIDE DEF R
  <2> QED  BY <2>1, <2>2, SeqWidens
<1> QED  BY <1>1, <1>3, LiveTokensMean DEF S, AtomsSound

LEMMA DegreesTyped ==
    ASSUME SystemSound, AtomsSound, CountersSound
    PROVE  /\ \A atom \in DOMAIN atomDegrees : atom \in 1..nextAtom /\ atomDegrees[atom] \in Nat \ {0}
           /\ destroyedTokenCount \in 0..Len(tokens)
<1>1. Len(tokens) \in Nat /\ DOMAIN tokens = 1..Len(tokens)
  BY TokensTyped
<1>2. CASE HasMultipleHistories
  BY <1>1, <1>2 DEF CountersSound
<1>3. CASE ~HasMultipleHistories
  <2>1. /\ Len(tokens) - destroyedTokenCount = Cardinality(LiveTokens)
        /\ DOMAIN atomDegrees = AtomsOf(FinalState)
        /\ \A atom \in DOMAIN atomDegrees : atomDegrees[atom] = DegreeIn(atom, FinalState)
        /\ destroyedTokenCount \in Nat
    BY <1>3 DEF CountersSound, CountersAgree
  <2>2. Cardinality(LiveTokens) \in Nat
    BY LiveTokensMean, FS_CardinalityType
  <2>3. destroyedTokenCount \in 0..Len(tokens)
    <3> DEFINE live == Cardinality(LiveTokens)
               size == Len(tokens)
    <3>1. live \in Nat /\ size \in Nat /\ size - destroyedTokenCount = live
          /\ destroyedTokenCount \in Nat
      BY <1>1, <2>1, <2>2
    <3> HIDE DEF live, size
    <3>2. destroyedTokenCount \in 0..size  BY <3>1
    <3> QED  BY <3>2 DEF size
  <2>4. ASSUME NEW atom \in DOMAIN atomDegrees
        PROVE  atom \in 1..nextAtom /\ atomDegrees[atom] \in Nat \ {0}
    <3>1. atom \in AtomsOf(FinalState) /\ atomDegrees[atom] = DegreeIn(atom, FinalState)
      BY <2>1
    <3>2. DegreeIn(atom, FinalState) \in Nat /\ DegreeIn(atom, FinalState) # 0
      BY <3>1, LiveTokensMean
    <3>3. PICK id \in DOMAIN FinalState : atom \in Range(FinalState[id])
      BY <3>1 DEF AtomsOf
    <3>4. id \in DOMAIN tokens /\ FinalState[id] = tokens[id]
      BY DEF FinalState, LiveTokens
    <3> DEFINE S == 1..nextAtom
    <3>5. tokens[id] \in Seq(S) /\ atom \in Range(tokens[id])
      BY <3>3, <3>4 DEF AtomsSound
    <3> HIDE DEF S
    <3>6. atom \in S  BY <3>5 DEF Range
    <3> QED  BY <3>1, <3>2, <3>6 DEF S
  <2> QED  BY <2>3, <2>4
<1> QED  BY <1>2, <1>3

LEMMA MatchesTyped ==
    ASSUME SystemSound, AtomsSound
    PROVE  matches \subseteq Match /\ newMatches \subseteq Match
<1> SUFFICES ASSUME NEW match \in matches \cup newMatches PROVE match \in Match
  OBVIOUS
<1>1. match = [rule |-> match.rule, inputTokens |-> match.inputTokens]
  BY DEF AtomsSound, IsRecord
<1>2. match.rule \in RuleIDs /\ match.inputTokens \in Seq(1..Len(creatorEvents))
  BY InputsOfMatch DEF SystemSound
<1>3. DOMAIN tokens = 1..Len(creatorEvents)
  BY TokensDomain DEF SystemSound
<1> DEFINE rule == match.rule
           inputs == match.inputTokens
           T == Seq(DOMAIN tokens)
<1>4. rule \in RuleIDs /\ inputs \in T /\ match = [rule |-> rule, inputTokens |-> inputs]
  BY <1>1, <1>2, <1>3
<1> HIDE DEF rule, inputs, T
<1>5. match \in [rule : RuleIDs, inputTokens : T]
  BY <1>4
<1> QED  BY <1>5 DEF Match, T

\* Every variable of the system keeps its type.
THEOREM TypeCorrect ==
    ASSUME SteadyUse, RulesNameKnownAtoms
    PROVE  Spec => []TypeOK
<1> DEFINE Inv == SystemSound /\ AtomsSound /\ CountersSound
           Known == StepSpecKnown /\ ReasonKnown
<1>1. Init => Known
  BY DEF Init, StepSpecKnown, ReasonKnown
<1>2. Known /\ [Next]_vars => Known'
  BY StepKeepsStepSpec, StepKeepsReason
<1>3. Inv /\ Known => TypeOK
  <2> SUFFICES ASSUME Inv, Known PROVE TypeOK
    OBVIOUS
  <2>1. indexedTokens \subseteq DOMAIN tokens /\ unindexedTokens \subseteq DOMAIN tokens
    <3>1. \A id \in indexedTokens \cup unindexedTokens : id \in 1..Len(creatorEvents)
      BY DEF SystemSound, TokensGood, Usable
    <3>2. DOMAIN tokens = 1..Len(creatorEvents)
      BY TokensDomain DEF SystemSound
    <3> QED  BY <3>1, <3>2
  <2>2. call \in {"none", "replace", "replaceOnce"} /\ stage \in {"begin", "indexed"}
    BY DEF SystemSound, CallsWithinLimits
  <2>3. /\ tokens \in Seq(Seq(1..nextAtom)) /\ Len(tokens) = Len(creatorEvents)
        /\ nextAtom \in 1..LargestAtom
    BY TokensTyped
  <2>4. /\ \A atom \in DOMAIN atomDegrees : atom \in 1..nextAtom /\ atomDegrees[atom] \in Nat \ {0}
        /\ destroyedTokenCount \in 0..Len(tokens)
    BY DegreesTyped
  <2>5. matches \subseteq Match /\ newMatches \subseteq Match
    BY MatchesTyped
  <2> QED  BY <2>1, <2>2, <2>3, <2>4, <2>5 DEF TypeOK, StepSpecKnown, ReasonKnown
<1>4. Spec => []Inv
  BY CountersStaySound
<1> HIDE DEF Inv, Known
<1> QED  BY <1>1, <1>2, <1>3, <1>4, PTL DEF Spec
=============================================================================
