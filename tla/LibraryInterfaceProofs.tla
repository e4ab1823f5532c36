----------------------- MODULE LibraryInterfaceProofs -----------------------
(***************************************************************************)
(* What holds of the substitution system holds of it behind its library    *)
(* interface, whoever calls it; and an evaluation by the Wolfram Language, *)
(* which only sees a number, is right about why the system stopped.        *)
(*                                                                         *)
(* An evaluation replaces once, so that the reason it reads was given in   *)
(* the state it returns.  The argument is that each way a call can return  *)
(* gives its reason in a state that the reason is true of.                 *)
(*                                                                         *)
(* The rest is about the tensors that cross the interface: where each part *)
(* of a list is, and that a reader finds it there.                         *)
(***************************************************************************)
EXTENDS WolframLanguageAPI, HypergraphSystemProofs

-----------------------------------------------------------------------------
(* The interface takes the steps of the system only.                       *)

\* An evaluation is one of those that the Wolfram Language asks for.
RequestKnown ==
    /\ position # "begin" => caller = "WolframLanguage"
    /\ caller = "WolframLanguage" => request \in Requests

LEMMA RequestStaysKnown == APISpec => []RequestKnown
<1>1. APIInit => RequestKnown  BY DEF APIInit, RequestKnown
<1>2. RequestKnown /\ [APINext]_allVars => RequestKnown'
  BY DEF RequestKnown, APINext, CppCalls, ManageInstance, InitializeSystem, CallReplace,
         ReplaceIsRefused, ReplaceCrashes, Replacing, ReplaceReturns, ReadTerminationReason,
         ReadMaxCompleteGeneration, ReleaseInstance, Ended, allVars, apiVars, At, End
<1> QED  BY <1>1, <1>2, PTL DEF APISpec

\* Every step of the interface is a step of the system or leaves the system alone.
LEMMA InterfaceStep ==
    ASSUME RequestKnown, [APINext]_allVars
    PROVE  [Next]_vars
<1>1. CASE CallReplace
  <2>1. caller = "WolframLanguage"  BY <1>1 DEF CallReplace, At, RequestKnown
  <2>2. request.spec \in StepSpecs  BY <2>1 DEF RequestKnown, Requests
  <2>3. Replace(request.spec)  BY <1>1 DEF CallReplace
  <2> QED  BY <2>2, <2>3 DEF Next
<1>2. CASE CppCalls \/ Replacing
  BY <1>2 DEF CppCalls, Replacing
<1>3. CASE ReadMaxCompleteGeneration
  BY <1>3 DEF ReadMaxCompleteGeneration, Next
<1>4. CASE \/ ManageInstance \/ InitializeSystem \/ ReplaceIsRefused \/ ReplaceCrashes
           \/ ReplaceReturns \/ ReadTerminationReason \/ ReleaseInstance \/ Ended
           \/ UNCHANGED allVars
  BY <1>4 DEF ManageInstance, InitializeSystem, ReplaceIsRefused, ReplaceCrashes,
              ReplaceReturns, ReadTerminationReason, ReleaseInstance, Ended, allVars
<1> QED  BY <1>1, <1>2, <1>3, <1>4 DEF APINext

\* Behind its interface the system behaves as the system does, so that all that is
\* proved of it holds for both callers.
THEOREM InterfaceImplementsSystem == APISpec => Spec
<1>1. APIInit => Init  BY DEF APIInit
<1>2. RequestKnown /\ [APINext]_allVars => [Next]_vars  BY InterfaceStep
<1> QED  BY <1>1, <1>2, RequestStaysKnown, PTL DEF APISpec, Spec

-----------------------------------------------------------------------------
(* Why a call has returned.                                                *)

LEMMA ReasonNames ==
    ASSUME NEW n \in 1..9
    PROVE  NameOfReason(TerminationReasons[n]) = TerminationReasonNames[n]
<1>1. \A m \in 1..9 : TerminationReasons[m] = TerminationReasons[n] => m = n
  BY DEF TerminationReasons
<1>2. n - 1 \in 0..8 /\ TerminationReasons[(n - 1) + 1] = TerminationReasons[n]
  OBVIOUS
<1>3. ASSUME NEW code \in 0..8, TerminationReasons[code + 1] = TerminationReasons[n]
      PROVE  code = n - 1
  <2>1. code + 1 \in 1..9  OBVIOUS
  <2> QED  BY <1>1, <1>3, <2>1
<1>4. TerminationReasonCode(TerminationReasons[n]) = n - 1
  BY <1>2, <1>3 DEF TerminationReasonCode
<1> QED  BY <1>4 DEF NameOfReason

Possible(match) ==
    FitsRule(match) /\ ~IsEvent(match) /\ Range(match.inputTokens) \subseteq LiveTokens

LimitOf(match) == FinalStateLimit(InputAtoms(match), ExplicitOutputs(match))

\* Each reason is true of the state it was given in.
OutcomeTrue ==
    /\ terminationReason = "MaxEvents" => Graph!EventsCount = request.spec.maxEvents
    /\ terminationReason = "TimeConstrained" => request.timeConstraint
    /\ terminationReason = "NotTerminated" =>
         ~ValidStepSpec(request.spec) \/ nextAtom = LargestAtom
    /\ (SeparationsKnown /\ terminationReason = "MaxGenerationsLocal") =>
         /\ largestGeneration = request.spec.maxGenerationsLocal
         /\ \A match : Possible(match) =>
              \E id \in Range(match.inputTokens) : Graph!TokenGeneration(id) = largestGeneration
    /\ (SeparationsKnown /\ terminationReason \in Limits) =>
         \E match : Possible(match) /\ LimitOf(match) = terminationReason

LEMMA PossibleUnchanged ==
    ASSUME UNCHANGED <<graphVars, tokens>>, NEW match
    PROVE  Possible(match)' <=> Possible(match)
<1>1. LiveTokens' = LiveTokens  BY DEF LiveTokens, graphVars
<1> QED  BY <1>1, FittingUnchanged DEF Possible

LEMMA LimitUnchanged ==
    ASSUME UNCHANGED <<graphVars, stateVars, stepSpec>>, NEW match
    PROVE  LimitOf(match)' = LimitOf(match)
<1>1. InputAtoms(match)' = InputAtoms(match)  BY DEF InputAtoms, stateVars
<1>2. ExplicitOutputs(match)' = ExplicitOutputs(match)  BY <1>1 DEF ExplicitOutputs
<1>3. \A atom : CurrentDegree(atom)' = CurrentDegree(atom)  BY DEF CurrentDegree, stateVars
<1> QED  BY <1>1, <1>2, <1>3 DEF LimitOf, FinalStateLimit, stateVars, graphVars

LEMMA OutcomeUnchanged ==
    ASSUME OutcomeTrue, UNCHANGED <<graphVars, stateVars, stepSpec, terminationReason, request>>
    PROVE  OutcomeTrue'
<1>1. UNCHANGED <<graphVars, tokens>>  BY DEF stateVars
<1>2. \A match : /\ Possible(match)' <=> Possible(match)
                 /\ LimitOf(match)' = LimitOf(match)
  BY <1>1, PossibleUnchanged, LimitUnchanged
<1>3. \A id : Graph!TokenGeneration(id)' = Graph!TokenGeneration(id)
  BY DEF Graph!TokenGeneration, graphVars
<1>4. /\ SeparationsKnown' <=> SeparationsKnown
      /\ Graph!EventsCount' = Graph!EventsCount
      /\ ValidStepSpec(request.spec)' <=> ValidStepSpec(request.spec)
  BY DEF SeparationsKnown, graphVars, Graph!EventsCount, ValidStepSpec
<1> QED  BY <1>2, <1>3, <1>4 DEF OutcomeTrue, stateVars, graphVars

-----------------------------------------------------------------------------
(* The invariant of an evaluation.                                         *)

Reported ==
    IF NameOfReason(terminationReason) = "NotTerminated" THEN "TimeConstraint"
    ELSE NameOfReason(terminationReason)

\* The result that is read: the reason is the system's, and the complete
\* generation is that of a system without tokens to index.
ResultRead ==
    /\ OutcomeTrue
    /\ terminationReason \in {"Aborted", "TimeConstrained"} => request.returnOnAbort
    /\ result = [kind |-> "Result", complete |-> result.complete, reason |-> Reported]
    /\ \/ /\ result.complete = MissingGeneration
          /\ position = "reported" \/ request.returnOnAbort
       \/ result.complete = CompleteGeneration /\ unindexedTokens = {}

\* The system is called once, so that the limits are those of the request, and
\* what a call that has returned leaves behind is looked at as it is.
EvaluationSound ==
    /\ \E n \in 1..9 : terminationReason = TerminationReasons[n]
    /\ position \in {"begin", "created", "initialized"} =>
         Len(events) = 1 /\ terminationReason = "NotTerminated"
    /\ position # "replacing" => call = "none"
    /\ position \notin {"reported", "ended"} => result = NoResult
    /\ position = "replacing" =>
         /\ call \in {"none", "replace"} /\ stepSpec = request.spec
         /\ call = "replace" => Graph!EventsCount <= request.spec.maxEvents
         /\ stage = "indexed" => Graph!EventsCount < request.spec.maxEvents
    /\ position \in {"replacing", "replaced"} /\ call = "none" => OutcomeTrue
    /\ position = "replaced" => (terminationReason = "Aborted" => request.returnOnAbort)
    /\ position = "reported" => ResultRead /\ result.complete = MissingGeneration
    /\ position = "ended" => result \in {AbortedResult, CrashResult} \/ ResultRead

InterfaceSound ==
    /\ caller \in {"Cpp", "WolframLanguage"}
    /\ caller = "Cpp" => result = NoResult
    /\ caller = "WolframLanguage" => EvaluationSound

\* What is known of the system at every step.
SystemFacts == RequestKnown /\ SearchSound /\ CompleteSound

LEMMA ReasonsAreListed ==
    /\ \A reason \in Limits \cup {"NotTerminated", "MaxEvents", "MaxGenerationsLocal",
                                  "Complete", "Aborted", "TimeConstrained"} :
         \E n \in 1..9 : reason = TerminationReasons[n]
    /\ \A n \in 1..9 : TerminationReasons[n] \in
         Limits \cup {"NotTerminated", "MaxEvents", "MaxGenerationsLocal",
                      "Complete", "Aborted", "TimeConstrained"}
BY DEF TerminationReasons, Limits

\* The reason a step of the system sets is one of the list.
LEMMA ReasonStaysListed ==
    ASSUME [Next]_vars, \E n \in 1..9 : terminationReason = TerminationReasons[n]
    PROVE  \E n \in 1..9 : terminationReason' = TerminationReasons[n]
<1> DEFINE all == Limits \cup {"NotTerminated", "MaxEvents", "MaxGenerationsLocal",
                               "Complete", "Aborted", "TimeConstrained"}
<1>1. ASSUME NEW match, StopAtFinalStateLimit(match) PROVE terminationReason' \in all
  BY <1>1 DEF StopAtFinalStateLimit, Return, FinalStateLimit, Limits
<1>2. terminationReason' = terminationReason \/ terminationReason' \in all
  BY <1>1 DEF Next, Replace, ReplaceOnce, StopAtMaxEvents, Index, Abort, StopWithoutMatches,
              RunOutOfAtoms, Instantiate, MaxCompleteGeneration, Return, vars
<1> QED  BY <1>2, ReasonsAreListed

LEMMA InputsOfPossible ==
    ASSUME RulesHaveInputs, SystemSound, NEW match, Possible(match)
    PROVE  /\ Range(match.inputTokens) \subseteq 1..Len(creatorEvents)
           /\ Range(match.inputTokens) # {}
<1>1. Range(match.inputTokens) \subseteq 1..Len(creatorEvents)
  <2>1. DOMAIN tokens = 1..Len(creatorEvents)  BY TokensDomain DEF SystemSound
  <2> QED  BY <2>1 DEF Possible, LiveTokens
<1>2. RuleList[match.rule].inputs \in Seq(Seq(Int)) /\ RuleList[match.rule].inputs # <<>>
  BY Constants DEF Possible, FitsRule, RulesHaveInputs
<1>3. 1 \in DOMAIN RuleList[match.rule].inputs  BY <1>2
<1>4. 1 \in DOMAIN match.inputTokens  BY <1>3 DEF Possible, FitsRule
<1> QED  BY <1>1, <1>4 DEF Range

\* A replacement that returns says why.
LEMMA ReturnIsTrue ==
    ASSUME SteadyUse, RulesHaveInputs, SystemFacts, EvaluationSound,
           position = "replacing", Replacing, call' = "none"
    PROVE  OutcomeTrue'
<1>1. /\ call = "replace" /\ stepSpec = request.spec /\ request' = request
      /\ Graph!EventsCount <= request.spec.maxEvents
      /\ terminationReason' = "TimeConstrained" => request.timeConstraint
  BY DEF Replacing, EvaluationSound, apiVars
<1>2. /\ SearchSound /\ GraphTyped /\ AllTokensSeen /\ CallsWithinLimits
      /\ largestGeneration \in Nat
      /\ request.spec.maxEvents \in Nat /\ Len(events) \in Nat
      /\ stage = "indexed" => unindexedTokens = {}
  <2>1. SearchSound /\ GraphTyped /\ AllTokensSeen /\ CallsWithinLimits
    BY DEF SystemFacts, SearchSound, SystemSound
  <2>2. stepSpec.maxEvents \in 0..MaxEvents  BY <1>1, <2>1 DEF CallsWithinLimits
  <2> QED  BY <1>1, <2>1, <2>2, GraphDomains, Constants DEF AllTokensSeen, CallsWithinLimits
<1>3. CASE StopAtMaxEvents
  <2>1. terminationReason' = "MaxEvents" /\ Graph!EventsCount >= stepSpec.maxEvents
    BY <1>3 DEF StopAtMaxEvents, Return
  <2>2. Graph!EventsCount \in Int  BY <1>2 DEF Graph!EventsCount
  <2>3. Graph!EventsCount = request.spec.maxEvents  BY <1>1, <1>2, <2>1, <2>2
  <2>4. Graph!EventsCount' = Graph!EventsCount
    BY <1>3 DEF StopAtMaxEvents, graphVars, Graph!EventsCount
  <2> QED  BY <1>1, <2>1, <2>3, <2>4 DEF OutcomeTrue, Limits
<1>4. CASE Abort
  <2>1. terminationReason' \in {"Aborted", "TimeConstrained"}
    BY <1>1, <1>4 DEF Abort, Return
  <2> QED  BY <1>1, <2>1 DEF OutcomeTrue, Limits
<1>5. CASE StopWithoutMatches
  <2>1. /\ UNCHANGED <<graphVars, stateVars, stepSpec>> /\ stage = "indexed" /\ matches = {}
        /\ terminationReason' = IF largestGeneration = stepSpec.maxGenerationsLocal
                                THEN "MaxGenerationsLocal" ELSE "Complete"
    BY <1>5 DEF StopWithoutMatches, Return
  <2>2. CASE terminationReason' = "Complete"
    BY <1>1, <2>2 DEF OutcomeTrue, Limits
  <2>3. CASE terminationReason' = "MaxGenerationsLocal"
    <3>1. largestGeneration = stepSpec.maxGenerationsLocal  BY <2>1, <2>3
    <3>2. ASSUME SeparationsKnown, NEW match, Possible(match)
          PROVE  \E id \in Range(match.inputTokens) :
                   Graph!TokenGeneration(id) = largestGeneration
      <4>1. match \in PossibleMatches  BY <3>2, PossibleMeans DEF Possible
      <4>2. /\ MatchGeneration(match) \in 0..largestGeneration
            /\ ~(MatchGeneration(match) < stepSpec.maxGenerationsLocal)
        BY <1>2, <2>1, <3>2, <4>1, QueueHoldsPossible
      <4>3. MatchGeneration(match) = largestGeneration  BY <1>2, <3>1, <4>2
      <4>4. /\ Range(match.inputTokens) \subseteq 1..Len(creatorEvents)
            /\ Range(match.inputTokens) # {}
        BY <3>2, InputsOfPossible DEF SystemFacts, SearchSound
      <4> QED  BY <1>2, <4>3, <4>4, GenerationOfMatch
    <3>3. SeparationsKnown' <=> SeparationsKnown  BY <2>1 DEF SeparationsKnown, graphVars
    <3>4. ASSUME NEW match PROVE Possible(match)' <=> Possible(match)
      BY <2>1, PossibleUnchanged DEF stateVars
    <3>5. /\ \A id : Graph!TokenGeneration(id)' = Graph!TokenGeneration(id)
          /\ largestGeneration' = largestGeneration
      BY <2>1 DEF Graph!TokenGeneration, graphVars
    <3> QED  BY <1>1, <2>3, <3>1, <3>2, <3>3, <3>4, <3>5 DEF OutcomeTrue, Limits
  <2> QED  BY <2>1, <2>2, <2>3
<1>6. ASSUME NEW match \in matches, StopAtFinalStateLimit(match) PROVE OutcomeTrue'
  <2>1. /\ UNCHANGED <<graphVars, stateVars, stepSpec>> /\ stage = "indexed"
        /\ terminationReason' = LimitOf(match) /\ LimitOf(match) # "NotTerminated"
    BY <1>6 DEF StopAtFinalStateLimit, Return, LimitOf
  <2>2. LimitOf(match) \in Limits
    BY <2>1 DEF LimitOf, FinalStateLimit, Limits
  <2>3. SeparationsKnown => Possible(match)
    BY <1>2, <2>1, QueueHoldsPossible, PossibleMeans DEF Possible
  <2>4. SeparationsKnown' <=> SeparationsKnown  BY <2>1 DEF SeparationsKnown, graphVars
  <2>5. (Possible(match)' <=> Possible(match)) /\ LimitOf(match)' = LimitOf(match)
    BY <2>1, PossibleUnchanged, LimitUnchanged DEF stateVars
  <2> QED  BY <1>1, <2>1, <2>2, <2>3, <2>4, <2>5 DEF OutcomeTrue, Limits
<1>7. ASSUME NEW match \in matches, RunOutOfAtoms(match) PROVE OutcomeTrue'
  BY <1>1, <1>7 DEF RunOutOfAtoms, Return, OutcomeTrue, Limits
<1>8. \/ StopAtMaxEvents \/ Abort \/ StopWithoutMatches
      \/ \E match \in matches : StopAtFinalStateLimit(match) \/ RunOutOfAtoms(match)
  BY <1>1 DEF Replacing, Next, Replace, ReplaceOnce, Index, Instantiate, MaxCompleteGeneration
<1> QED  BY <1>3, <1>4, <1>5, <1>6, <1>7, <1>8

-----------------------------------------------------------------------------
(* The steps of an evaluation.                                             *)

LEMMA InterfaceInit == APIInit => InterfaceSound
<1> SUFFICES ASSUME APIInit PROVE InterfaceSound  OBVIOUS
<1>1. /\ terminationReason = "NotTerminated" /\ call = "none" /\ position = "begin"
      /\ result = NoResult /\ caller \in {"Cpp", "WolframLanguage"}
  BY DEF APIInit, Init
<1>2. Len(events) = 1
  <2>1. PICK event : events = <<event>>  BY DEF APIInit, Init, Graph!Init
  <2> QED  BY <2>1
<1>3. \E n \in 1..9 : terminationReason = TerminationReasons[n]
  BY <1>1, ReasonsAreListed
<1> QED  BY <1>1, <1>2, <1>3 DEF InterfaceSound, EvaluationSound

\* What was read stays as it is when only the evaluation goes on.
LEMMA ReadUnchanged ==
    ASSUME ResultRead, UNCHANGED <<vars, request, result>>,
           position' = "reported" \/ request.returnOnAbort \/ position' = position
    PROVE  ResultRead'
<1>1. UNCHANGED <<graphVars, stateVars, stepSpec, terminationReason, matches, unindexedTokens>>
  BY DEF vars, matcherVars
<1>2. OutcomeTrue'  BY <1>1, OutcomeUnchanged DEF ResultRead
<1>3. Reported' = Reported  BY <1>1 DEF Reported
<1>4. CompleteGeneration' = CompleteGeneration
  <2>1. \A match : MatchGeneration(match)' = MatchGeneration(match)
    <3>1. \A id : Graph!TokenGeneration(id)' = Graph!TokenGeneration(id)
      BY <1>1 DEF Graph!TokenGeneration, graphVars
    <3> QED  BY <3>1 DEF MatchGeneration
  <2> QED  BY <1>1, <2>1 DEF CompleteGeneration, graphVars
<1> QED  BY <1>1, <1>2, <1>3, <1>4 DEF ResultRead

LEMMA CallReplaceKeeps ==
    ASSUME SteadyUse, SystemFacts, EvaluationSound, CallReplace
    PROVE  EvaluationSound'
<1>1. /\ position = "initialized" /\ position' = "replacing" /\ Replace(request.spec)
      /\ UNCHANGED <<caller, request, result>>
  BY DEF CallReplace, At
<1>2. caller = "WolframLanguage" /\ request.spec \in StepSpecs
  BY <1>1 DEF SystemFacts, RequestKnown, Requests
<1>3. /\ call' = "replace" /\ stepSpec' = request.spec /\ stage' = stage
      /\ events' = events /\ terminationReason' = terminationReason
  BY <1>1 DEF Replace, UpdateStepSpec, SteadyUse, graphVars
<1>4. call = "none" /\ stage # "indexed" /\ Len(events) = 1 /\ result = NoResult
  BY <1>1 DEF EvaluationSound, SystemFacts, SearchSound, SystemSound, CallsWithinLimits, Replace
<1>5. request.spec.maxEvents \in Nat
  BY <1>2, LimitsAssumption
<1>6. Graph!EventsCount' <= request'.spec.maxEvents
  BY <1>1, <1>3, <1>4, <1>5 DEF Graph!EventsCount
<1> QED  BY <1>1, <1>3, <1>4, <1>6 DEF EvaluationSound

LEMMA ReplacingKeeps ==
    ASSUME SteadyUse, RulesHaveInputs, SystemFacts, EvaluationSound, Replacing
    PROVE  EvaluationSound'
<1>1. /\ position = "replacing" /\ call = "replace" /\ [Next]_vars /\ UNCHANGED apiVars
      /\ position' = "replacing" /\ request' = request /\ result' = result
  BY DEF Replacing, apiVars
<1>2. \E n \in 1..9 : terminationReason' = TerminationReasons[n]
  BY <1>1, ReasonStaysListed DEF EvaluationSound
<1>3. call' = "none" => OutcomeTrue'  BY <1>1, ReturnIsTrue
<1>4. call' \in {"none", "replace"} /\ stepSpec' = stepSpec
  BY <1>1 DEF Replacing, Next, Replace, ReplaceOnce, StopAtMaxEvents, Index, Abort,
              StopWithoutMatches, StopAtFinalStateLimit, RunOutOfAtoms, Instantiate,
              MaxCompleteGeneration, Return
<1>5. /\ Graph!EventsCount' <= request.spec.maxEvents
      /\ stage' = "indexed" => Graph!EventsCount' < request.spec.maxEvents
  <2>1. /\ Len(events) \in Nat /\ stepSpec = request.spec /\ request.spec.maxEvents \in Nat
        /\ Graph!EventsCount <= request.spec.maxEvents
        /\ stage = "indexed" => Graph!EventsCount < request.spec.maxEvents
        /\ SystemSound
    <3>1. SystemSound /\ GraphTyped /\ CallsWithinLimits
      BY DEF SystemFacts, SearchSound, SystemSound
    <3>2. stepSpec = request.spec  BY <1>1 DEF EvaluationSound
    <3>3. request.spec.maxEvents \in 0..MaxEvents  BY <1>1, <3>1, <3>2 DEF CallsWithinLimits
    <3>4. request.spec.maxEvents \in Nat  BY <3>3, Constants
    <3> QED  BY <1>1, <3>1, <3>2, <3>4, GraphDomains DEF EvaluationSound
  <2>2. ASSUME NEW match \in matches, Instantiate(match)
        PROVE  stage' = "begin" /\ Graph!EventsCount' <= request.spec.maxEvents
    <3>1. stage = "indexed" /\ stage' = "begin"  BY <2>2 DEF Instantiate
    <3>2. Len(events') = Len(events) + 1  BY <2>1, <2>2, EventEffect
    <3> QED  BY <2>1, <3>1, <3>2 DEF Graph!EventsCount
  <2>3. ASSUME UNCHANGED graphVars
        PROVE  /\ Graph!EventsCount' <= request.spec.maxEvents
               /\ stage' = "indexed" => Graph!EventsCount' < request.spec.maxEvents
    <3>1. Graph!EventsCount' = Graph!EventsCount  BY <2>3 DEF graphVars, Graph!EventsCount
    <3>2. stage' = "indexed" => stage = "indexed" \/ Index
      BY <1>1 DEF Replacing, Next, Replace, ReplaceOnce, StopAtMaxEvents, Abort,
                  StopWithoutMatches, StopAtFinalStateLimit, RunOutOfAtoms, Instantiate,
                  MaxCompleteGeneration, Return
    <3>3. Index => Graph!EventsCount < request.spec.maxEvents  BY <2>1 DEF Index
    <3> QED  BY <2>1, <3>1, <3>2, <3>3
  <2> QED  BY <1>1, <2>2, <2>3, OnlyEventsChangeGraph
<1> QED  BY <1>1, <1>2, <1>3, <1>4, <1>5 DEF EvaluationSound

LEMMA ReadMaxCompleteGenerationKeeps ==
    ASSUME EvaluationSound, ReadMaxCompleteGeneration
    PROVE  EvaluationSound'
<1>1. /\ position = "reported" /\ position' = "ended"
      /\ MaxCompleteGeneration /\ request' = request
      /\ UNCHANGED <<graphVars, stateVars, stepSpec, terminationReason, call>>
  BY DEF ReadMaxCompleteGeneration, MaxCompleteGeneration, End
<1>2. ResultRead /\ result.complete = MissingGeneration  BY <1>1 DEF EvaluationSound
<1>3. OutcomeTrue'  BY <1>1, <1>2, OutcomeUnchanged DEF ResultRead
<1>4. Reported' = Reported  BY <1>1 DEF Reported
<1>5. /\ terminationReason' \in {"Aborted", "TimeConstrained"} => request'.returnOnAbort
      /\ result = [kind |-> "Result", complete |-> result.complete, reason |-> Reported']
  BY <1>1, <1>2, <1>4 DEF ResultRead
<1>6. CASE unindexedTokens' = {}
  <2>1. result' = [result EXCEPT !.complete = CompleteGeneration']
    BY <1>6 DEF ReadMaxCompleteGeneration, End
  <2>2. result' = [kind |-> "Result", complete |-> CompleteGeneration', reason |-> Reported']
    BY <1>5, <2>1
  <2>3. ResultRead'  BY <1>3, <1>5, <1>6, <2>2 DEF ResultRead
  <2> QED  BY <1>1, <2>3 DEF EvaluationSound
<1>7. CASE unindexedTokens' # {} /\ request.returnOnAbort
  <2>1. result' = result  BY <1>7 DEF ReadMaxCompleteGeneration, End
  <2>2. ResultRead'  BY <1>1, <1>2, <1>3, <1>5, <1>7, <2>1 DEF ResultRead
  <2> QED  BY <1>1, <2>2 DEF EvaluationSound
<1>8. CASE unindexedTokens' # {} /\ ~request.returnOnAbort
  <2>1. result' = AbortedResult  BY <1>8 DEF ReadMaxCompleteGeneration, End
  <2> QED  BY <1>1, <2>1 DEF EvaluationSound
<1> QED  BY <1>6, <1>7, <1>8

\* The steps that leave the system alone.
LEMMA QuietKeeps ==
    ASSUME SystemFacts, EvaluationSound, caller = "WolframLanguage",
           \/ ManageInstance \/ InitializeSystem \/ ReplaceIsRefused \/ ReplaceCrashes
           \/ ReplaceReturns \/ ReadTerminationReason \/ ReleaseInstance \/ Ended
           \/ UNCHANGED allVars
    PROVE  EvaluationSound'
<1>1. /\ UNCHANGED vars /\ request' = request
      /\ UNCHANGED <<graphVars, stateVars, stepSpec, terminationReason, call, stage>>
  BY DEF ManageInstance, InitializeSystem, ReplaceIsRefused, ReplaceCrashes, ReplaceReturns,
         ReadTerminationReason, ReleaseInstance, Ended, allVars, apiVars, vars
<1>2. /\ events' = events
      /\ Graph!EventsCount' = Graph!EventsCount
      /\ OutcomeTrue => OutcomeTrue'
  BY <1>1, OutcomeUnchanged DEF graphVars, Graph!EventsCount
<1>3. \E n \in 1..9 : terminationReason' = TerminationReasons[n]
  BY <1>1 DEF EvaluationSound
<1>4. CASE ManageInstance \/ InitializeSystem
  <2>1. /\ position \in {"begin", "created"} /\ position' \in {"created", "initialized"}
        /\ result' = result
    BY <1>4 DEF ManageInstance, InitializeSystem, At
  <2> QED  BY <1>1, <1>2, <1>3, <2>1 DEF EvaluationSound
<1>5. CASE ReplaceIsRefused
  <2>1. /\ position = "initialized" /\ position' = "replaced" /\ result' = result
        /\ ~ValidStepSpec(request.spec)
    BY <1>5 DEF ReplaceIsRefused, At
  <2>2. terminationReason = "NotTerminated" /\ call = "none" /\ result = NoResult
    BY <2>1 DEF EvaluationSound
  <2>3. OutcomeTrue  BY <2>1, <2>2 DEF OutcomeTrue, Limits
  <2> QED  BY <1>1, <1>2, <1>3, <2>1, <2>2, <2>3 DEF EvaluationSound
<1>6. CASE ReplaceCrashes
  <2>1. position = "initialized" /\ position' = "ended" /\ result' = CrashResult
    BY <1>6 DEF ReplaceCrashes, End
  <2> QED  BY <1>1, <1>2, <1>3, <2>1 DEF EvaluationSound
<1>7. CASE ReplaceReturns
  <2>1. /\ position = "replacing" /\ call = "none"
        /\ \/ /\ position' = "replaced" /\ result' = result
              /\ terminationReason = "Aborted" => request.returnOnAbort
           \/ position' = "ended" /\ result' = AbortedResult
    BY <1>7 DEF ReplaceReturns, At, End
  <2>2. OutcomeTrue' /\ result = NoResult  BY <1>2, <2>1 DEF EvaluationSound
  <2> QED  BY <1>1, <1>2, <1>3, <2>1, <2>2 DEF EvaluationSound
<1>8. CASE ReadTerminationReason
  <2>1. position = "replaced" /\ call = "none" /\ OutcomeTrue
        /\ (terminationReason = "Aborted" => request.returnOnAbort)
    BY <1>8 DEF ReadTerminationReason, At, EvaluationSound
  <2>2. CASE position' = "ended" /\ result' = AbortedResult
    BY <1>1, <1>2, <1>3, <2>1, <2>2 DEF EvaluationSound
  <2>3. CASE /\ position' = "reported"
             /\ NameOfReason(terminationReason) = "TimeConstraint" => request.returnOnAbort
             /\ result' = [kind |-> "Result", complete |-> MissingGeneration,
                           reason |-> Reported]
    <3>1. terminationReason = "TimeConstrained" =>
            NameOfReason(terminationReason) = "TimeConstraint"
      <4>1. TerminationReasons[9] = "TimeConstrained" /\ TerminationReasonNames[9] = "TimeConstraint"
        BY DEF TerminationReasons, TerminationReasonNames
      <4> QED  BY <4>1, ReasonNames
    <3>2. Reported' = Reported  BY <1>1 DEF Reported
    <3>3. ResultRead'
      BY <1>1, <1>2, <2>1, <2>3, <3>1, <3>2 DEF ResultRead
    <3>4. result'.complete = MissingGeneration  BY <2>3
    <3> QED  BY <1>1, <1>2, <1>3, <2>1, <2>3, <3>3, <3>4 DEF EvaluationSound
  <2>4. \/ position' = "ended" /\ result' = AbortedResult
        \/ /\ position' = "reported"
           /\ NameOfReason(terminationReason) = "TimeConstraint" => request.returnOnAbort
           /\ result' = [kind |-> "Result", complete |-> MissingGeneration,
                         reason |-> Reported]
    BY <1>8 DEF ReadTerminationReason, At, End, Reported
  <2> QED  BY <2>2, <2>3, <2>4
<1>9. CASE ReleaseInstance \/ Ended \/ UNCHANGED allVars
  <2>1. position' = position /\ result' = result
    BY <1>9 DEF ReleaseInstance, Ended, allVars, apiVars
  <2>2. ResultRead => ResultRead'
    BY <1>1, <2>1, ReadUnchanged
  <2> QED  BY <1>1, <1>2, <1>3, <2>1, <2>2 DEF EvaluationSound
<1> QED  BY <1>4, <1>5, <1>6, <1>7, <1>8, <1>9

LEMMA StepKeepsInterface ==
    ASSUME SteadyUse, RulesHaveInputs, SystemFacts, InterfaceSound, [APINext]_allVars
    PROVE  InterfaceSound'
<1>1. CASE CppCalls
  BY <1>1 DEF CppCalls, apiVars, InterfaceSound
<1>2. ASSUME ~CppCalls
      PROVE  caller' = caller /\ (caller = "Cpp" => UNCHANGED allVars)
  BY <1>2 DEF APINext, ManageInstance, InitializeSystem, CallReplace,
              ReplaceIsRefused, ReplaceCrashes, Replacing, ReplaceReturns, ReadTerminationReason,
              ReadMaxCompleteGeneration, ReleaseInstance, Ended, allVars, apiVars, At, End,
              SystemFacts, RequestKnown
<1>3. ASSUME ~CppCalls, caller = "WolframLanguage"
      PROVE  EvaluationSound'
  BY <1>3, CallReplaceKeeps, ReplacingKeeps, ReadMaxCompleteGenerationKeeps, QuietKeeps
     DEF APINext, InterfaceSound
<1>4. ASSUME ~CppCalls, caller = "Cpp"
      PROVE  result' = result
  BY <1>2, <1>4 DEF allVars, apiVars
<1> QED  BY <1>1, <1>2, <1>3, <1>4 DEF InterfaceSound

LEMMA FactsAlwaysKnown ==
    ASSUME SteadyUse, RulesHaveInputs
    PROVE  APISpec => []SystemFacts
<1>1. Spec => []SearchSound  BY SearchStaysSound
<1>2. Spec => []CompleteSound  BY CompleteStaysSound
<1> QED  BY <1>1, <1>2, RequestStaysKnown, InterfaceImplementsSystem, PTL DEF SystemFacts

LEMMA InterfaceStaysSound ==
    ASSUME SteadyUse, RulesHaveInputs
    PROVE  APISpec => []InterfaceSound
<1>1. APIInit => InterfaceSound  BY InterfaceInit
<1>2. SystemFacts /\ InterfaceSound /\ [APINext]_allVars => InterfaceSound'
  BY StepKeepsInterface
<1> QED  BY <1>1, <1>2, FactsAlwaysKnown, PTL DEF APISpec

-----------------------------------------------------------------------------
(* What the evaluation returns.                                            *)

\* The library does not refuse the limits that were asked for (the run
\* refused_limits shows what is reported when it does), and there are names for
\* more atoms: the library would say nothing of a call that runs out of them.
CallAccepted == ValidStepSpec(request.spec)
AtomsLeft == nextAtom # LargestAtom

LEMMA ReadIsTrue ==
    ASSUME SteadyUse, RulesHaveInputs, SystemFacts, SeparationsKnown, CallAccepted, AtomsLeft,
           ResultRead, NEW n \in 1..9, terminationReason = TerminationReasons[n]
    PROVE  \/ result.reason = "FixedPoint" /\ PossibleMatches = {}
           \/ result.reason = "MaxEvents" /\ Graph!EventsCount = request.spec.maxEvents
           \/ /\ result.reason = "MaxGenerationsLocal"
              /\ largestGeneration = request.spec.maxGenerationsLocal
              /\ \A match \in PossibleMatches : MatchGeneration(match) = largestGeneration
           \/ result.reason = "MaxVertices" /\ LimitReached("MaxFinalAtoms")
           \/ result.reason = "MaxVertexDegree" /\ LimitReached("MaxFinalAtomDegree")
           \/ result.reason = "MaxEdges" /\ LimitReached("MaxFinalTokens")
           \/ result.reason = "Aborted" /\ request.returnOnAbort
           \/ /\ result.reason = "TimeConstraint" /\ terminationReason = "TimeConstrained"
              /\ request.timeConstraint /\ request.returnOnAbort
<1>1. /\ result.reason = IF TerminationReasonNames[n] = "NotTerminated" THEN "TimeConstraint"
                         ELSE TerminationReasonNames[n]
      /\ OutcomeTrue
      /\ terminationReason \in {"Aborted", "TimeConstrained"} => request.returnOnAbort
  BY ReasonNames DEF ResultRead, Reported
<1>2. ASSUME NEW limit \in Limits, terminationReason = limit PROVE LimitReached(limit)
  <2>1. PICK match : Possible(match) /\ LimitOf(match) = limit
    BY <1>1, <1>2 DEF OutcomeTrue
  <2>2. match \in PossibleMatches  BY <2>1, PossibleMeans DEF Possible
  <2> QED  BY <2>1, <2>2 DEF LimitReached, LimitOf
<1>3. ASSUME terminationReason = "MaxGenerationsLocal", NEW match \in PossibleMatches
      PROVE  MatchGeneration(match) = largestGeneration
  <2>1. Possible(match)  BY <1>3, PossibleMeans DEF Possible
  <2>2. PICK id \in Range(match.inputTokens) : Graph!TokenGeneration(id) = largestGeneration
    BY <1>1, <1>3, <2>1 DEF OutcomeTrue
  <2>3. /\ SystemSound /\ GraphTyped /\ AllTokensSeen
        /\ largestGeneration \in Nat
    BY DEF SystemFacts, SearchSound, SystemSound, AllTokensSeen
  <2>4. /\ MatchGeneration(match) \in 0..largestGeneration
        /\ Graph!TokenGeneration(id) <= MatchGeneration(match)
    BY <2>1, <2>3, InputsOfPossible, GenerationOfMatch
  <2> QED  BY <2>2, <2>3, <2>4
<1>4. terminationReason = "Complete" => PossibleMatches = {}
  BY PossibleMeans DEF SystemFacts, CompleteSound, NothingPossible
<1>5. CASE n = 1
  BY <1>1, <1>5 DEF TerminationReasons, OutcomeTrue, CallAccepted, AtomsLeft
<1>6. CASE n = 2
  BY <1>1, <1>6 DEF TerminationReasons, TerminationReasonNames, OutcomeTrue
<1>7. CASE n = 3
  BY <1>1, <1>3, <1>7 DEF TerminationReasons, TerminationReasonNames, OutcomeTrue
<1>8. CASE n \in {4, 5, 6}
  BY <1>1, <1>2, <1>8 DEF TerminationReasons, TerminationReasonNames, Limits
<1>9. CASE n = 7
  BY <1>1, <1>4, <1>9 DEF TerminationReasons, TerminationReasonNames
<1>10. CASE n = 8
  BY <1>1, <1>10 DEF TerminationReasons, TerminationReasonNames
<1>11. CASE n = 9
  BY <1>1, <1>11 DEF TerminationReasons, TerminationReasonNames, OutcomeTrue
<1> QED  BY <1>5, <1>6, <1>7, <1>8, <1>9, <1>10, <1>11

\* What an evaluation by the Wolfram Language returns is true of the system it
\* returns, although it only sees a number: why the system stopped, and up to where
\* it is complete.  A timeout is reported only if there was one to report.  This is
\* said of calls that the library accepts and that do not run out of atoms.
THEOREM ResultAlwaysTrue ==
    ASSUME SteadyUse, RulesHaveInputs
    PROVE  APISpec => [](SeparationsKnown /\ CallAccepted /\ AtomsLeft => ResultIsTrue)
<1>1. ASSUME SystemFacts, InterfaceSound, SeparationsKnown, CallAccepted, AtomsLeft,
             result.kind = "Result"
      PROVE  ResultIsTrue
  <2>1. caller = "WolframLanguage" /\ EvaluationSound
    BY <1>1 DEF InterfaceSound, NoResult
  <2>2. /\ position \in {"reported", "ended"} /\ ResultRead
        /\ \E n \in 1..9 : terminationReason = TerminationReasons[n]
    BY <1>1, <2>1 DEF EvaluationSound, NoResult, AbortedResult, CrashResult
  <2>3. result.complete \in {MissingGeneration, LargestCompleteGeneration}
    BY <1>1, <2>2, CompleteGenerationRight DEF ResultRead, SystemFacts
  <2>4. result.complete = MissingGeneration => position = "reported" \/ request.returnOnAbort
    <3>1. ASSUME unindexedTokens = {} PROVE CompleteGeneration # MissingGeneration
      <4>1. CompleteGeneration \in 0..largestGeneration /\ largestGeneration \in Nat
        BY <1>1, <3>1, CompleteGenerationRight DEF SystemFacts, SearchSound, AllTokensSeen
      <4> QED  BY <4>1 DEF MissingGeneration
    <3> QED  BY <2>2, <3>1 DEF ResultRead
  <2> QED  BY <1>1, <2>2, <2>3, <2>4, ReadIsTrue DEF ResultIsTrue
<1>2. SystemFacts /\ InterfaceSound =>
        (SeparationsKnown /\ CallAccepted /\ AtomsLeft => ResultIsTrue)
  BY <1>1 DEF ResultIsTrue
<1> QED  BY <1>2, FactsAlwaysKnown, InterfaceStaysSound, PTL

-----------------------------------------------------------------------------
(* Lists of lists, written one after the other.                            *)

\* The function that FlattenSeq takes the last value of.
IsFlattening(f, n, lists) ==
    f = [i \in 1..n |-> IF i = 1 THEN lists[i] ELSE f[i - 1] \o lists[i]]

LEMMA FlatteningExists ==
    ASSUME NEW N \in Nat, NEW lists
    PROVE  \E f : IsFlattening(f, N, lists)
<1> DEFINE S == {n \in Nat : \E f : IsFlattening(f, n, lists)}
<1>1. 0 \in S
  <2> DEFINE none == [i \in 1..0 |-> 0]
  <2>1. none = [i \in 1..0 |-> IF i = 1 THEN lists[i] ELSE none[i - 1] \o lists[i]]
    OBVIOUS
  <2> QED  BY <2>1 DEF IsFlattening
<1>2. ASSUME NEW n \in 0..(N - 1), n \in S PROVE n + 1 \in S
  <2>1. PICK f : IsFlattening(f, n, lists)  BY <1>2
  <2> DEFINE last == IF n = 0 THEN lists[n + 1] ELSE f[n] \o lists[n + 1]
             next == [i \in 1..(n + 1) |-> IF i = n + 1 THEN last ELSE f[i]]
  <2>2. /\ next = [i \in 1..(n + 1) |-> next[i]]
        /\ \A i \in 1..n : next[i] = f[i]
        /\ next[n + 1] = last
    <3> HIDE DEF last
    <3> QED  OBVIOUS
  <2> HIDE DEF next
  <2>3. ASSUME NEW i \in 1..(n + 1)
        PROVE  next[i] = IF i = 1 THEN lists[i] ELSE next[i - 1] \o lists[i]
    <3>1. CASE i = n + 1 /\ n = 0
      BY <2>2, <3>1
    <3>2. CASE i = n + 1 /\ n # 0
      <4>1. i - 1 = n /\ n \in 1..n /\ i # 1  BY <3>2
      <4>2. next[i - 1] = f[n]  BY <2>2, <4>1
      <4>3. next[i] = f[n] \o lists[i]  BY <2>2, <3>2
      <4> QED  BY <4>1, <4>2, <4>3
    <3>3. CASE i # n + 1
      <4>1. i \in 1..n  BY <3>3
      <4>2. f[i] = IF i = 1 THEN lists[i] ELSE f[i - 1] \o lists[i]
        BY <2>1, <4>1, Zenon DEF IsFlattening
      <4>3. i # 1 => i - 1 \in 1..n  BY <4>1
      <4>4. i # 1 => next[i - 1] = f[i - 1]  BY <2>2, <4>3
      <4>5. next[i] = f[i]  BY <2>2, <4>1
      <4> QED  BY <4>2, <4>4, <4>5
    <3> QED  BY <3>1, <3>2, <3>3
  <2>4. [i \in 1..(n + 1) |-> next[i]] =
          [i \in 1..(n + 1) |-> IF i = 1 THEN lists[i] ELSE next[i - 1] \o lists[i]]
    BY <2>3
  <2>5. IsFlattening(next, n + 1, lists)  BY <2>2, <2>4 DEF IsFlattening
  <2>6. n + 1 \in Nat  OBVIOUS
  <2> QED  BY <2>5, <2>6
<1> HIDE DEF S
<1>3. N \in S
  <2>1. \A n \in 0..N : n \in S  BY <1>1, <1>2, CountingUp
  <2> QED  BY <2>1
<1> QED  BY <1>3 DEF S

\* FlattenSeq is the last value of its recursive function.
LEMMA FlatteningOf ==
    ASSUME NEW lists, Len(lists) \in Nat \ {0}
    PROVE  \E f : IsFlattening(f, Len(lists), lists) /\ FlattenSeq(lists) = f[Len(lists)]
<1> DEFINE f == CHOOSE g : IsFlattening(g, Len(lists), lists)
<1>1. IsFlattening(f, Len(lists), lists)
  BY FlatteningExists
<1>2. FlattenSeq(lists) = f[Len(lists)]
  BY DEF FlattenSeq, IsFlattening
<1> QED  BY <1>1, <1>2

\* The lists before the i-th, one after the other.
Before(lists, i) == FlattenSeq(SubSeq(lists, 1, i - 1))

\* One more list comes after those that are flattened already.
LEMMA FlattenedOneMore ==
    ASSUME NEW T, NEW lists \in Seq(Seq(T)), NEW n \in 1..Len(lists),
           Before(lists, n) \in Seq(T)
    PROVE  Before(lists, n + 1) = Before(lists, n) \o lists[n]
<1> DEFINE longer == SubSeq(lists, 1, n)
           shorter == SubSeq(lists, 1, n - 1)
<1>1. /\ Len(longer) = n /\ Len(shorter) = n - 1 /\ n \in Nat \ {0}
      /\ \A k \in 1..n : longer[k] = lists[k]
      /\ \A k \in 1..(n - 1) : shorter[k] = lists[k]
      /\ lists[n] \in Seq(T)
  OBVIOUS
<1>2. /\ Before(lists, n + 1) = FlattenSeq(longer)
      /\ Before(lists, n) = FlattenSeq(shorter)
  <2>1. (n + 1) - 1 = n  OBVIOUS
  <2> QED  BY <2>1 DEF Before
<1>3. n = 1 => shorter = <<>>
  OBVIOUS
<1> HIDE DEF longer, shorter
<1>4. PICK f : IsFlattening(f, n, longer) /\ FlattenSeq(longer) = f[n]
  BY <1>1, FlatteningOf
<1>5. \A k \in 1..n : f[k] = IF k = 1 THEN longer[k] ELSE f[k - 1] \o longer[k]
  BY <1>4, Zenon DEF IsFlattening
<1>6. CASE n = 1
  <2>1. f[n] = lists[n]  BY <1>1, <1>5, <1>6
  <2>2. FlattenSeq(shorter) = <<>>  BY <1>3, <1>6 DEF FlattenSeq
  <2>3. <<>> \o lists[n] = lists[n]  BY <1>1
  <2> QED  BY <1>2, <1>4, <2>1, <2>2, <2>3
<1>7. CASE n # 1
  <2>1. n - 1 \in Nat \ {0} /\ n - 1 \in 1..n /\ n - 1 \in 1..(n - 1) /\ Len(shorter) \in Nat \ {0}  BY <1>1, <1>7
  <2>2. PICK g : IsFlattening(g, Len(shorter), shorter) /\ FlattenSeq(shorter) = g[Len(shorter)]
    BY <2>1, FlatteningOf
  <2>3. /\ \A k \in 1..(n - 1) : g[k] = IF k = 1 THEN shorter[k] ELSE g[k - 1] \o shorter[k]
        /\ FlattenSeq(shorter) = g[n - 1]
    BY <1>1, <2>2, Zenon DEF IsFlattening
  <2> DEFINE S == {k \in 1..(n - 1) : f[k] = g[k]}
  <2>4. 1 \in S
    <3>1. 1 \in 1..n /\ 1 \in 1..(n - 1)  BY <2>1
    <3>2. f[1] = lists[1] /\ g[1] = lists[1]  BY <1>1, <1>5, <2>3, <3>1
    <3> QED  BY <3>1, <3>2
  <2>5. ASSUME NEW k \in 1..((n - 1) - 1), k \in S PROVE k + 1 \in S
    <3>1. k + 1 \in 1..n /\ k + 1 \in 1..(n - 1) /\ k + 1 # 1 /\ (k + 1) - 1 = k
      OBVIOUS
    <3>2. f[k + 1] = f[k] \o lists[k + 1]  BY <1>1, <1>5, <3>1
    <3>3. g[k + 1] = g[k] \o lists[k + 1]  BY <1>1, <2>3, <3>1
    <3> QED  BY <2>5, <3>1, <3>2, <3>3
  <2> HIDE DEF S
  <2>6. \A k \in 1..(n - 1) : k \in S
    BY <2>1, <2>4, <2>5, CountingUp
  <2>7. f[n - 1] = g[n - 1]  BY <2>1, <2>6 DEF S
  <2>8. f[n] = f[n - 1] \o lists[n]
    <3>1. n \in 1..n /\ longer[n] = lists[n]  BY <1>1
    <3> QED  BY <1>5, <1>7, <3>1, Zenon
  <2> QED  BY <1>2, <1>4, <2>3, <2>7, <2>8
<1> QED  BY <1>6, <1>7

\* Where each list is when they are written one after the other.
LEMMA FlattenedLists ==
    ASSUME NEW T, NEW lists \in Seq(Seq(T))
    PROVE  /\ FlattenSeq(lists) \in Seq(T)
           /\ LengthBefore(lists, 1) = 0
           /\ LengthBefore(lists, Len(lists) + 1) = Len(FlattenSeq(lists))
           /\ \A n \in 1..Len(lists) :
                /\ LengthBefore(lists, n + 1) = LengthBefore(lists, n) + Len(lists[n])
                /\ LengthBefore(lists, n) \in Nat
                /\ LengthBefore(lists, n) + Len(lists[n]) <= Len(FlattenSeq(lists))
                /\ \A i \in 1..Len(lists[n]) :
                     FlattenSeq(lists)[LengthBefore(lists, n) + i] = lists[n][i]
<1> DEFINE N == Len(lists)
<1>1. N \in Nat /\ \A n \in 1..N : lists[n] \in Seq(T)
  OBVIOUS
<1>2. Before(lists, 1) = <<>>
  BY DEF Before, FlattenSeq
<1>3. Before(lists, N + 1) = FlattenSeq(lists)
  <2>1. SubSeq(lists, 1, (N + 1) - 1) = lists  OBVIOUS
  <2> QED  BY <2>1 DEF Before
<1>4. \A n \in 1..(N + 1) : Before(lists, n) \in Seq(T)
  <2> DEFINE S == {n \in 1..(N + 1) : Before(lists, n) \in Seq(T)}
  <2>1. 1 \in S
    <3>1. 1 \in 1..(N + 1) /\ <<>> \in Seq(T)  BY <1>1
    <3> QED  BY <1>2, <3>1
  <2>2. ASSUME NEW n \in 1..((N + 1) - 1), n \in S PROVE n + 1 \in S
    <3>1. Before(lists, n + 1) = Before(lists, n) \o lists[n]
      BY <2>2, FlattenedOneMore
    <3>2. Before(lists, n) \in Seq(T) /\ lists[n] \in Seq(T)  BY <1>1, <2>2
    <3>3. Before(lists, n) \o lists[n] \in Seq(T)  BY <3>2
    <3>4. n + 1 \in 1..(N + 1)  OBVIOUS
    <3> QED  BY <3>1, <3>3, <3>4
  <2> HIDE DEF S
  <2>3. \A n \in 1..(N + 1) : n \in S
    <3>1. 1 \in Nat /\ N + 1 \in Nat  BY <1>1
    <3> HIDE DEF N
    <3> QED  BY <2>1, <2>2, <3>1, CountingUp
  <2> QED  BY <2>3 DEF S
<1>5. \A n \in 1..N : Before(lists, n + 1) = Before(lists, n) \o lists[n]
  BY <1>1, <1>4, FlattenedOneMore
<1>6. \A n \in 1..(N + 1) : /\ LengthBefore(lists, n) = Len(Before(lists, n))
                            /\ LengthBefore(lists, n) \in Nat
  BY <1>4 DEF LengthBefore, Before
<1>7. \A n \in 1..N : LengthBefore(lists, n + 1) = LengthBefore(lists, n) + Len(lists[n])
  <2> TAKE n \in 1..N
  <2>1. Before(lists, n) \in Seq(T) /\ lists[n] \in Seq(T) /\ n \in 1..(N + 1) /\ n + 1 \in 1..(N + 1)
    BY <1>1, <1>4
  <2>2. Len(Before(lists, n) \o lists[n]) = Len(Before(lists, n)) + Len(lists[n])
    BY <2>1
  <2> QED  BY <1>5, <1>6, <2>1, <2>2
<1>8. ASSUME NEW n \in 1..N
      PROVE  /\ LengthBefore(lists, n) + Len(lists[n]) <= Len(FlattenSeq(lists))
             /\ \A i \in 1..Len(lists[n]) :
                  FlattenSeq(lists)[LengthBefore(lists, n) + i] = lists[n][i]
  <2> DEFINE from == LengthBefore(lists, n)
             S == {m \in (n + 1)..(N + 1) :
                     /\ from + Len(lists[n]) <= Len(Before(lists, m))
                     /\ \A i \in 1..Len(lists[n]) : Before(lists, m)[from + i] = lists[n][i]}
  <2>1. from \in Nat /\ Before(lists, n) \in Seq(T) /\ from = Len(Before(lists, n))
        /\ lists[n] \in Seq(T)
    BY <1>1, <1>4, <1>6
  <2> HIDE DEF from
  <2>2. n + 1 \in S
    <3>1. /\ Len(Before(lists, n) \o lists[n]) = from + Len(lists[n])
          /\ \A i \in 1..Len(lists[n]) : (Before(lists, n) \o lists[n])[from + i] = lists[n][i]
      BY <2>1
    <3>2. Before(lists, n + 1) = Before(lists, n) \o lists[n]  BY <1>5
    <3>3. n + 1 \in (n + 1)..(N + 1) /\ from + Len(lists[n]) <= from + Len(lists[n])  BY <1>1, <2>1
    <3> QED  BY <3>1, <3>2, <3>3
  <2>3. ASSUME NEW m \in (n + 1)..((N + 1) - 1), m \in S PROVE m + 1 \in S
    <3>1. m \in 1..N /\ m \in 1..(N + 1) /\ m + 1 \in (n + 1)..(N + 1)  BY <1>1
    <3>2. Before(lists, m) \in Seq(T) /\ lists[m] \in Seq(T)  BY <1>1, <1>4, <3>1
    <3>3. Before(lists, m + 1) = Before(lists, m) \o lists[m]  BY <1>5, <3>1
    <3>4. /\ from + Len(lists[n]) <= Len(Before(lists, m))
          /\ \A i \in 1..Len(lists[n]) : Before(lists, m)[from + i] = lists[n][i]
      BY <2>3
    <3>5. ASSUME NEW p \in 1..Len(Before(lists, m))
          PROVE  (Before(lists, m) \o lists[m])[p] = Before(lists, m)[p]
      BY <3>2
    <3>6. Len(Before(lists, m) \o lists[m]) >= Len(Before(lists, m))
          /\ Len(Before(lists, m) \o lists[m]) \in Nat /\ Len(Before(lists, m)) \in Nat
      BY <3>2
    <3>7. \A i \in 1..Len(lists[n]) : from + i \in 1..Len(Before(lists, m))
      BY <2>1, <3>4, <3>6
    <3>8. \A i \in 1..Len(lists[n]) : Before(lists, m + 1)[from + i] = lists[n][i]
      BY <3>3, <3>4, <3>5, <3>7
    <3>9. from + Len(lists[n]) <= Len(Before(lists, m + 1))
      <4> DEFINE a == Len(Before(lists, m))
                 b == Len(Before(lists, m) \o lists[m])
                 l == Len(lists[n])
      <4>1. from \in Nat /\ l \in Nat /\ a \in Nat /\ b \in Nat  BY <2>1, <3>6
      <4>2. from + l <= a /\ a <= b  BY <3>4, <3>6
      <4> HIDE DEF a, b, l
      <4>3. from + l <= b  BY <4>1, <4>2
      <4> QED  BY <3>3, <4>3 DEF b, l
    <3> QED  BY <3>1, <3>8, <3>9
  <2> HIDE DEF S
  <2>4. \A m \in (n + 1)..(N + 1) : m \in S
    <3>1. n + 1 \in Nat /\ N + 1 \in Nat  BY <1>1
    <3> HIDE DEF N
    <3> QED  BY <2>2, <2>3, <3>1, CountingUp
  <2>5. N + 1 \in S  BY <1>1, <2>4
  <2> QED  BY <1>3, <2>5 DEF S, from
<1>9. LengthBefore(lists, 1) = 0  BY <1>1, <1>2, <1>6
<1>10. LengthBefore(lists, N + 1) = Len(FlattenSeq(lists)) /\ FlattenSeq(lists) \in Seq(T)
  BY <1>1, <1>3, <1>4, <1>6
<1> QED  BY <1>1, <1>6, <1>7, <1>8, <1>9, <1>10

-----------------------------------------------------------------------------
(* Lists of lists with their lengths.                                      *)

WithLengths(lists) == [i \in DOMAIN lists |-> <<Len(lists[i])>> \o lists[i]]

\* How far from the first list the k-th one starts, with its length.
ListOffset(lists, k) == LengthBefore(WithLengths(lists), k)

\* Where a list of lists has its lengths and its elements when it is encoded.
LEMMA EncodedLists ==
    ASSUME NEW lists \in Seq(Seq(Int))
    PROVE  LET list == EncodeNestedLists(lists)
           IN  /\ list \in Seq(Int)
               /\ list[1] = Len(lists)
               /\ Len(list) = 1 + ListOffset(lists, Len(lists) + 1)
               /\ ListOffset(lists, 1) = 0
               /\ \A k \in 1..Len(lists) :
                    /\ ListOffset(lists, k) \in Nat
                    /\ ListOffset(lists, k + 1) = ListOffset(lists, k) + 1 + Len(lists[k])
                    /\ ListOffset(lists, k) + 2 + Len(lists[k]) <= Len(list)
                    /\ list[ListOffset(lists, k) + 2] = Len(lists[k])
                    /\ \A i \in 1..Len(lists[k]) : list[ListOffset(lists, k) + 2 + i] = lists[k][i]
<1> DEFINE pieces == WithLengths(lists)
           flat == FlattenSeq(pieces)
           N == Len(lists)
<1>1. /\ N \in Nat /\ DOMAIN lists = 1..N
      /\ \A k \in 1..N : lists[k] \in Seq(Int) /\ Len(lists[k]) \in Nat
  OBVIOUS
<1>2. ASSUME NEW k \in 1..N
      PROVE  /\ pieces[k] \in Seq(Int)
             /\ Len(pieces[k]) = 1 + Len(lists[k])
             /\ pieces[k][1] = Len(lists[k])
             /\ \A i \in 1..Len(lists[k]) : pieces[k][1 + i] = lists[k][i]
  <2>1. pieces[k] = <<Len(lists[k])>> \o lists[k]  BY <1>1 DEF WithLengths
  <2> DEFINE l == lists[k]
  <2>2. l \in Seq(Int) /\ Len(l) \in Nat  BY <1>1
  <2> HIDE DEF l
  <2>3. /\ <<Len(l)>> \o l \in Seq(Int)
        /\ Len(<<Len(l)>> \o l) = 1 + Len(l)
        /\ (<<Len(l)>> \o l)[1] = Len(l)
        /\ \A i \in 1..Len(l) : (<<Len(l)>> \o l)[1 + i] = l[i]
    BY <2>2
  <2> QED  BY <2>1, <2>3 DEF l
<1>3. pieces \in Seq(Seq(Int)) /\ Len(pieces) = N
  <2>1. pieces = [k \in 1..N |-> pieces[k]]  BY <1>1 DEF WithLengths
  <2> HIDE DEF pieces, N
  <2>2. pieces \in [1..N -> Seq(Int)]  BY <1>2, <2>1
  <2> QED  BY <1>1, <2>2
<1> HIDE DEF pieces
<1>4. /\ flat \in Seq(Int)
      /\ LengthBefore(pieces, 1) = 0
      /\ LengthBefore(pieces, N + 1) = Len(flat)
      /\ \A n \in 1..N :
           /\ LengthBefore(pieces, n + 1) = LengthBefore(pieces, n) + Len(pieces[n])
           /\ LengthBefore(pieces, n) \in Nat
           /\ LengthBefore(pieces, n) + Len(pieces[n]) <= Len(flat)
           /\ \A i \in 1..Len(pieces[n]) : flat[LengthBefore(pieces, n) + i] = pieces[n][i]
  <2> HIDE DEF N
  <2> QED  BY <1>3, FlattenedLists
<1> DEFINE list == EncodeNestedLists(lists)
<1>5. list = <<N>> \o flat  BY DEF EncodeNestedLists, pieces, WithLengths
<1> HIDE DEF flat, list, N
<1>6. /\ list \in Seq(Int) /\ list[1] = N /\ Len(list) = 1 + Len(flat)
      /\ \A p \in 1..Len(flat) : list[1 + p] = flat[p]
      /\ Len(flat) \in Nat
  BY <1>1, <1>4, <1>5
<1>7. ASSUME NEW k \in 1..N
      PROVE  /\ LengthBefore(pieces, k) \in Nat
             /\ LengthBefore(pieces, k + 1) = LengthBefore(pieces, k) + 1 + Len(lists[k])
             /\ LengthBefore(pieces, k) + 2 + Len(lists[k]) <= Len(list)
             /\ list[LengthBefore(pieces, k) + 2] = Len(lists[k])
             /\ \A i \in 1..Len(lists[k]) : list[LengthBefore(pieces, k) + 2 + i] = lists[k][i]
  <2> DEFINE from == LengthBefore(pieces, k)
  <2>1. /\ from \in Nat /\ Len(lists[k]) \in Nat
        /\ LengthBefore(pieces, k + 1) = from + (1 + Len(lists[k]))
        /\ from + (1 + Len(lists[k])) <= Len(flat)
        /\ \A i \in 1..(1 + Len(lists[k])) : flat[from + i] = pieces[k][i]
    BY <1>1, <1>2, <1>4
  <2> HIDE DEF from
  <2>2. ASSUME NEW i \in 1..(1 + Len(lists[k])) PROVE list[1 + (from + i)] = pieces[k][i]
    <3>1. from + i \in 1..Len(flat)  BY <1>6, <2>1
    <3>2. list[1 + (from + i)] = flat[from + i]  BY <1>6, <3>1
    <3> QED  BY <2>1, <3>2
  <2>3. list[1 + (from + 1)] = Len(lists[k])  BY <1>2, <2>1, <2>2
  <2>4. ASSUME NEW i \in 1..Len(lists[k]) PROVE list[from + 2 + i] = lists[k][i]
    <3>1. 1 + i \in 1..(1 + Len(lists[k])) /\ 1 + (from + (1 + i)) = from + 2 + i  BY <2>1
    <3>2. list[1 + (from + (1 + i))] = pieces[k][1 + i]  BY <2>2, <3>1
    <3> QED  BY <1>2, <3>1, <3>2
  <2>5. /\ 1 + (from + 1) = from + 2
        /\ from + (1 + Len(lists[k])) = from + 1 + Len(lists[k])
        /\ from + 2 + Len(lists[k]) <= Len(list)
    <3> DEFINE len == Len(lists[k])
               total == Len(flat)
               size == Len(list)
    <3>1. size = 1 + total /\ total \in Nat  BY <1>6
    <3>2. from \in Nat /\ len \in Nat /\ from + (1 + len) <= total
      BY <2>1
    <3> HIDE DEF len, total, size
    <3>3. 1 + (from + 1) = from + 2 /\ from + (1 + len) = from + 1 + len /\ from + 2 + len <= size
      BY <3>1, <3>2
    <3> QED  BY <3>3 DEF len, size
  <2>6. /\ from \in Nat
        /\ LengthBefore(pieces, k + 1) = from + 1 + Len(lists[k])
        /\ from + 2 + Len(lists[k]) <= Len(list)
        /\ list[from + 2] = Len(lists[k])
        /\ \A i \in 1..Len(lists[k]) : list[from + 2 + i] = lists[k][i]
    BY <2>1, <2>3, <2>4, <2>5, Zenon
  <2> QED  BY <2>6, Zenon DEF from
<1>8. \A k : ListOffset(lists, k) = LengthBefore(pieces, k)
  BY DEF ListOffset, pieces
<1>9. Len(list) = 1 + ListOffset(lists, N + 1) /\ ListOffset(lists, 1) = 0
  BY <1>4, <1>6, <1>8
<1>10. ASSUME NEW k \in 1..N
       PROVE  /\ ListOffset(lists, k) \in Nat
              /\ ListOffset(lists, k + 1) = ListOffset(lists, k) + 1 + Len(lists[k])
              /\ ListOffset(lists, k) + 2 + Len(lists[k]) <= Len(list)
              /\ list[ListOffset(lists, k) + 2] = Len(lists[k])
              /\ \A i \in 1..Len(lists[k]) : list[ListOffset(lists, k) + 2 + i] = lists[k][i]
  <2>1. /\ ListOffset(lists, k) = LengthBefore(pieces, k)
        /\ ListOffset(lists, k + 1) = LengthBefore(pieces, k + 1)
    BY <1>8
  <2> QED  BY <1>7, <2>1, Zenon
<1> QED  BY <1>6, <1>9, <1>10 DEF list, N

-----------------------------------------------------------------------------
(* The library reads them one after the other.                             *)

\* As far as the tensor goes it has the list at the index.
Holds(tensor, index, list) ==
    \A p \in 1..Len(list) : index + p - 1 <= Len(tensor) => tensor[index + p - 1] = list[p]

StartAfter(tensor, start) ==
    IF start \notin DOMAIN tensor THEN Len(tensor) + 2 ELSE start + 1 + tensor[start]

AreStarts(start, n, tensor, index) ==
    start = [k \in 1..n |-> IF k = 1 THEN index + 1 ELSE StartAfter(tensor, start[k - 1])]

\* The recursive function of StartsOfLists exists.
LEMMA StartsExist ==
    ASSUME NEW N \in Nat, NEW tensor, NEW index
    PROVE  \E start : AreStarts(start, N, tensor, index)
<1> DEFINE S == {n \in Nat : \E f : AreStarts(f, n, tensor, index)}
<1>1. 0 \in S
  <2> DEFINE none == [i \in 1..0 |-> 0]
  <2>1. none = [k \in 1..0 |-> IF k = 1 THEN index + 1 ELSE StartAfter(tensor, none[k - 1])]
    OBVIOUS
  <2> QED  BY <2>1 DEF AreStarts
<1>2. ASSUME NEW n \in 0..(N - 1), n \in S PROVE n + 1 \in S
  <2>1. PICK f : AreStarts(f, n, tensor, index)  BY <1>2
  <2> DEFINE last == IF n = 0 THEN index + 1 ELSE StartAfter(tensor, f[n])
             next == [k \in 1..(n + 1) |-> IF k = n + 1 THEN last ELSE f[k]]
  <2>2. /\ next = [k \in 1..(n + 1) |-> next[k]]
        /\ \A k \in 1..n : next[k] = f[k]
        /\ next[n + 1] = last
    <3> HIDE DEF last
    <3> QED  OBVIOUS
  <2> HIDE DEF next
  <2>3. ASSUME NEW k \in 1..(n + 1)
        PROVE  next[k] = IF k = 1 THEN index + 1 ELSE StartAfter(tensor, next[k - 1])
    <3>1. CASE k = n + 1 /\ n = 0
      BY <2>2, <3>1
    <3>2. CASE k = n + 1 /\ n # 0
      <4>1. k - 1 = n /\ n \in 1..n /\ k # 1  BY <3>2
      <4>2. next[k - 1] = f[n]  BY <2>2, <4>1
      <4>3. next[k] = StartAfter(tensor, f[n])  BY <2>2, <3>2
      <4> QED  BY <4>1, <4>2, <4>3
    <3>3. CASE k # n + 1
      <4>1. k \in 1..n  BY <3>3
      <4>2. f[k] = IF k = 1 THEN index + 1 ELSE StartAfter(tensor, f[k - 1])
        BY <2>1, <4>1, Zenon DEF AreStarts
      <4>3. k # 1 => k - 1 \in 1..n  BY <4>1
      <4>4. k # 1 => next[k - 1] = f[k - 1]  BY <2>2, <4>3
      <4>5. next[k] = f[k]  BY <2>2, <4>1
      <4> QED  BY <4>2, <4>4, <4>5
    <3> QED  BY <3>1, <3>2, <3>3
  <2>4. [k \in 1..(n + 1) |-> next[k]] =
          [k \in 1..(n + 1) |-> IF k = 1 THEN index + 1 ELSE StartAfter(tensor, next[k - 1])]
    BY <2>3
  <2>5. AreStarts(next, n + 1, tensor, index)  BY <2>2, <2>4 DEF AreStarts
  <2>6. n + 1 \in Nat  OBVIOUS
  <2> QED  BY <2>5, <2>6
<1> HIDE DEF S
<1>3. N \in S
  <2>1. \A n \in 0..N : n \in S  BY <1>1, <1>2, CountingUp
  <2> QED  BY <2>1
<1> QED  BY <1>3 DEF S

\* StartsOfLists is its recursive function.
LEMMA StartsAre ==
    ASSUME NEW tensor, NEW index, tensor[index] + 1 \in Nat
    PROVE  AreStarts(StartsOfLists(tensor, index), tensor[index] + 1, tensor, index)
<1>1. \E start : AreStarts(start, tensor[index] + 1, tensor, index)
  BY StartsExist
<1>2. StartsOfLists(tensor, index) = CHOOSE start : AreStarts(start, tensor[index] + 1, tensor, index)
  BY DEF StartsOfLists, AreStarts, StartAfter
<1> QED  BY <1>1, <1>2

\* A list of lists is read from where it is, if all of it is there.
LEMMA HypergraphRead ==
    ASSUME NEW lists \in Seq(Seq(Int)), NEW tensor \in Seq(Int), NEW index \in Nat \ {0},
           Holds(tensor, index, EncodeNestedLists(lists))
    PROVE  GetNextHypergraph(tensor, index) =
             IF index + Len(EncodeNestedLists(lists)) - 1 <= Len(tensor)
             THEN [ok |-> TRUE, next |-> index + Len(EncodeNestedLists(lists)), lists |-> lists]
             ELSE Refused
<1> DEFINE list == EncodeNestedLists(lists)
           N == Len(lists)
           L == Len(tensor)
           at(k) == ListOffset(lists, k)
           size == Len(list)
           len(k) == Len(lists[k])
<1>1. /\ list \in Seq(Int) /\ list[1] = N /\ size = 1 + at(N + 1) /\ at(1) = 0
      /\ \A k \in 1..N : /\ at(k) \in Nat /\ at(k + 1) = at(k) + 1 + len(k)
                         /\ at(k) + 2 + len(k) <= size
                         /\ list[at(k) + 2] = len(k)
                         /\ \A i \in 1..len(k) : list[at(k) + 2 + i] = lists[k][i]
  BY EncodedLists
<1>2. N \in Nat /\ L \in Nat /\ size \in Nat /\ index \in Nat /\ index >= 1
  BY <1>1
<1>7. DOMAIN tensor = 1..L /\ \A k \in 1..N : lists[k] \in Seq(Int) /\ len(k) \in Nat
  OBVIOUS
<1>3. \A p \in 1..size : index + p - 1 <= L => tensor[index + p - 1] = list[p]
  BY DEF Holds
<1>4. at(N + 1) \in Nat /\ size >= 1 /\ \A k \in 1..(N + 1) : at(k) \in Nat
  <2> HIDE DEF at, list, N, L, size, len
  <2>1. ASSUME NEW k \in 1..(N + 1) PROVE at(k) \in Nat
    <3>1. CASE k = 1  BY <1>1, <3>1
    <3>2. CASE k # 1
      <4>1. k - 1 \in 1..N /\ (k - 1) + 1 = k  BY <1>2, <3>2
      <4>2. at((k - 1) + 1) = at(k - 1) + 1 + len(k - 1) /\ at(k - 1) \in Nat
        BY <1>1, <4>1
      <4>3. len(k - 1) \in Nat  BY <1>7, <4>1
      <4> QED  BY <4>1, <4>2, <4>3
    <3> QED  BY <3>1, <3>2
  <2>2. N + 1 \in 1..(N + 1)  BY <1>2
  <2> QED  BY <1>1, <1>2, <2>1, <2>2
<1> HIDE DEF list, N, L, at, size, len
<1>5. CASE index > L
  BY <1>2, <1>4, <1>5, <1>7 DEF GetNextHypergraph, list, L, size
<1>6. CASE index <= L
  <2>1. index \in DOMAIN tensor  BY <1>2, <1>6, <1>7
  <2>2. tensor[index] = N
    <3>1. 1 \in 1..size /\ index + 1 - 1 = index  BY <1>2, <1>4
    <3> QED  BY <1>1, <1>3, <1>6, <3>1
  <2> DEFINE start == StartsOfLists(tensor, index)
  <2>3. \A k \in 1..(N + 1) : start[k] = IF k = 1 THEN index + 1 ELSE StartAfter(tensor, start[k - 1])
    <3>1. tensor[index] + 1 \in Nat  BY <1>2, <2>2
    <3>2. AreStarts(start, tensor[index] + 1, tensor, index)  BY <3>1, StartsAre
    <3> HIDE DEF start
    <3> QED  BY <2>2, <3>2, Zenon DEF AreStarts
  <2> HIDE DEF start
  <2> DEFINE Right(k) ==
               start[k] = IF k = 1 \/ index + 1 + at(k - 1) <= L THEN index + 1 + at(k) ELSE L + 2
             S == {k \in 1..(N + 1) : Right(k)}
  <2>4. Right(1)
    <3>1. 1 \in 1..(N + 1)  BY <1>2
    <3> QED  BY <1>1, <1>2, <2>3, <3>1
  <2>5. ASSUME NEW k \in 1..N, Right(k) PROVE Right(k + 1)
    <3>1. /\ k + 1 \in 1..(N + 1) /\ k \in 1..(N + 1) /\ k + 1 # 1 /\ (k + 1) - 1 = k
          /\ at(k) \in Nat
      BY <1>2, <1>4
    <3>2. start[k + 1] = StartAfter(tensor, start[k])  BY <2>3, <3>1
    <3>3. CASE index + 1 + at(k) <= L
      <4>1. k = 1 \/ index + 1 + at(k - 1) <= L
        <5> SUFFICES ASSUME k # 1 PROVE index + 1 + at(k - 1) <= L
          OBVIOUS
        <5>1. k - 1 \in 1..N /\ (k - 1) + 1 = k  BY <1>2
        <5>2. at((k - 1) + 1) = at(k - 1) + 1 + len(k - 1) /\ at(k - 1) \in Nat
              /\ len(k - 1) \in Nat
          BY <1>1, <1>7, <5>1
        <5> QED  BY <1>2, <3>3, <5>1, <5>2
      <4>2. start[k] = index + 1 + at(k)  BY <2>5, <4>1
      <4>3. start[k] \in DOMAIN tensor  BY <1>2, <1>7, <3>1, <3>3, <4>2
      <4>4. tensor[start[k]] = len(k)
        <5>1. at(k) + 2 + len(k) <= size /\ len(k) \in Nat
          BY <1>1, <1>7
        <5>2. at(k) + 2 \in 1..size /\ index + (at(k) + 2) - 1 = start[k] /\ start[k] <= L
          BY <1>2, <3>1, <3>3, <4>2, <5>1
        <5>3. tensor[index + (at(k) + 2) - 1] = list[at(k) + 2]  BY <1>3, <5>2
        <5>4. list[at(k) + 2] = len(k)  BY <1>1
        <5> QED  BY <5>2, <5>3, <5>4
      <4>5. start[k + 1] = start[k] + 1 + len(k)
        BY <3>2, <4>3, <4>4 DEF StartAfter
      <4>6. at(k + 1) = at(k) + 1 + len(k) /\ len(k) \in Nat  BY <1>1, <1>7
      <4>7. start[k + 1] = index + 1 + at(k + 1)
        <5> DEFINE a == at(k)
                   b == at(k + 1)
                   l == len(k)
        <5>1. a \in Nat /\ index \in Nat /\ l \in Nat /\ b = a + 1 + l
          BY <1>2, <3>1, <4>6
        <5>2. start[k + 1] = index + 1 + a + 1 + l  BY <4>2, <4>5
        <5> HIDE DEF a, b, l
        <5>3. start[k + 1] = index + 1 + b  BY <5>1, <5>2
        <5> QED  BY <5>3 DEF b
      <4> QED  BY <3>1, <3>3, <4>7
    <3>4. CASE index + 1 + at(k) > L
      <4>1. start[k] \notin DOMAIN tensor
        BY <1>2, <1>7, <2>5, <3>1, <3>4
      <4>2. start[k + 1] = L + 2  BY <3>2, <4>1 DEF StartAfter, L
      <4> QED  BY <1>2, <3>1, <3>4, <4>2
    <3> QED  BY <1>2, <3>1, <3>3, <3>4
  <2>6. \A k \in 1..(N + 1) : Right(k)
    <3>1. 1 \in S  BY <1>2, <2>4
    <3>2. \A k \in 1..((N + 1) - 1) : k \in S => k + 1 \in S
      <4>1. (N + 1) - 1 = N /\ \A k \in 1..N : k + 1 \in 1..(N + 1)  BY <1>2
      <4> HIDE DEF Right
      <4> QED  BY <2>5, <4>1
    <3> HIDE DEF S, Right
    <3>3. \A k \in 1..(N + 1) : k \in S
      <4>1. 1 \in Nat /\ N + 1 \in Nat  BY <1>2
      <4> QED  BY <3>1, <3>2, <4>1, CountingUp
    <3> QED  BY <3>3 DEF S
  <2>7. CASE index + size - 1 <= L
    <3>1. ASSUME NEW k \in 1..(N + 1) PROVE start[k] = index + 1 + at(k)
      <4>1. CASE k = 1  BY <2>6, <4>1
      <4>2. CASE k # 1
        <5>1. k - 1 \in 1..N  BY <1>2, <4>2
        <5>2. at(k - 1) + 2 + len(k - 1) <= size /\ at(k - 1) \in Nat
              /\ len(k - 1) \in Nat
          BY <1>1, <1>7, <5>1
        <5>3. index + 1 + at(k - 1) <= L  BY <1>2, <2>7, <5>2
        <5> QED  BY <2>6, <5>3
      <4> QED  BY <4>1, <4>2
    <3>2. start[N + 1] = index + size /\ start[N + 1] <= L + 1
      <4>1. N + 1 \in 1..(N + 1)  BY <1>2
      <4>2. start[N + 1] = index + 1 + at(N + 1)  BY <3>1, <4>1
      <4>3. size = 1 + at(N + 1) /\ at(N + 1) \in Nat  BY <1>1, <1>4
      <4> DEFINE a == at(N + 1)
      <4>4. a \in Nat /\ size = 1 + a /\ start[N + 1] = index + 1 + a  BY <4>2, <4>3
      <4> HIDE DEF a
      <4> QED  BY <1>2, <2>7, <4>4
    <3>3. ASSUME NEW k \in 1..N
          PROVE  SubSeq(tensor, start[k] + 1, start[k + 1] - 1) = lists[k]
      <4> DEFINE l == lists[k]
                 from == index + 1 + at(k)
      <4>1. l \in Seq(Int) /\ len(k) \in Nat /\ from \in Nat /\ at(k) \in Nat
        <5>1. at(k) \in Nat  BY <1>1
        <5> QED  BY <1>2, <1>7, <5>1
      <4>2. start[k] = from /\ start[k + 1] = from + 1 + len(k)
        <5>1. k \in 1..(N + 1) /\ k + 1 \in 1..(N + 1) /\ at(k + 1) = at(k) + 1 + len(k)
          BY <1>1, <1>2
        <5>2. start[k] = index + 1 + at(k) /\ start[k + 1] = index + 1 + at(k + 1)
          BY <3>1, <5>1
        <5> HIDE DEF l
        <5> DEFINE a == at(k)
                   b == at(k + 1)
                   n == len(k)
        <5>3. n \in Nat /\ a \in Nat /\ b = a + 1 + n  BY <4>1, <5>1
        <5>4. start[k] = index + 1 + a /\ start[k + 1] = index + 1 + b  BY <5>2
        <5> HIDE DEF a, b, n
        <5>5. start[k] = index + 1 + a /\ start[k + 1] = index + 1 + a + 1 + n
          BY <1>2, <5>3, <5>4
        <5> QED  BY <5>5 DEF a, n
      <4>3. \A i \in 1..len(k) : list[at(k) + 2 + i] = l[i]  BY <1>1
      <4>4. at(k) + 2 + len(k) <= size  BY <1>1
      <4> HIDE DEF l, S, Right
      <4>5. ASSUME NEW i \in 1..len(k) PROVE tensor[from + i] = l[i]
        <5>1. /\ at(k) + 2 + i \in 1..size
              /\ index + (at(k) + 2 + i) - 1 = from + i
              /\ from + i <= L
          <6> DEFINE a == at(k)
                     n == len(k)
          <6>1. n \in Nat /\ a \in Nat /\ a + 2 + n <= size /\ from = index + 1 + a /\ i \in 1..n
            BY <4>1, <4>4
          <6> HIDE DEF a, n, from
          <6>2. a + 2 + i \in 1..size /\ index + (a + 2 + i) - 1 = from + i /\ from + i <= L
            BY <1>2, <2>7, <6>1
          <6> QED  BY <6>2 DEF a
        <5> QED  BY <1>3, <4>3, <5>1
      <4>6. from + len(k) <= L /\ from >= 1
        <5>1. len(k) \in Nat /\ at(k) \in Nat  BY <4>1
        <5> QED  BY <1>2, <2>7, <4>4, <5>1
      <4> HIDE DEF from
      <4>7. SubSeq(tensor, from + 1, from + len(k)) = l
        BY <1>2, <4>1, <4>5, <4>6 DEF L, len, l
      <4>8. start[k] + 1 = from + 1 /\ start[k + 1] - 1 = from + len(k)  BY <4>1, <4>2
      <4> QED  BY <4>7, <4>8 DEF l
    <3>4. [k \in 1..N |-> SubSeq(tensor, start[k] + 1, start[k + 1] - 1)] = lists
      <4>1. [k \in 1..N |-> SubSeq(tensor, start[k] + 1, start[k + 1] - 1)] = [k \in 1..N |-> lists[k]]
        BY <3>3
      <4>2. lists = [k \in 1..N |-> lists[k]]  BY DEF N
      <4> QED  BY <4>1, <4>2
    <3>5. ~(start[N + 1] > L + 1)  BY <1>2, <3>2
    <3>6. GetNextHypergraph(tensor, index) =
            [ok |-> TRUE, next |-> start[N + 1],
             lists |-> [k \in 1..N |-> SubSeq(tensor, start[k] + 1, start[k + 1] - 1)]]
      BY <2>1, <2>2, <3>5, Zenon DEF GetNextHypergraph, start, L
    <3> QED  BY <2>7, <3>2, <3>4, <3>6 DEF list, L, size
  <2>8. CASE index + size - 1 > L
    <3>1. start[N + 1] > L + 1
      <4>1. N + 1 \in 1..(N + 1)  BY <1>2
      <4>2. index + 1 + at(N + 1) > L + 1
        <5> DEFINE a == at(N + 1)
        <5>1. size = 1 + a /\ a \in Nat  BY <1>1, <1>4
        <5> HIDE DEF a
        <5>2. index + 1 + a > L + 1  BY <1>2, <2>8, <5>1
        <5> QED  BY <5>2 DEF a
      <4>3. start[N + 1] = index + 1 + at(N + 1) \/ start[N + 1] = L + 2  BY <2>6, <4>1
      <4> QED  BY <1>2, <4>2, <4>3
    <3>2. GetNextHypergraph(tensor, index) = Refused
      BY <2>1, <2>2, <3>1 DEF GetNextHypergraph, start, L
    <3>3. ~(index + size - 1 <= L)  BY <1>2, <2>8
    <3> QED  BY <3>2, <3>3 DEF list, L, size
  <2> QED  BY <1>2, <2>7, <2>8
<1> QED  BY <1>2, <1>5, <1>6

\* A part of a list is where the list has it.
LEMMA PartHeld ==
    ASSUME NEW tensor \in Seq(Int), NEW index \in Nat, NEW offset \in Nat,
           NEW list \in Seq(Int), NEW part \in Seq(Int),
           offset + Len(part) <= Len(list),
           \A p \in 1..Len(part) : list[offset + p] = part[p],
           Holds(tensor, index, list)
    PROVE  Holds(tensor, index + offset, part)
<1> DEFINE L == Len(tensor)
           size == Len(list)
           n == Len(part)
<1>1. L \in Nat /\ size \in Nat /\ n \in Nat /\ offset + n <= size
  OBVIOUS
<1>2. \A p \in 1..size : index + p - 1 <= L => tensor[index + p - 1] = list[p]
  BY DEF Holds
<1>3. \A p \in 1..n : list[offset + p] = part[p]
  OBVIOUS
<1> HIDE DEF L, size, n
<1>4. ASSUME NEW p \in 1..n, (index + offset) + p - 1 <= L
      PROVE  tensor[(index + offset) + p - 1] = part[p]
  <2>1. offset + p \in 1..size /\ index + (offset + p) - 1 = (index + offset) + p - 1
    BY <1>1
  <2>2. tensor[index + (offset + p) - 1] = list[offset + p]
    BY <1>2, <1>4, <2>1
  <2> QED  BY <1>3, <2>1, <2>2
<1> QED  BY <1>4 DEF Holds, L, n

-----------------------------------------------------------------------------
(* Rules.                                                                  *)

\* Two lists of numbers, one after the other.
LEMMA Joined ==
    ASSUME NEW s \in Seq(Int), NEW t \in Seq(Int)
    PROVE  /\ s \o t \in Seq(Int)
           /\ Len(s \o t) = Len(s) + Len(t)
           /\ \A p \in 1..Len(s) : (s \o t)[p] = s[p]
           /\ \A p \in 1..Len(t) : (s \o t)[Len(s) + p] = t[p]
OBVIOUS

RuleSet == [inputs : Seq(Seq(Int)), outputs : Seq(Seq(Int)), spacelike : BOOLEAN]

EncodedRule(rule) ==
    <<2>> \o EncodeNestedLists(rule.inputs) \o EncodeNestedLists(rule.outputs)

EncodedEach(rules) == [r \in DOMAIN rules |-> EncodedRule(rules[r])]

\* How far from the first rule the r-th one starts.
RuleOffset(rules, r) == LengthBefore(EncodedEach(rules), r)

\* The parts of an encoded rule.
LEMMA RuleParts ==
    ASSUME NEW rule \in RuleSet
    PROVE  LET inputs == EncodeNestedLists(rule.inputs)
               outputs == EncodeNestedLists(rule.outputs)
           IN  /\ EncodedRule(rule) \in Seq(Int)
               /\ inputs \in Seq(Int) /\ outputs \in Seq(Int)
               /\ Len(EncodedRule(rule)) = 1 + Len(inputs) + Len(outputs)
               /\ EncodedRule(rule)[1] = 2
               /\ \A p \in 1..Len(inputs) : EncodedRule(rule)[1 + p] = inputs[p]
               /\ \A p \in 1..Len(outputs) : EncodedRule(rule)[1 + Len(inputs) + p] = outputs[p]
<1> DEFINE inputs == EncodeNestedLists(rule.inputs)
           outputs == EncodeNestedLists(rule.outputs)
<1>1. inputs \in Seq(Int) /\ outputs \in Seq(Int)
  BY EncodedLists DEF RuleSet
<1>2. EncodedRule(rule) = <<2>> \o inputs \o outputs
  BY DEF EncodedRule
<1> HIDE DEF inputs, outputs
<1> DEFINE first == <<2>> \o inputs
<1>3. /\ first \in Seq(Int) /\ Len(first) = 1 + Len(inputs) /\ first[1] = 2
      /\ \A p \in 1..Len(inputs) : first[1 + p] = inputs[p]
  BY <1>1
<1>4. <<2>> \o inputs \o outputs = first \o outputs
  OBVIOUS
<1> HIDE DEF first
<1>5. /\ first \o outputs \in Seq(Int)
      /\ Len(first \o outputs) = Len(first) + Len(outputs)
      /\ \A p \in 1..Len(first) : (first \o outputs)[p] = first[p]
      /\ \A p \in 1..Len(outputs) : (first \o outputs)[Len(first) + p] = outputs[p]
  <2>1. first \in Seq(Int) /\ outputs \in Seq(Int)  BY <1>1, <1>3
  <2> QED  BY <2>1, Joined
<1> DEFINE all == first \o outputs
           i == Len(inputs)
           o == Len(outputs)
<1>6. /\ all \in Seq(Int) /\ Len(all) = 1 + i + o
      /\ \A p \in 1..(1 + i) : all[p] = first[p]
      /\ \A p \in 1..o : all[1 + i + p] = outputs[p]
      /\ \A p \in 1..i : first[1 + p] = inputs[p]
      /\ first[1] = 2
      /\ i \in Nat /\ o \in Nat
  <2>1. i \in Nat /\ o \in Nat  BY ONLY <1>1
  <2>2. /\ all \in Seq(Int) /\ Len(all) = Len(first) + o
        /\ \A p \in 1..Len(first) : all[p] = first[p]
        /\ \A p \in 1..o : all[Len(first) + p] = outputs[p]
    BY ONLY <1>5
  <2>3. /\ Len(first) = 1 + i /\ first[1] = 2 /\ \A p \in 1..i : first[1 + p] = inputs[p]
    BY ONLY <1>3
  <2> HIDE DEF all, i, o
  <2> QED  BY ONLY <2>1, <2>2, <2>3
<1> HIDE DEF all, i, o
<1>7. all[1] = 2 /\ \A p \in 1..i : all[1 + p] = inputs[p]
  <2>1. 1 \in 1..(1 + i) /\ \A p \in 1..i : 1 + p \in 1..(1 + i)  BY <1>6
  <2> QED  BY <1>6, <2>1
<1>8. EncodedRule(rule) = all  BY <1>2, <1>4 DEF all
<1> QED  BY <1>1, <1>6, <1>7, <1>8 DEF i, o, inputs, outputs

\* Where an encoded list of rules has each of its rules.
LEMMA EncodedRules ==
    ASSUME NEW rules \in Seq(RuleSet)
    PROVE  LET list == EncodeRules(rules)
           IN  /\ list \in Seq(Int)
               /\ list[1] = Len(rules)
               /\ Len(list) = 1 + RuleOffset(rules, Len(rules) + 1)
               /\ RuleOffset(rules, 1) = 0
               /\ \A r \in 1..Len(rules) :
                    /\ RuleOffset(rules, r) \in Nat
                    /\ RuleOffset(rules, r + 1) = RuleOffset(rules, r) + Len(EncodedRule(rules[r]))
                    /\ RuleOffset(rules, r) + 1 + Len(EncodedRule(rules[r])) <= Len(list)
                    /\ \A p \in 1..Len(EncodedRule(rules[r])) :
                         list[RuleOffset(rules, r) + 1 + p] = EncodedRule(rules[r])[p]
<1> DEFINE pieces == EncodedEach(rules)
           flat == FlattenSeq(pieces)
           N == Len(rules)
<1>1. N \in Nat /\ DOMAIN rules = 1..N /\ \A r \in 1..N : rules[r] \in RuleSet
  OBVIOUS
<1>2. \A r \in 1..N : pieces[r] = EncodedRule(rules[r]) /\ EncodedRule(rules[r]) \in Seq(Int)
  <2> TAKE r \in 1..N
  <2>1. pieces[r] = EncodedRule(rules[r])  BY <1>1 DEF EncodedEach
  <2>2. rules[r] \in RuleSet  BY <1>1
  <2> QED  BY <2>1, <2>2, RuleParts
<1>3. pieces \in Seq(Seq(Int)) /\ Len(pieces) = N
  <2>1. pieces = [r \in 1..N |-> pieces[r]]  BY <1>1 DEF EncodedEach
  <2> HIDE DEF pieces, N
  <2>2. pieces \in [1..N -> Seq(Int)]  BY <1>2, <2>1
  <2> QED  BY <1>1, <2>2
<1> HIDE DEF pieces
<1>4. /\ flat \in Seq(Int)
      /\ LengthBefore(pieces, 1) = 0
      /\ LengthBefore(pieces, N + 1) = Len(flat)
      /\ \A n \in 1..N :
           /\ LengthBefore(pieces, n + 1) = LengthBefore(pieces, n) + Len(pieces[n])
           /\ LengthBefore(pieces, n) \in Nat
           /\ LengthBefore(pieces, n) + Len(pieces[n]) <= Len(flat)
           /\ \A i \in 1..Len(pieces[n]) : flat[LengthBefore(pieces, n) + i] = pieces[n][i]
  <2> HIDE DEF N
  <2> QED  BY <1>3, FlattenedLists
<1> DEFINE list == EncodeRules(rules)
<1>5. list = <<N>> \o flat  BY DEF EncodeRules, pieces, EncodedEach, EncodedRule
<1> HIDE DEF flat, list, N
<1>6. /\ list \in Seq(Int) /\ list[1] = N /\ Len(list) = 1 + Len(flat)
      /\ \A p \in 1..Len(flat) : list[1 + p] = flat[p]
      /\ Len(flat) \in Nat
  BY <1>1, <1>4, <1>5
<1>7. \A r : RuleOffset(rules, r) = LengthBefore(pieces, r)
  BY DEF RuleOffset, pieces
<1>8. ASSUME NEW r \in 1..N
      PROVE  /\ RuleOffset(rules, r) \in Nat
             /\ RuleOffset(rules, r + 1) = RuleOffset(rules, r) + Len(EncodedRule(rules[r]))
             /\ RuleOffset(rules, r) + 1 + Len(EncodedRule(rules[r])) <= Len(list)
             /\ \A p \in 1..Len(EncodedRule(rules[r])) :
                  list[RuleOffset(rules, r) + 1 + p] = EncodedRule(rules[r])[p]
  <2> DEFINE from == RuleOffset(rules, r)
             piece == EncodedRule(rules[r])
             n == Len(piece)
             total == Len(flat)
             size == Len(list)
  <2>1. /\ from \in Nat /\ n \in Nat /\ total \in Nat /\ size = 1 + total
        /\ RuleOffset(rules, r + 1) = from + n
        /\ from + n <= total
        /\ \A i \in 1..n : flat[from + i] = piece[i]
    <3>1. pieces[r] = piece /\ from = LengthBefore(pieces, r)  BY <1>2, <1>7
    <3>2. RuleOffset(rules, r + 1) = LengthBefore(pieces, r + 1)  BY <1>7
    <3>3. n \in Nat /\ total \in Nat /\ size = 1 + total  BY <1>2, <1>6
    <3> HIDE DEF piece, from, size
    <3> QED  BY <1>4, <3>1, <3>2, <3>3
  <2>2. \A p \in 1..total : list[1 + p] = flat[p]  BY <1>6
  <2> HIDE DEF from, piece, n, total, size
  <2>3. ASSUME NEW p \in 1..n PROVE list[from + 1 + p] = piece[p]
    <3>1. from + p \in 1..total /\ 1 + (from + p) = from + 1 + p  BY <2>1
    <3>2. list[1 + (from + p)] = flat[from + p]  BY <2>2, <3>1
    <3> QED  BY <2>1, <3>1, <3>2
  <2>4. from + 1 + n <= size  BY <2>1
  <2> QED  BY <2>1, <2>3, <2>4 DEF from, piece, n, size
<1>9. Len(list) = 1 + RuleOffset(rules, N + 1) /\ RuleOffset(rules, 1) = 0
  BY <1>4, <1>6, <1>7
<1> QED  BY <1>6, <1>8, <1>9 DEF list, N

\* The rules read after each of them.
AreRead(read, n, tensor, codes) ==
    read = [r \in 0..n |-> IF r = 0 THEN [ok |-> TRUE, next |-> 2, rules |-> <<>>]
                           ELSE ReadRule(tensor, codes[r], read[r - 1])]

\* The rules read so far are a function too.
LEMMA ReadExists ==
    ASSUME NEW N \in Nat, NEW tensor, NEW codes
    PROVE  \E read : AreRead(read, N, tensor, codes)
<1> DEFINE S == {n \in Nat : \E f : AreRead(f, n, tensor, codes)}
           none == [ok |-> TRUE, next |-> 2, rules |-> <<>>]
<1> HIDE DEF none
<1>1. 0 \in S
  <2> DEFINE first == [r \in 0..0 |-> none]
  <2>1. first = [r \in 0..0 |-> IF r = 0 THEN none ELSE ReadRule(tensor, codes[r], first[r - 1])]
    OBVIOUS
  <2> QED  BY <2>1 DEF AreRead, none
<1>2. ASSUME NEW n \in 0..(N - 1), n \in S PROVE n + 1 \in S
  <2>1. PICK f : AreRead(f, n, tensor, codes)  BY <1>2
  <2>2. f = [r \in 0..n |-> IF r = 0 THEN none ELSE ReadRule(tensor, codes[r], f[r - 1])]
    BY <2>1, Zenon DEF AreRead, none
  <2> DEFINE last == ReadRule(tensor, codes[n + 1], f[n])
             next == [r \in 0..(n + 1) |-> IF r = n + 1 THEN last ELSE f[r]]
  <2>3. /\ next = [r \in 0..(n + 1) |-> next[r]]
        /\ \A r \in 0..n : next[r] = f[r]
        /\ next[n + 1] = last
    <3> HIDE DEF last
    <3> QED  OBVIOUS
  <2> HIDE DEF next
  <2>4. ASSUME NEW r \in 0..(n + 1)
        PROVE  next[r] = IF r = 0 THEN none ELSE ReadRule(tensor, codes[r], next[r - 1])
    <3>1. CASE r = n + 1
      <4>1. r - 1 = n /\ n \in 0..n /\ r # 0  BY <3>1
      <4> QED  BY <2>3, <3>1, <4>1
    <3>2. CASE r # n + 1
      <4>1. r \in 0..n  BY <3>2
      <4>2. f[r] = IF r = 0 THEN none ELSE ReadRule(tensor, codes[r], f[r - 1])
        BY <2>2, <4>1, Zenon
      <4>3. r # 0 => r - 1 \in 0..n  BY <4>1
      <4>4. r # 0 => next[r - 1] = f[r - 1]  BY <2>3, <4>3
      <4>5. next[r] = f[r]  BY <2>3, <4>1
      <4> QED  BY <4>2, <4>4, <4>5
    <3> QED  BY <3>1, <3>2
  <2>5. [r \in 0..(n + 1) |-> next[r]] =
          [r \in 0..(n + 1) |-> IF r = 0 THEN none ELSE ReadRule(tensor, codes[r], next[r - 1])]
    BY <2>4
  <2>6. AreRead(next, n + 1, tensor, codes)  BY <2>3, <2>5 DEF AreRead, none
  <2>7. n + 1 \in Nat  OBVIOUS
  <2> QED  BY <2>6, <2>7
<1> HIDE DEF S
<1>3. N \in S
  <2>1. \A n \in 0..N : n \in S  BY <1>1, <1>2, CountingUp
  <2> QED  BY <2>1
<1> QED  BY <1>3 DEF S

ReadUpTo(index, rules) == [ok |-> TRUE, next |-> index, rules |-> rules]

\* The rules read when a rule is next in the tensor.
ReadWith(rule, tensor, index, selection, rules) ==
    IF index + Len(EncodedRule(rule)) - 1 <= Len(tensor)
    THEN [ok |-> TRUE, next |-> index + Len(EncodedRule(rule)),
          rules |-> Append(rules, [inputs |-> rule.inputs, outputs |-> rule.outputs,
                                   spacelike |-> selection = 1])]
    ELSE Refused

\* One more rule is read if all of it is there.
LEMMA RuleRead ==
    ASSUME NEW rule \in RuleSet, NEW tensor \in Seq(Int), NEW index \in Nat \ {0},
           Holds(tensor, index, EncodedRule(rule)), NEW selection,
           NEW rest
    PROVE  ReadRule(tensor, selection, ReadUpTo(index, rest)) =
             ReadWith(rule, tensor, index, selection, rest)
<1> DEFINE inputs == EncodeNestedLists(rule.inputs)
           outputs == EncodeNestedLists(rule.outputs)
           list == EncodedRule(rule)
           i == Len(inputs)
           o == Len(outputs)
           L == Len(tensor)
<1>1. /\ list \in Seq(Int) /\ inputs \in Seq(Int) /\ outputs \in Seq(Int)
      /\ Len(list) = 1 + i + o
      /\ list[1] = 2
      /\ \A p \in 1..i : list[1 + p] = inputs[p]
      /\ \A p \in 1..o : list[1 + i + p] = outputs[p]
      /\ rule.inputs \in Seq(Seq(Int)) /\ rule.outputs \in Seq(Seq(Int))
  BY RuleParts DEF RuleSet
<1>2. i \in Nat /\ o \in Nat /\ L \in Nat /\ index \in Nat /\ index >= 1 /\ Len(list) \in Nat
      /\ DOMAIN tensor = 1..L
  BY <1>1
<1>3. Holds(tensor, index, list)  OBVIOUS
<1> HIDE DEF inputs, outputs, list, i, o, L
<1> DEFINE size == Len(list)
<1>4. size = 1 + i + o  BY <1>1
<1>5. Holds(tensor, index + 1, inputs)
  <2>1. 1 + Len(inputs) <= Len(list)  BY <1>2, <1>4 DEF i
  <2>2. \A p \in 1..Len(inputs) : list[1 + p] = inputs[p]  BY <1>1 DEF i
  <2>3. 1 \in Nat  OBVIOUS
  <2> QED  BY <1>1, <1>2, <1>3, <2>1, <2>2, <2>3, PartHeld
<1>6. Holds(tensor, index + (1 + i), outputs)
  <2>1. (1 + i) + Len(outputs) <= Len(list)  BY <1>2, <1>4 DEF o
  <2>2. \A p \in 1..Len(outputs) : list[(1 + i) + p] = outputs[p]  BY <1>1 DEF o
  <2>3. 1 + i \in Nat  BY <1>2
  <2> QED  BY <1>1, <1>2, <1>3, <2>1, <2>2, <2>3, PartHeld
<1> HIDE DEF size
<1> DEFINE firstRead == GetNextHypergraph(tensor, index + 1)
           secondRead == GetNextHypergraph(tensor, firstRead.next)
<1>7. firstRead = IF index + i <= L
                  THEN [ok |-> TRUE, next |-> index + (1 + i), lists |-> rule.inputs]
                  ELSE Refused
  <2>1. index + 1 \in Nat \ {0}  BY <1>2
  <2>2. firstRead = IF (index + 1) + i - 1 <= L
                    THEN [ok |-> TRUE, next |-> (index + 1) + i, lists |-> rule.inputs]
                    ELSE Refused
    BY <1>1, <1>5, <2>1, HypergraphRead DEF inputs, i, L
  <2>3. (index + 1) + i - 1 = index + i /\ (index + 1) + i = index + (1 + i)  BY <1>2
  <2> HIDE DEF firstRead
  <2> QED  BY <2>2, <2>3
<1>8. index + i <= L =>
        secondRead = IF index + i + o <= L
                     THEN [ok |-> TRUE, next |-> index + size, lists |-> rule.outputs]
                     ELSE Refused
  <2> SUFFICES ASSUME index + i <= L
               PROVE  secondRead = IF index + i + o <= L
                                   THEN [ok |-> TRUE, next |-> index + size, lists |-> rule.outputs]
                                   ELSE Refused
    OBVIOUS
  <2>1. index + (1 + i) \in Nat \ {0}  BY <1>2
  <2>2. firstRead.next = index + (1 + i)  BY <1>7
  <2> HIDE DEF firstRead
  <2>3. secondRead = GetNextHypergraph(tensor, index + (1 + i))  BY <2>2
  <2> HIDE DEF secondRead
  <2>4. secondRead = IF (index + (1 + i)) + o - 1 <= L
                     THEN [ok |-> TRUE, next |-> (index + (1 + i)) + o, lists |-> rule.outputs]
                     ELSE Refused
    BY <1>1, <1>6, <2>1, <2>3, HypergraphRead DEF outputs, o, L
  <2>5. (index + (1 + i)) + o - 1 = index + i + o /\ (index + (1 + i)) + o = index + size
    BY <1>2, <1>4
  <2> QED  BY <2>4, <2>5
<1>9. ReadRule(tensor, selection, ReadUpTo(index, rest)) =
        IF index \notin DOMAIN tensor THEN Refused
        ELSE IF tensor[index] # 2 \/ ~firstRead.ok THEN Refused
        ELSE IF ~secondRead.ok THEN Refused
        ELSE [ok |-> TRUE, next |-> secondRead.next,
              rules |-> Append(rest, [inputs |-> firstRead.lists, outputs |-> secondRead.lists,
                                            spacelike |-> selection = 1])]
  BY DEF ReadRule, ReadUpTo
<1>10. index <= L => tensor[index] = 2
  <2>1. 1 \in 1..Len(list) /\ index + 1 - 1 = index
    <3>1. size >= 1 /\ size \in Nat  BY <1>2, <1>4
    <3>2. 1 \in 1..size /\ index + 1 - 1 = index  BY <1>2, <3>1
    <3> QED  BY <3>2 DEF size
  <2> QED  BY <1>1, <1>3, <2>1 DEF Holds, L
<1> HIDE DEF firstRead, secondRead
<1>11. /\ index \in DOMAIN tensor <=> index <= L
       /\ index + size - 1 <= L <=> index + i + o <= L
       /\ index + i + o <= L => index + i <= L
       /\ index + i <= L => index <= L
  BY <1>2, <1>4
<1>12. CASE index + i + o <= L
  <2>1. firstRead = [ok |-> TRUE, next |-> index + (1 + i), lists |-> rule.inputs]
    BY <1>7, <1>11, <1>12
  <2>2. secondRead = [ok |-> TRUE, next |-> index + size, lists |-> rule.outputs]
    BY <1>8, <1>11, <1>12
  <2>3. firstRead.ok /\ secondRead.ok /\ secondRead.next = index + size
        /\ firstRead.lists = rule.inputs /\ secondRead.lists = rule.outputs
    BY <2>1, <2>2
  <2>4. index \in DOMAIN tensor /\ tensor[index] = 2  BY <1>10, <1>11, <1>12
  <2> QED  BY <1>9, <1>11, <1>12, <2>3, <2>4 DEF size, list, L, ReadWith
<1>13. CASE ~(index + i + o <= L)
  <2>1. ReadRule(tensor, selection, ReadUpTo(index, rest)) = Refused
    <3>1. CASE ~(index <= L)  BY <1>9, <1>11, <3>1
    <3>2. CASE index <= L /\ ~(index + i <= L)
      <4>1. ~firstRead.ok  BY <1>7, <3>2 DEF Refused
      <4> QED  BY <1>9, <4>1
    <3>3. CASE index + i <= L
      <4>1. ~secondRead.ok  BY <1>8, <1>13, <3>3 DEF Refused
      <4> QED  BY <1>9, <4>1
    <3> QED  BY <3>1, <3>2, <3>3
  <2> QED  BY <1>11, <1>13, <2>1 DEF size, list, L, ReadWith
<1> QED  BY <1>12, <1>13

\* The codes of the event selection tell the rules apart.
LEMMA SelectionCodes ==
    ASSUME NEW rules \in Seq(RuleSet)
    PROVE  /\ Len(EventSelectionCodes(rules)) = Len(rules)
           /\ \A r \in 1..Len(rules) : EventSelectionCodes(rules)[r] = 1 <=> rules[r].spacelike
<1> DEFINE codes == EventSelectionCodes(rules)
           N == Len(rules)
<1>1. N \in Nat /\ DOMAIN rules = 1..N  OBVIOUS
<1>2. codes = [r \in 1..N |-> IF rules[r].spacelike THEN 1 ELSE 0]
  BY <1>1 DEF EventSelectionCodes
<1> HIDE DEF N, codes
<1>3. \A r \in 1..N : codes[r] = 1 <=> rules[r].spacelike
  BY <1>2
<1>4. Len(codes) = N  BY <1>1, <1>2
<1> QED  BY <1>3, <1>4 DEF N, codes

\* Rules are read as they were sent, if all of the list is there.
LEMMA RulesRead ==
    ASSUME NEW rules \in Seq(RuleSet), NEW tensor \in Seq(Int),
           Holds(tensor, 1, EncodeRules(rules))
    PROVE  GetRules(tensor, EventSelectionCodes(rules)) =
             IF Len(EncodeRules(rules)) <= Len(tensor)
             THEN [ok |-> TRUE, next |-> Len(EncodeRules(rules)) + 1, rules |-> rules]
             ELSE Refused
<1> DEFINE list == EncodeRules(rules)
           codes == EventSelectionCodes(rules)
           N == Len(rules)
           L == Len(tensor)
           at(r) == RuleOffset(rules, r)
           size == Len(list)
           len(r) == Len(EncodedRule(rules[r]))
<1>1. /\ list \in Seq(Int) /\ list[1] = N /\ size = 1 + at(N + 1) /\ at(1) = 0
      /\ \A r \in 1..N : /\ at(r) \in Nat /\ at(r + 1) = at(r) + len(r)
                         /\ at(r) + 1 + len(r) <= size
                         /\ \A p \in 1..len(r) : list[at(r) + 1 + p] = EncodedRule(rules[r])[p]
  BY EncodedRules
<1>2. N \in Nat /\ L \in Nat /\ size \in Nat
  BY <1>1
<1>3. \A r \in 1..N : /\ rules[r] \in RuleSet
                      /\ EncodedRule(rules[r]) \in Seq(Int) /\ len(r) \in Nat /\ len(r) >= 1
  <2> TAKE r \in 1..N
  <2> DEFINE rule == rules[r]
             i == Len(EncodeNestedLists(rule.inputs))
             o == Len(EncodeNestedLists(rule.outputs))
             n == Len(EncodedRule(rule))
  <2>1. rule \in RuleSet  OBVIOUS
  <2> HIDE DEF rule
  <2>2. EncodedRule(rule) \in Seq(Int) /\ n = 1 + i + o /\ i \in Nat /\ o \in Nat
    <3>1. /\ EncodedRule(rule) \in Seq(Int)
          /\ EncodeNestedLists(rule.inputs) \in Seq(Int)
          /\ EncodeNestedLists(rule.outputs) \in Seq(Int)
          /\ n = 1 + i + o
      BY <2>1, RuleParts
    <3> QED  BY <3>1
  <2> HIDE DEF i, o, n
  <2>3. n \in Nat /\ n >= 1  BY <2>2
  <2> QED  BY <2>1, <2>2, <2>3 DEF rule, n
<1>5. Len(codes) = N /\ \A r \in 1..N : codes[r] = 1 <=> rules[r].spacelike
  BY SelectionCodes
<1>4. Holds(tensor, 1, list) /\ DOMAIN tensor = 1..L /\ (tensor = <<>> <=> L = 0)
  OBVIOUS
<1> HIDE DEF list, codes, N, L, at, size, len
<1>6. ASSUME NEW p \in 1..size, p <= L PROVE tensor[p] = list[p]
  <2>1. 1 + p - 1 = p  BY <1>2
  <2> QED  BY <1>6, <1>4, <2>1 DEF Holds, size, L
<1>7. at(N + 1) \in Nat /\ size >= 1 /\ \A r \in 1..(N + 1) : at(r) \in Nat
  <2>1. ASSUME NEW r \in 1..(N + 1) PROVE at(r) \in Nat
    <3>1. CASE r = 1  BY <1>1, <3>1
    <3>2. CASE r # 1
      <4> DEFINE s == r - 1
      <4>1. s \in 1..N /\ s + 1 = r  BY <1>2, <3>2
      <4> HIDE DEF s
      <4>2. at(s + 1) = at(s) + len(s) /\ at(s) \in Nat  BY <1>1, <4>1
      <4>3. len(s) \in Nat  BY <1>3, <4>1
      <4> QED  BY <4>1, <4>2, <4>3
    <3> QED  BY <3>1, <3>2
  <2>2. N + 1 \in 1..(N + 1)  BY <1>2
  <2> QED  BY <1>1, <1>2, <2>1, <2>2
<1>8. CASE L = 0
  <2>1. GetRules(tensor, codes) = Refused  BY <1>4, <1>8 DEF GetRules
  <2>2. ~(size <= L)  BY <1>2, <1>7, <1>8
  <2> QED  BY <2>1, <2>2 DEF codes, size, list, L
<1>9. CASE L # 0
  <2>1. tensor[1] = N /\ tensor # <<>>
    <3>1. 1 \in 1..size /\ 1 <= L  BY <1>2, <1>7, <1>9
    <3> QED  BY <1>1, <1>6, <1>4, <1>9, <3>1
  <2> DEFINE read == CHOOSE f : AreRead(f, N, tensor, codes)
  <2>2. AreRead(read, N, tensor, codes)  BY <1>2, ReadExists
  <2>3. GetRules(tensor, codes) = read[N]
    BY <1>5, <2>1 DEF GetRules, AreRead
  <2> HIDE DEF read
  <2>4. \A r \in 0..N : read[r] = IF r = 0 THEN [ok |-> TRUE, next |-> 2, rules |-> <<>>]
                                  ELSE ReadRule(tensor, codes[r], read[r - 1])
    BY <2>2, Zenon DEF AreRead
  <2> DEFINE Right(r) ==
               read[r] = IF 1 + at(r + 1) <= L
                         THEN [ok |-> TRUE, next |-> 2 + at(r + 1), rules |-> SubSeq(rules, 1, r)]
                         ELSE Refused
             S == {r \in 0..N : Right(r)}
  <2>5. Right(0)
    <3>1. 0 \in 0..N /\ SubSeq(rules, 1, 0) = <<>>  BY <1>2
    <3>2. 1 + at(0 + 1) = 1 /\ 2 + at(0 + 1) = 2 /\ 1 <= L  BY <1>1, <1>2, <1>9
    <3>3. read[0] = [ok |-> TRUE, next |-> 2, rules |-> <<>>]  BY <2>4, <3>1
    <3> QED  BY <3>1, <3>2, <3>3
  <2>6. ASSUME NEW r \in 0..(N - 1), Right(r) PROVE Right(r + 1)
    <3> DEFINE rule == rules[r + 1]
               a == at(r + 1)
               b == at((r + 1) + 1)
               l == len(r + 1)
    <3>1. r + 1 \in 1..N /\ r + 1 \in 0..N /\ r + 1 # 0 /\ (r + 1) - 1 = r  BY <1>2
    <3>2. a \in Nat /\ b = a + l /\ l \in Nat /\ l >= 1 /\ rule \in RuleSet
          /\ EncodedRule(rule) \in Seq(Int) /\ a + 1 + l <= size
      BY <1>1, <1>3, <3>1
    <3>3. l = Len(EncodedRule(rule)) /\ size = Len(list)  BY DEF len, size
    <3>4. \A p \in 1..l : list[a + 1 + p] = EncodedRule(rule)[p]
      BY <1>1, <3>1
    <3>5. read[r + 1] = ReadRule(tensor, codes[r + 1], read[r])  BY <2>4, <3>1
    <3>6. read[r] = IF 1 + a <= L
                    THEN [ok |-> TRUE, next |-> 2 + a, rules |-> SubSeq(rules, 1, r)]
                    ELSE Refused
      BY <2>6
    <3>7. codes[r + 1] = 1 <=> rule.spacelike  BY <1>5, <3>1
    <3>8. Append(SubSeq(rules, 1, r), rule) = SubSeq(rules, 1, r + 1)
      BY <3>1 DEF N
    <3> HIDE DEF rule, a, b, l
    <3>9. Holds(tensor, 2 + a, EncodedRule(rule))
      <4>1. (a + 1) + Len(EncodedRule(rule)) <= Len(list)  BY <3>2, <3>3
      <4>2. \A p \in 1..Len(EncodedRule(rule)) : list[(a + 1) + p] = EncodedRule(rule)[p]
        BY <3>3, <3>4
      <4>3. 1 \in Nat /\ a + 1 \in Nat  BY <3>2
      <4>4. Holds(tensor, 1 + (a + 1), EncodedRule(rule))
        BY <1>1, <1>4, <3>2, <4>1, <4>2, <4>3, PartHeld
      <4>5. 1 + (a + 1) = 2 + a  BY <3>2
      <4> QED  BY <4>4, <4>5
    <3>10. 2 + a \in Nat \ {0}  BY <3>2
    <3>11. CASE 1 + a <= L
      <4>1. read[r].ok = TRUE /\ read[r].next = 2 + a /\ read[r].rules = SubSeq(rules, 1, r)
        BY <3>6, <3>11
      <4> DEFINE last == read[r]
                 code == codes[r + 1]
      <4>2. last.ok = TRUE /\ last.next = 2 + a /\ last.rules = SubSeq(rules, 1, r)  BY <4>1
      <4>3. ReadRule(tensor, code, last) =
              IF (2 + a) + Len(EncodedRule(rule)) - 1 <= Len(tensor)
              THEN [ok |-> TRUE, next |-> (2 + a) + Len(EncodedRule(rule)),
                    rules |-> Append(last.rules, [inputs |-> rule.inputs, outputs |-> rule.outputs,
                                                  spacelike |-> code = 1])]
              ELSE Refused
        <5> DEFINE index == 2 + a
        <5>1. last = ReadUpTo(index, last.rules) /\ index \in Nat \ {0}
          BY <3>6, <3>10, <3>11, <4>2 DEF ReadUpTo
        <5>2. rule \in RuleSet /\ Holds(tensor, index, EncodedRule(rule))
          BY <3>2, <3>9
        <5> HIDE DEF last, code, index
        <5>3. ReadRule(tensor, code, ReadUpTo(index, last.rules)) =
                ReadWith(rule, tensor, index, code, last.rules)
          BY <5>1, <5>2, RuleRead
        <5> QED  BY <5>1, <5>3 DEF index, ReadWith
      <4>4. [inputs |-> rule.inputs, outputs |-> rule.outputs, spacelike |-> code = 1] = rule
        <5>1. (code = 1) = rule.spacelike  BY <3>2, <3>7 DEF RuleSet
        <5> HIDE DEF code
        <5> QED  BY <3>2, <5>1 DEF RuleSet
      <4>5. /\ (2 + a) + Len(EncodedRule(rule)) - 1 = 1 + b
            /\ (2 + a) + Len(EncodedRule(rule)) = 2 + b
        <5>1. (2 + a) + l - 1 = 1 + b /\ (2 + a) + l = 2 + b  BY <3>2
        <5> QED  BY <3>3, <5>1
      <4>6. read[r + 1] = IF 1 + b <= L
                          THEN [ok |-> TRUE, next |-> 2 + b, rules |-> SubSeq(rules, 1, r + 1)]
                          ELSE Refused
        <5> HIDE DEF last
        <5>1. read[r + 1] = ReadRule(tensor, code, last)  BY <3>5 DEF last
        <5> HIDE DEF code
        <5> QED  BY <3>8, <4>2, <4>3, <4>4, <4>5, <5>1 DEF L
      <4> QED  BY <4>6 DEF b
    <3>12. CASE ~(1 + a <= L)
      <4>1. ~read[r].ok  BY <3>6, <3>12 DEF Refused
      <4>2. read[r + 1] = Refused  BY <3>5, <4>1 DEF ReadRule
      <4>3. ~(1 + b <= L)  BY <1>2, <3>2, <3>12
      <4> QED  BY <4>2, <4>3 DEF b
    <3> QED  BY <3>11, <3>12
  <2>7. Right(N)
    <3>1. 0 \in S  BY <1>2, <2>5
    <3>2. \A r \in 0..(N - 1) : r \in S => r + 1 \in S
      <4>1. \A r \in 0..(N - 1) : r + 1 \in 0..N  BY <1>2
      <4> HIDE DEF Right
      <4> QED  BY <2>6, <4>1
    <3> HIDE DEF S, Right
    <3>3. \A r \in 0..N : r \in S  BY <1>2, <3>1, <3>2, CountingUp
    <3>4. N \in 0..N  BY <1>2
    <3> QED  BY <3>3, <3>4 DEF S
  <2>8. SubSeq(rules, 1, N) = rules  BY DEF N
  <2>9. 1 + at(N + 1) = size /\ 2 + at(N + 1) = size + 1  BY <1>1, <1>2, <1>7
  <2>10. GetRules(tensor, codes) = IF size <= L
                                   THEN [ok |-> TRUE, next |-> size + 1, rules |-> rules]
                                   ELSE Refused
    BY <2>3, <2>7, <2>8, <2>9
  <2> QED  BY <2>10 DEF codes, size, list, L
<1> QED  BY <1>8, <1>9

-----------------------------------------------------------------------------
(* Lists that are cut short.                                               *)

\* A list that is cut short is held as far as it goes.
LEMMA PrefixHeld ==
    ASSUME NEW list \in Seq(Int), NEW n \in 0..Len(list)
    PROVE  /\ SubSeq(list, 1, n) \in Seq(Int) /\ Len(SubSeq(list, 1, n)) = n
           /\ Holds(SubSeq(list, 1, n), 1, list)
<1> DEFINE prefix == SubSeq(list, 1, n)
<1>1. /\ n \in Nat /\ prefix \in Seq(Int) /\ Len(prefix) = n
      /\ \A p \in 1..n : prefix[p] = list[p]
  OBVIOUS
<1> HIDE DEF prefix
<1>2. ASSUME NEW p \in 1..Len(list), 1 + p - 1 <= Len(prefix)
      PROVE  prefix[1 + p - 1] = list[p]
  <2>1. 1 + p - 1 = p /\ p \in 1..n  BY <1>1, <1>2
  <2> QED  BY <1>1, <2>1
<1> QED  BY <1>1, <1>2 DEF Holds, prefix

\* Tokens are read as they were sent, and not at all if some of the list is missing.
LEMMA TokensReadBack ==
    ASSUME NEW lists \in Seq(Seq(Int))
    PROVE  LET sent == EncodeNestedLists(lists)
           IN  /\ GetNextHypergraph(sent, 1).lists = lists
               /\ \A n \in 0..(Len(sent) - 1) : ~GetNextHypergraph(SubSeq(sent, 1, n), 1).ok
<1> DEFINE sent == EncodeNestedLists(lists)
           size == Len(sent)
<1>1. sent \in Seq(Int)  BY EncodedLists
<1>2. size \in Nat  BY <1>1
<1>3. ASSUME NEW n \in 0..size
      PROVE  GetNextHypergraph(SubSeq(sent, 1, n), 1) =
               IF size <= n THEN [ok |-> TRUE, next |-> 1 + size, lists |-> lists] ELSE Refused
  <2> HIDE DEF sent
  <2> DEFINE prefix == SubSeq(sent, 1, n)
  <2>1. prefix \in Seq(Int) /\ Len(prefix) = n /\ Holds(prefix, 1, sent)
    BY <1>1, PrefixHeld
  <2>2. 1 \in Nat \ {0}  OBVIOUS
  <2> HIDE DEF prefix
  <2>3. GetNextHypergraph(prefix, 1) =
          IF 1 + size - 1 <= Len(prefix)
          THEN [ok |-> TRUE, next |-> 1 + size, lists |-> lists] ELSE Refused
    BY <2>1, <2>2, HypergraphRead DEF sent
  <2> HIDE DEF size
  <2>4. 1 + size - 1 = size  BY <1>2
  <2> QED  BY <2>1, <2>3, <2>4 DEF prefix
<1>4. SubSeq(sent, 1, size) = sent
  <2> HIDE DEF sent
  <2> QED  BY <1>1
<1> HIDE DEF size, sent
<1>5. GetNextHypergraph(sent, 1).lists = lists
  <2>1. size \in 0..size /\ size <= size  BY <1>2
  <2>2. GetNextHypergraph(SubSeq(sent, 1, size), 1) =
          [ok |-> TRUE, next |-> 1 + size, lists |-> lists]
    BY <1>3, <2>1
  <2>3. GetNextHypergraph(sent, 1) = [ok |-> TRUE, next |-> 1 + size, lists |-> lists]
    BY <1>4, <2>2, Zenon
  <2> QED  BY <2>3
<1>6. ASSUME NEW n \in 0..(size - 1) PROVE ~GetNextHypergraph(SubSeq(sent, 1, n), 1).ok
  <2>1. n \in 0..size /\ ~(size <= n)  BY <1>2
  <2> QED  BY <1>3, <2>1 DEF Refused
<1> QED  BY <1>5, <1>6 DEF sent, size

\* So are rules.
LEMMA RulesReadBack ==
    ASSUME NEW rules \in Seq(RuleSet)
    PROVE  LET sent == EncodeRules(rules)
               codes == EventSelectionCodes(rules)
           IN  /\ GetRules(sent, codes).rules = rules
               /\ \A n \in 0..(Len(sent) - 1) : ~GetRules(SubSeq(sent, 1, n), codes).ok
<1> DEFINE sent == EncodeRules(rules)
           codes == EventSelectionCodes(rules)
           size == Len(sent)
<1>1. sent \in Seq(Int)  BY EncodedRules
<1>2. size \in Nat  BY <1>1
<1>3. ASSUME NEW n \in 0..size
      PROVE  GetRules(SubSeq(sent, 1, n), codes) =
               IF size <= n THEN [ok |-> TRUE, next |-> size + 1, rules |-> rules] ELSE Refused
  <2> HIDE DEF sent
  <2> DEFINE prefix == SubSeq(sent, 1, n)
  <2>1. prefix \in Seq(Int) /\ Len(prefix) = n /\ Holds(prefix, 1, sent)
    BY <1>1, PrefixHeld
  <2> HIDE DEF prefix
  <2>2. GetRules(prefix, codes) =
          IF size <= Len(prefix) THEN [ok |-> TRUE, next |-> size + 1, rules |-> rules] ELSE Refused
    BY <2>1, RulesRead DEF sent
  <2> QED  BY <2>1, <2>2 DEF prefix
<1>4. SubSeq(sent, 1, size) = sent
  <2> HIDE DEF sent
  <2> QED  BY <1>1
<1> HIDE DEF size, sent, codes
<1>5. GetRules(sent, codes).rules = rules
  <2>1. size \in 0..size /\ size <= size  BY <1>2
  <2>2. GetRules(SubSeq(sent, 1, size), codes) =
          [ok |-> TRUE, next |-> size + 1, rules |-> rules]
    BY <1>3, <2>1
  <2>3. GetRules(sent, codes) = [ok |-> TRUE, next |-> size + 1, rules |-> rules]
    BY <1>4, <2>2, Zenon
  <2> QED  BY <2>3
<1>6. ASSUME NEW n \in 0..(size - 1) PROVE ~GetRules(SubSeq(sent, 1, n), codes).ok
  <2>1. n \in 0..size /\ ~(size <= n)  BY <1>2
  <2> QED  BY <1>3, <2>1 DEF Refused
<1> QED  BY <1>5, <1>6 DEF sent, codes, size

-----------------------------------------------------------------------------
(* Orderings, seeds and limits.                                            *)

\* Orderings of two criteria arrive as they were sent.
LEMMA OrderingsReadBack ==
    ASSUME NEW spec \in [1..2 -> [function : Range(OrderingFunctions),
                                  direction : Range(OrderingDirections)]]
    PROVE  GetOrderingSpec(EncodeOrderingSpec(spec)).spec = spec
<1> DEFINE F(i) == (CHOOSE j \in DOMAIN OrderingFunctions :
                      OrderingFunctions[j] = spec[i].function) - 1
           D(i) == (CHOOSE j \in DOMAIN OrderingDirections :
                      OrderingDirections[j] = spec[i].direction) - 1
           pairs == [i \in 1..2 |-> <<F(i), D(i)>>]
           list == FlattenSeq(pairs)
<1>1. \A i \in 1..2 : /\ F(i) \in Int /\ D(i) \in Int
                      /\ OrderingFunctions[F(i) + 1] = spec[i].function
                      /\ OrderingDirections[D(i) + 1] = spec[i].direction
  <2> TAKE i \in 1..2
  <2>1. /\ \E j \in DOMAIN OrderingFunctions : OrderingFunctions[j] = spec[i].function
        /\ \E j \in DOMAIN OrderingDirections : OrderingDirections[j] = spec[i].direction
    BY DEF Range
  <2>2. DOMAIN OrderingFunctions = 1..5 /\ DOMAIN OrderingDirections = 1..2
    BY DEF OrderingFunctions, OrderingDirections
  <2> DEFINE f == CHOOSE j \in DOMAIN OrderingFunctions : OrderingFunctions[j] = spec[i].function
             d == CHOOSE j \in DOMAIN OrderingDirections : OrderingDirections[j] = spec[i].direction
  <2>3. f \in DOMAIN OrderingFunctions /\ OrderingFunctions[f] = spec[i].function
    BY <2>1
  <2>4. d \in DOMAIN OrderingDirections /\ OrderingDirections[d] = spec[i].direction
    BY <2>1
  <2>5. F(i) = f - 1 /\ D(i) = d - 1  OBVIOUS
  <2> HIDE DEF f, d, F, D
  <2>6. (f - 1) + 1 = f /\ (d - 1) + 1 = d /\ f - 1 \in Int /\ d - 1 \in Int
    BY <2>2, <2>3, <2>4
  <2> QED  BY <2>3, <2>4, <2>5, <2>6
<1>2. EncodeOrderingSpec(spec) = list
  <2>1. DOMAIN spec = 1..2  OBVIOUS
  <2> QED  BY <2>1 DEF EncodeOrderingSpec
<1> HIDE DEF F, D
<1>3. pairs \in Seq(Seq(Int)) /\ Len(pairs) = 2
  <2>1. \A i \in 1..2 : <<F(i), D(i)>> \in Seq(Int)  BY <1>1
  <2> QED  BY <2>1
<1>4. \A i \in 1..2 : pairs[i] = <<F(i), D(i)>>  OBVIOUS
<1> HIDE DEF pairs
<1>5. /\ LengthBefore(pairs, 1) = 0 /\ LengthBefore(pairs, 3) = Len(list)
      /\ \A n \in 1..2 :
           /\ LengthBefore(pairs, n + 1) = LengthBefore(pairs, n) + Len(pairs[n])
           /\ \A i \in 1..Len(pairs[n]) : list[LengthBefore(pairs, n) + i] = pairs[n][i]
  <2>1. /\ LengthBefore(pairs, 1) = 0 /\ LengthBefore(pairs, Len(pairs) + 1) = Len(list)
        /\ \A n \in 1..Len(pairs) :
             /\ LengthBefore(pairs, n + 1) = LengthBefore(pairs, n) + Len(pairs[n])
             /\ \A i \in 1..Len(pairs[n]) : list[LengthBefore(pairs, n) + i] = pairs[n][i]
    <3>1. pairs \in Seq(Seq(Int))  BY <1>3
    <3> QED  BY ONLY <3>1, FlattenedLists
  <2>2. Len(pairs) + 1 = 3  BY <1>3
  <2> HIDE DEF list
  <2> QED  BY <1>3, <2>1, <2>2
<1> HIDE DEF list
<1>6. /\ Len(pairs[1]) = 2 /\ pairs[1][1] = F(1) /\ pairs[1][2] = D(1)
      /\ Len(pairs[2]) = 2 /\ pairs[2][1] = F(2) /\ pairs[2][2] = D(2)
  BY <1>4
<1>7. LengthBefore(pairs, 2) = 2 /\ Len(list) = 4
  <2>1. 1 \in 1..2 /\ 2 \in 1..2 /\ 1 + 1 = 2 /\ 2 + 1 = 3  OBVIOUS
  <2>2. LengthBefore(pairs, 1 + 1) = 0 + 2  BY <1>5, <1>6, <2>1
  <2>3. LengthBefore(pairs, 2) = 2  BY <2>1, <2>2
  <2>4. LengthBefore(pairs, 2 + 1) = 2 + 2  BY <1>5, <1>6, <2>1, <2>3
  <2>5. Len(list) = 2 + 2  BY <1>5, <2>1, <2>4
  <2> QED  BY <2>3, <2>5
<1>8. list[1] = F(1) /\ list[2] = D(1) /\ list[3] = F(2) /\ list[4] = D(2)
  <2>1. 1 \in 1..2 /\ 2 \in 1..2  OBVIOUS
  <2>2. \A i \in 1..2 : list[0 + i] = pairs[1][i]
    BY <1>5, <1>6, <2>1
  <2>3. \A i \in 1..2 : list[2 + i] = pairs[2][i]
    BY <1>5, <1>6, <1>7, <2>1
  <2>4. list[0 + 1] = pairs[1][1] /\ list[0 + 2] = pairs[1][2]
        /\ list[2 + 1] = pairs[2][1] /\ list[2 + 2] = pairs[2][2]
    BY <2>1, <2>2, <2>3
  <2> QED  BY <1>6, <2>4
<1>9. \A i \in 1..2 : list[2 * i - 1] = F(i) /\ list[2 * i] = D(i)
  BY <1>8
<1>10. [i \in 1..(Len(list) \div 2) |->
           [function |-> OrderingFunctions[list[2 * i - 1] + 1],
            direction |-> OrderingDirections[list[2 * i] + 1]]] = spec
  <2>1. Len(list) \div 2 = 2  BY <1>7
  <2>2. \A i \in 1..2 : [function |-> OrderingFunctions[list[2 * i - 1] + 1],
                         direction |-> OrderingDirections[list[2 * i] + 1]] = spec[i]
    <3> TAKE i \in 1..2
    <3>1. /\ OrderingFunctions[list[2 * i - 1] + 1] = spec[i].function
          /\ OrderingDirections[list[2 * i] + 1] = spec[i].direction
      BY <1>1, <1>9
    <3>2. spec[i] \in [function : Range(OrderingFunctions), direction : Range(OrderingDirections)]
      OBVIOUS
    <3>3. spec[i] = [function |-> spec[i].function, direction |-> spec[i].direction]
      BY <3>2
    <3> QED  BY <3>1, <3>3
  <2>3. spec = [i \in 1..2 |-> spec[i]]  OBVIOUS
  <2> QED  BY <2>1, <2>2, <2>3
<1>11. ~(Len(list) % 2 = 1)  BY <1>7
<1>12. GetOrderingSpec(list).spec = spec
  <2> DEFINE read == [i \in 1..(Len(list) \div 2) |->
                        [function |-> OrderingFunctions[list[2 * i - 1] + 1],
                         direction |-> OrderingDirections[list[2 * i] + 1]]]
  <2>1. GetOrderingSpec(list) = [ok |-> TRUE, spec |-> read]
    BY <1>11, Zenon DEF GetOrderingSpec
  <2>2. read = spec  BY <1>10
  <2> HIDE DEF read
  <2> QED  BY <2>1, <2>2
<1> QED  BY <1>2, <1>12

\* A seed below the square of the base is its two digits.
LEMMA SeedsReadBack ==
    ASSUME NEW base \in Nat \ {0}, NEW seed \in 0..(base * base - 1)
    PROVE  GetSeed(EncodeSeed(seed, base), base).seed = seed
<1> DEFINE high == seed \div base
           low == seed % base
<1>1. seed = base * high + low /\ low \in Int /\ high \in Int
  BY Division
<1>2. seed % (base * base) = seed
  <2> DEFINE square == base * base
  <2>1. square \in Nat  OBVIOUS
  <2>2. seed \in 0..(square - 1)  OBVIOUS
  <2> HIDE DEF square
  <2>3. seed % square = seed  BY <2>1, <2>2
  <2> QED  BY <2>3 DEF square
<1> HIDE DEF high, low
<1>3. EncodeSeed(seed, base) = <<high, low>>  BY DEF EncodeSeed, high, low
<1>4. GetSeed(<<high, low>>, base).seed = (base * high + low) % (base * base)
  BY DEF GetSeed
<1> QED  BY <1>1, <1>2, <1>3, <1>4

StepSpecSet(top) == [maxEvents : 0..top, maxGenerationsLocal : 0..top, maxFinalAtoms : 0..top,
                     maxFinalAtomDegree : 0..top, maxFinalTokens : 0..top]

\* Limits arrive as they were sent, with -1 for none.
LEMMA StepSpecsReadBack ==
    ASSUME NEW top \in Nat, NEW spec \in StepSpecSet(top)
    PROVE  GetStepSpec(EncodeStepSpec(spec, top), top).spec = spec
<1> DEFINE list == EncodeStepSpec(spec, top)
           limits == <<spec.maxEvents, spec.maxGenerationsLocal, spec.maxFinalAtoms,
                       spec.maxFinalAtomDegree, spec.maxFinalTokens>>
           Limit(k) == IF list[k] = -1 THEN top ELSE list[k]
<1>1. \A k \in 1..5 : limits[k] \in 0..top  BY DEF StepSpecSet
<1>2. DOMAIN StepSpecKeys = 1..5 /\ \A k \in 1..5 : spec[StepSpecKeys[k]] = limits[k]
  BY DEF StepSpecKeys, StepSpecSet
<1> HIDE DEF limits
<1>3. list = [k \in 1..5 |-> IF limits[k] = top THEN -1 ELSE limits[k]]
  BY <1>2 DEF EncodeStepSpec
<1> HIDE DEF list
<1>4. Len(list) = 5 /\ DOMAIN list = 1..5  BY <1>3
<1>5. \A k \in 1..5 : Limit(k) = limits[k] /\ ~(Limit(k) < 0)  BY <1>1, <1>3
<1> HIDE DEF Limit
<1>6. GetStepSpec(list, top).spec =
        [maxEvents |-> Limit(1), maxGenerationsLocal |-> Limit(2), maxFinalAtoms |-> Limit(3),
         maxFinalAtomDegree |-> Limit(4), maxFinalTokens |-> Limit(5)]
  BY <1>4, <1>5 DEF GetStepSpec, Limit
<1>7. spec = [maxEvents |-> limits[1], maxGenerationsLocal |-> limits[2], maxFinalAtoms |-> limits[3],
              maxFinalAtomDegree |-> limits[4], maxFinalTokens |-> limits[5]]
  BY DEF StepSpecSet, limits
<1> QED  BY <1>5, <1>6, <1>7 DEF list

-----------------------------------------------------------------------------
(* Tokens and events on the way back.                                      *)

\* A list is found between its pointer and the next one.
LEMMA SliceBack ==
    ASSUME NEW lists \in Seq(Seq(Int)), NEW list \in Seq(Int), NEW base \in Nat,
           base + Len(FlattenSeq(lists)) <= Len(list),
           \A p \in 1..Len(FlattenSeq(lists)) : list[base + p] = FlattenSeq(lists)[p],
           NEW n \in 1..Len(lists)
    PROVE  SubSeq(list, (base + 1) + LengthBefore(lists, n),
                        ((base + 1) + LengthBefore(lists, n + 1)) - 1) = lists[n]
<1> DEFINE flat == FlattenSeq(lists)
           l == lists[n]
           len == Len(l)
           from == LengthBefore(lists, n)
           total == Len(flat)
           size == Len(list)
<1>1. /\ flat \in Seq(Int)
      /\ LengthBefore(lists, n + 1) = from + len
      /\ from \in Nat /\ from + len <= total
      /\ \A i \in 1..len : flat[from + i] = l[i]
  BY FlattenedLists
<1>2. /\ l \in Seq(Int) /\ len \in Nat /\ size \in Nat /\ base \in Nat
      /\ base + total <= size /\ total \in Nat
      /\ \A p \in 1..total : list[base + p] = flat[p]
  <2>1. l \in Seq(Int) /\ len \in Nat  OBVIOUS
  <2>2. size \in Nat /\ base \in Nat /\ base + total <= size  OBVIOUS
  <2>3. \A p \in 1..total : list[base + p] = flat[p]  OBVIOUS
  <2>4. total \in Nat
    <3> HIDE DEF flat
    <3> QED  BY <1>1
  <2> HIDE DEF l, len, size, total, flat
  <2> QED  BY <2>1, <2>2, <2>3, <2>4
<1> HIDE DEF flat, len, from, total, size
<1>3. ASSUME NEW i \in 1..len PROVE list[(base + from) + i] = l[i]
  <2>1. from + i \in 1..total /\ base + (from + i) = (base + from) + i  BY <1>1, <1>2
  <2>2. list[base + (from + i)] = flat[from + i]  BY <1>2, <2>1
  <2> QED  BY <1>1, <2>1, <2>2
<1>4. (base + from) + len <= size /\ base + from \in Nat
  <2>1. from \in Nat /\ len \in Nat /\ total \in Nat /\ size \in Nat /\ base \in Nat
        /\ from + len <= total /\ base + total <= size
    BY <1>1, <1>2
  <2> QED  BY <2>1
<1>5. /\ (base + 1) + from = (base + from) + 1
      /\ ((base + 1) + (from + len)) - 1 = (base + from) + len
  BY <1>1, <1>2
<1> DEFINE start == base + from
<1>6. start \in Nat /\ start + len <= size /\ \A i \in 1..len : list[start + i] = l[i]
  BY <1>3, <1>4
<1> HIDE DEF start, l
<1>7. SubSeq(list, start + 1, start + len) = l
  <2>1. list \in Seq(Int)  OBVIOUS
  <2> QED  BY ONLY <1>2, <1>6, <2>1 DEF size, len
<1> QED  BY <1>1, <1>5, <1>7 DEF start, from, l

\* The tokens that the Wolfram Language reads are those the library has.
LEMMA HypergraphReadBack ==
    ASSUME NEW lists \in Seq(Seq(Int))
    PROVE  DecodeAtomLists(PutHypergraph(lists)) = lists
<1> DEFINE N == Len(lists)
           flat == FlattenSeq(lists)
           firstAtom == 1 + (N + 1) + 1
           pointers == [i \in 1..(N + 1) |-> firstAtom + LengthBefore(lists, i)]
           head == <<N>> \o pointers
           list == head \o flat
<1>1. /\ flat \in Seq(Int) /\ N \in Nat
      /\ LengthBefore(lists, N + 1) = Len(flat)
      /\ \A n \in 1..N : LengthBefore(lists, n) \in Nat
  <2>1. lists \in Seq(Seq(Int)) /\ N \in Nat  OBVIOUS
  <2> QED  BY ONLY <2>1, FlattenedLists
<1>2. PutHypergraph(lists) = list
  BY DEF PutHypergraph
<1>3. lists = [i \in 1..N |-> lists[i]]  OBVIOUS
<1> HIDE DEF flat, N
<1>4. ASSUME NEW i \in 1..(N + 1) PROVE LengthBefore(lists, i) \in Nat
  <2>1. CASE i = N + 1
    <3>1. Len(flat) \in Nat  BY <1>1
    <3> QED  BY <1>1, <2>1, <3>1
  <2>2. CASE i # N + 1
    <3>1. i \in 1..N  BY <1>1, <2>2
    <3> QED  BY <1>1, <3>1
  <2> QED  BY <2>1, <2>2
<1>5. /\ firstAtom = N + 3 /\ firstAtom \in Nat /\ N + 1 \in Nat
  BY <1>1
<1> HIDE DEF firstAtom
<1>6. pointers \in Seq(Int) /\ Len(pointers) = N + 1
      /\ \A i \in 1..(N + 1) : pointers[i] = firstAtom + LengthBefore(lists, i)
  <2> DEFINE M == N + 1
  <2>1. \A i \in 1..M : firstAtom + LengthBefore(lists, i) \in Int  BY <1>4, <1>5
  <2>2. M \in Nat  BY <1>5
  <2>3. pointers = [i \in 1..M |-> firstAtom + LengthBefore(lists, i)]  OBVIOUS
  <2> HIDE DEF pointers, M
  <2>4. \A i \in 1..M : pointers[i] = firstAtom + LengthBefore(lists, i)  BY <2>3
  <2>5. pointers \in [1..M -> Int]  BY <2>1, <2>3
  <2>6. pointers \in Seq(Int) /\ Len(pointers) = M  BY <2>2, <2>5
  <2> QED  BY <2>4, <2>6 DEF M
<1> HIDE DEF pointers
<1>7. <<N>> \in Seq(Int) /\ Len(<<N>>) = 1 /\ <<N>>[1] = N  BY <1>1
<1>8. /\ head \in Seq(Int) /\ Len(head) = 1 + (N + 1) /\ head[1] = N
      /\ \A i \in 1..(N + 1) : head[1 + i] = pointers[i]
  <2> DEFINE first == <<N>>
  <2>1. first \in Seq(Int) /\ Len(first) = 1 /\ first[1] = N  BY <1>7
  <2>2. head = first \o pointers  OBVIOUS
  <2> HIDE DEF first, head
  <2>3. /\ first \o pointers \in Seq(Int)
        /\ Len(first \o pointers) = Len(first) + Len(pointers)
        /\ \A p \in 1..Len(first) : (first \o pointers)[p] = first[p]
        /\ \A p \in 1..Len(pointers) : (first \o pointers)[Len(first) + p] = pointers[p]
    BY <1>6, <2>1, Joined
  <2>4. 1 \in 1..1  OBVIOUS
  <2> QED  BY <1>6, <2>1, <2>2, <2>3, <2>4
<1> HIDE DEF head
<1>9. /\ list \in Seq(Int) /\ Len(list) = Len(head) + Len(flat)
      /\ \A p \in 1..Len(head) : list[p] = head[p]
      /\ \A p \in 1..Len(flat) : list[Len(head) + p] = flat[p]
  BY <1>1, <1>8, Joined
<1> HIDE DEF list
<1>10. Len(head) = N + 2  BY <1>1, <1>8
<1>11. list[1] = N /\ \A i \in 1..(N + 1) : list[i + 1] = firstAtom + LengthBefore(lists, i)
  <2>1. 1 \in 1..(N + 2)  BY <1>1
  <2>2. ASSUME NEW i \in 1..(N + 1) PROVE list[i + 1] = firstAtom + LengthBefore(lists, i)
    <3>1. 1 + i \in 1..(N + 2) /\ 1 + i = i + 1  BY <1>1
    <3>2. list[1 + i] = head[1 + i]  BY <1>9, <1>10, <3>1
    <3> QED  BY <1>6, <1>8, <3>1, <3>2
  <2> QED  BY <1>8, <1>9, <1>10, <2>1, <2>2
<1>12. ASSUME NEW n \in 1..N
       PROVE  SubSeq(list, list[n + 1], list[n + 2] - 1) = lists[n]
  <2> DEFINE base == N + 2
  <2>1. base \in Nat /\ base + 1 = firstAtom  BY <1>1, <1>5
  <2>2. n \in 1..(N + 1) /\ n + 1 \in 1..(N + 1) /\ (n + 1) + 1 = n + 2  BY <1>1
  <2>3. /\ list[n + 1] = firstAtom + LengthBefore(lists, n)
        /\ list[n + 2] = firstAtom + LengthBefore(lists, n + 1)
    BY <1>11, <2>2
  <2> HIDE DEF base
  <2>4. base + Len(flat) <= Len(list) /\ \A p \in 1..Len(flat) : list[base + p] = flat[p]
    <3>1. Len(list) = base + Len(flat) /\ Len(flat) \in Nat  BY <1>1, <1>9, <1>10 DEF base
    <3>2. \A p \in 1..Len(flat) : list[base + p] = flat[p]  BY <1>9, <1>10 DEF base
    <3>3. base + Len(flat) \in Nat  BY <2>1, <3>1
    <3> QED  BY <3>1, <3>2, <3>3
  <2>5. n \in 1..Len(lists)  BY DEF N
  <2>6. SubSeq(list, (base + 1) + LengthBefore(lists, n),
                     ((base + 1) + LengthBefore(lists, n + 1)) - 1) = lists[n]
    BY <1>9, <2>1, <2>4, <2>5, SliceBack DEF flat
  <2> QED  BY <2>1, <2>3, <2>6
<1>13. [i \in 1..list[1] |-> SubSeq(list, list[i + 1], list[i + 2] - 1)] = lists
  BY <1>3, <1>11, <1>12
<1> QED  BY <1>2, <1>13 DEF DecodeAtomLists

\* Lists of four, one after the other.
LEMMA FoursFlattened ==
    ASSUME NEW lists \in Seq(Seq(Int)), \A n \in 1..Len(lists) : Len(lists[n]) = 4
    PROVE  /\ FlattenSeq(lists) \in Seq(Int)
           /\ Len(FlattenSeq(lists)) = 4 * Len(lists)
           /\ \A n \in 1..Len(lists) : \A k \in 1..4 :
                FlattenSeq(lists)[4 * (n - 1) + k] = lists[n][k]
<1> DEFINE N == Len(lists)
           flat == FlattenSeq(lists)
           S == {n \in 1..(N + 1) : LengthBefore(lists, n) = 4 * (n - 1)}
<1>1. /\ flat \in Seq(Int)
      /\ LengthBefore(lists, 1) = 0
      /\ LengthBefore(lists, N + 1) = Len(flat)
      /\ \A n \in 1..N :
           /\ LengthBefore(lists, n + 1) = LengthBefore(lists, n) + Len(lists[n])
           /\ \A i \in 1..Len(lists[n]) : flat[LengthBefore(lists, n) + i] = lists[n][i]
  BY FlattenedLists
<1>2. N \in Nat /\ \A n \in 1..N : Len(lists[n]) = 4  OBVIOUS
<1> HIDE DEF N, flat
<1>3. \A n \in 1..(N + 1) : n \in S
  <2>1. 1 \in S  BY <1>1, <1>2
  <2>2. ASSUME NEW n \in 1..((N + 1) - 1), n \in S PROVE n + 1 \in S
    <3>1. n \in 1..N /\ n + 1 \in 1..(N + 1)  BY <1>2
    <3>2. LengthBefore(lists, n) = 4 * (n - 1)  BY <2>2
    <3>3. LengthBefore(lists, n + 1) = 4 * (n - 1) + 4  BY <1>1, <1>2, <3>1, <3>2
    <3>4. 4 * (n - 1) + 4 = 4 * ((n + 1) - 1)  BY <3>1
    <3> QED  BY <3>1, <3>3, <3>4
  <2> HIDE DEF S
  <2>3. 1 \in Nat /\ N + 1 \in Nat  BY <1>2
  <2> QED  BY <2>1, <2>2, <2>3, CountingUp
<1>4. \A n \in 1..(N + 1) : LengthBefore(lists, n) = 4 * (n - 1)  BY <1>3
<1> HIDE DEF S
<1>5. Len(flat) = 4 * N
  <2>1. N + 1 \in 1..(N + 1) /\ 4 * ((N + 1) - 1) = 4 * N  BY <1>2
  <2> QED  BY <1>1, <1>4, <2>1
<1>6. \A n \in 1..N : \A k \in 1..4 : flat[4 * (n - 1) + k] = lists[n][k]
  <2> TAKE n \in 1..N
  <2>1. LengthBefore(lists, n) = 4 * (n - 1)
    <3>1. n \in 1..(N + 1)  BY <1>2
    <3> QED  BY <1>4, <3>1
  <2>2. \A i \in 1..4 : flat[LengthBefore(lists, n) + i] = lists[n][i]
    BY <1>1, <1>2
  <2> QED  BY <2>1, <2>2
<1> QED  BY <1>1, <1>5, <1>6 DEF N, flat

\* A function on 1..n is a list.
LEMMA Listed ==
    ASSUME NEW n \in Nat, NEW f \in [1..n -> Int]
    PROVE  f \in Seq(Int) /\ Len(f) = n
OBVIOUS

\* Identifiers are one less in the library.
LEMMA OneLess ==
    ASSUME NEW ids \in Seq(Nat), NEW less, less = [i \in DOMAIN ids |-> ids[i] - 1]
    PROVE  less \in Seq(Int) /\ [i \in DOMAIN less |-> less[i] + 1] = ids
<1> DEFINE n == Len(ids)
<1>1. n \in Nat /\ DOMAIN ids = 1..n /\ ids = [i \in 1..n |-> ids[i]]
      /\ \A i \in 1..n : ids[i] \in Nat
  OBVIOUS
<1> HIDE DEF n
<1>2. DOMAIN less = 1..n /\ \A i \in 1..n : less[i] = ids[i] - 1  BY <1>1
<1>3. less \in [1..n -> Int]  BY <1>1, <1>2
<1>4. less \in Seq(Int)  BY ONLY <1>1, <1>3, Listed
<1>5. \A i \in 1..n : less[i] + 1 = ids[i]  BY <1>1, <1>2
<1>6. [i \in DOMAIN less |-> less[i] + 1] = [i \in 1..n |-> ids[i]]
  BY <1>2, <1>5
<1> QED  BY <1>1, <1>4, <1>6

\* The tokens of events are what they were when one is added again.
LEMMA LibraryTokens ==
    ASSUME NEW history \in Seq(AnyEvent)
    PROVE  /\ Inputs(history) \in Seq(Seq(Int)) /\ Len(Inputs(history)) = Len(history)
           /\ Outputs(history) \in Seq(Seq(Int)) /\ Len(Outputs(history)) = Len(history)
           /\ \A e \in 1..Len(history) :
                /\ [i \in DOMAIN Inputs(history)[e] |-> Inputs(history)[e][i] + 1]
                     = history[e].inputTokens
                /\ [i \in DOMAIN Outputs(history)[e] |-> Outputs(history)[e][i] + 1]
                     = history[e].outputTokens
<1> DEFINE N == Len(history)
           ins == Inputs(history)
           outs == Outputs(history)
<1>1. N \in Nat /\ DOMAIN history = 1..N /\ \A e \in 1..N : history[e] \in AnyEvent
  OBVIOUS
<1>2. /\ ins = [e \in 1..N |-> ins[e]] /\ outs = [e \in 1..N |-> outs[e]]
      /\ \A e \in 1..N :
           /\ ins[e] = [i \in DOMAIN history[e].inputTokens |-> history[e].inputTokens[i] - 1]
           /\ outs[e] = [i \in DOMAIN history[e].outputTokens |-> history[e].outputTokens[i] - 1]
  BY <1>1 DEF Inputs, Outputs
<1> HIDE DEF ins, outs, N
<1>3. ASSUME NEW e \in 1..N
      PROVE  /\ ins[e] \in Seq(Int) /\ [i \in DOMAIN ins[e] |-> ins[e][i] + 1] = history[e].inputTokens
             /\ outs[e] \in Seq(Int)
             /\ [i \in DOMAIN outs[e] |-> outs[e][i] + 1] = history[e].outputTokens
  <2> DEFINE a == history[e].inputTokens
             b == history[e].outputTokens
             c == ins[e]
             d == outs[e]
  <2>1. a \in Seq(Nat) /\ b \in Seq(Nat)  BY <1>1 DEF AnyEvent
  <2>2. c = [i \in DOMAIN a |-> a[i] - 1] /\ d = [i \in DOMAIN b |-> b[i] - 1]
    BY <1>2
  <2> HIDE DEF a, b, c, d
  <2>3. c \in Seq(Int) /\ [i \in DOMAIN c |-> c[i] + 1] = a  BY <2>1, <2>2, OneLess
  <2>4. d \in Seq(Int) /\ [i \in DOMAIN d |-> d[i] + 1] = b  BY <2>1, <2>2, OneLess
  <2> QED  BY <2>3, <2>4 DEF a, b, c, d
<1>4. /\ ins \in Seq(Seq(Int)) /\ Len(ins) = N
      /\ outs \in Seq(Seq(Int)) /\ Len(outs) = N
  <2>1. ins \in [1..N -> Seq(Int)] /\ outs \in [1..N -> Seq(Int)]
    BY <1>2, <1>3
  <2> QED  BY <1>1, <2>1
<1> QED  BY <1>3, <1>4 DEF ins, outs, N

\* Where three lists and a number before them are when they are joined.
FourJoin(list, a, b, c, d) ==
    /\ list \in Seq(Int) /\ list[1] = a
    /\ Len(list) = 1 + Len(b) + Len(c) + Len(d)
    /\ \A p \in 1..Len(b) : list[1 + p] = b[p]
    /\ \A p \in 1..Len(c) : list[(1 + Len(b)) + p] = c[p]
    /\ \A p \in 1..Len(d) : list[(1 + Len(b) + Len(c)) + p] = d[p]

LEMMA FourJoined ==
    ASSUME NEW a \in Int, NEW b \in Seq(Int), NEW c \in Seq(Int), NEW d \in Seq(Int),
           NEW list, list = <<a>> \o b \o c \o d
    PROVE  FourJoin(list, a, b, c, d)
<1> DEFINE first == <<a>>
           two == first \o b
           three == two \o c
           whole == three \o d
           m == Len(b)
           n == Len(c)
           o == Len(d)
<1>1. first \in Seq(Int) /\ Len(first) = 1 /\ first[1] = a  OBVIOUS
<1>2. list = whole  OBVIOUS
<1> HIDE DEF first
<1>3. /\ two \in Seq(Int) /\ Len(two) = Len(first) + m
      /\ \A p \in 1..Len(first) : two[p] = first[p]
      /\ \A p \in 1..m : two[Len(first) + p] = b[p]
  BY <1>1, Joined
<1> HIDE DEF two
<1>4. /\ three \in Seq(Int) /\ Len(three) = Len(two) + n
      /\ \A p \in 1..Len(two) : three[p] = two[p]
      /\ \A p \in 1..n : three[Len(two) + p] = c[p]
  BY <1>3, Joined
<1> HIDE DEF three
<1>5. /\ whole \in Seq(Int) /\ Len(whole) = Len(three) + o
      /\ \A p \in 1..Len(three) : whole[p] = three[p]
      /\ \A p \in 1..o : whole[Len(three) + p] = d[p]
  BY <1>4, Joined
<1>6. m \in Nat /\ n \in Nat /\ o \in Nat  OBVIOUS
<1> HIDE DEF whole, m, n, o
<1>7. Len(two) = 1 + m /\ Len(three) = 1 + m + n  BY <1>1, <1>3, <1>4, <1>6
<1>8. Len(list) = 1 + m + n + o  BY <1>2, <1>5, <1>7
<1>9. list[1] = a
  <2>1. 1 \in 1..1 /\ 1 \in 1..(1 + m) /\ 1 \in 1..(1 + m + n)  BY <1>6
  <2> QED  BY <1>1, <1>2, <1>3, <1>4, <1>5, <1>7, <2>1
<1>10. ASSUME NEW p \in 1..m PROVE list[1 + p] = b[p]
  <2>1. 1 + p \in 1..(1 + m) /\ 1 + p \in 1..(1 + m + n)  BY <1>6
  <2>2. list[1 + p] = three[1 + p]  BY <1>2, <1>5, <1>7, <2>1
  <2>3. three[1 + p] = two[1 + p]  BY <1>4, <1>7, <2>1
  <2>4. two[1 + p] = b[p]  BY <1>1, <1>3
  <2> QED  BY <2>2, <2>3, <2>4
<1>11. ASSUME NEW p \in 1..n PROVE list[(1 + m) + p] = c[p]
  <2>1. (1 + m) + p \in 1..(1 + m + n)  BY <1>6
  <2> QED  BY <1>2, <1>4, <1>5, <1>7, <2>1
<1>12. \A p \in 1..o : list[(1 + m + n) + p] = d[p]  BY <1>2, <1>5, <1>7
<1> QED  BY <1>2, <1>5, <1>8, <1>9, <1>10, <1>11, <1>12 DEF m, n, o, FourJoin

\* Lists have a length up to any of them.
LEMMA LengthsBefore ==
    ASSUME NEW lists \in Seq(Seq(Int)), NEW i \in 1..(Len(lists) + 1)
    PROVE  LengthBefore(lists, i) \in Nat
<1> DEFINE N == Len(lists)
           len == Len(FlattenSeq(lists))
<1>1. /\ FlattenSeq(lists) \in Seq(Int) /\ LengthBefore(lists, N + 1) = len
      /\ \A n \in 1..N : LengthBefore(lists, n) \in Nat
  BY FlattenedLists
<1>2. N \in Nat /\ len \in Nat /\ i \in 1..(N + 1)  BY <1>1
<1> HIDE DEF N, len
<1>3. CASE i = N + 1  BY <1>1, <1>2, <1>3
<1>4. CASE i \in 1..N  BY <1>1, <1>4
<1> QED  BY <1>2, <1>3, <1>4

\* Where the inputs and the outputs of the events start, and the four fields of each.
FirstInput(history) == 1 + 4 * (Len(history) + 1) + 1
FirstOutput(history) ==
    FirstInput(history) + LengthBefore(Inputs(history), Len(history) + 1)
InputStart(history, i) == FirstInput(history) + LengthBefore(Inputs(history), i)
OutputStart(history, i) == FirstOutput(history) + LengthBefore(Outputs(history), i)
EventFields(history) ==
    [i \in 1..(Len(history) + 1) |->
        IF i <= Len(history)
        THEN <<RuleOf(history[i])>> \o <<InputStart(history, i), OutputStart(history, i)>>
                 \o <<history[i].generation>>
        ELSE <<-2>> \o <<InputStart(history, i), OutputStart(history, i)>> \o <<-1>>]

\* The fields of an event, as they are joined.
LEMMA FourFields ==
    ASSUME NEW a \in Int, NEW b \in Int, NEW c \in Int, NEW d \in Int
    PROVE  LET four == <<a>> \o <<b, c>> \o <<d>>
           IN  /\ four \in Seq(Int) /\ Len(four) = 4
               /\ four[1] = a /\ four[2] = b /\ four[3] = c /\ four[4] = d
OBVIOUS

\* Each event has four fields, the last one included that is none.
LEMMA EventFieldsHeld ==
    ASSUME NEW history \in Seq(AnyEvent)
    PROVE  /\ EventFields(history) \in Seq(Seq(Int))
           /\ Len(EventFields(history)) = Len(history) + 1
           /\ \A i \in 1..(Len(history) + 1) :
                /\ Len(EventFields(history)[i]) = 4
                /\ EventFields(history)[i][2] = InputStart(history, i)
                /\ EventFields(history)[i][3] = OutputStart(history, i)
           /\ \A i \in 1..Len(history) :
                /\ EventFields(history)[i][1] = RuleOf(history[i])
                /\ EventFields(history)[i][4] = history[i].generation
<1> DEFINE E == Len(history)
           fields == EventFields(history)
<1>1. E \in Nat /\ \A i \in 1..E : history[i] \in AnyEvent  OBVIOUS
<1>2. /\ Inputs(history) \in Seq(Seq(Int)) /\ Len(Inputs(history)) = E
      /\ Outputs(history) \in Seq(Seq(Int)) /\ Len(Outputs(history)) = E
  BY LibraryTokens
<1> HIDE DEF E
<1>3. FirstInput(history) \in Nat  BY <1>1 DEF FirstInput, E
<1>4. E + 1 \in 1..(E + 1)  BY <1>1
<1>5. FirstOutput(history) \in Nat
  <2> DEFINE a == FirstInput(history)
             b == LengthBefore(Inputs(history), E + 1)
  <2>1. b \in Nat  BY <1>2, <1>4, LengthsBefore
  <2>2. FirstOutput(history) = a + b  BY DEF FirstOutput, E
  <2> HIDE DEF b
  <2> QED  BY <1>3, <2>1, <2>2
<1>6. ASSUME NEW i \in 1..(E + 1)
      PROVE  InputStart(history, i) \in Int /\ OutputStart(history, i) \in Int
  <2> DEFINE a == LengthBefore(Inputs(history), i)
             b == LengthBefore(Outputs(history), i)
  <2>1. a \in Nat /\ b \in Nat  BY <1>2, LengthsBefore
  <2>2. InputStart(history, i) = FirstInput(history) + a
        /\ OutputStart(history, i) = FirstOutput(history) + b
    BY DEF InputStart, OutputStart
  <2> HIDE DEF a, b
  <2> QED  BY <1>3, <1>5, <2>1, <2>2
<1>7. ASSUME NEW i \in 1..E
      PROVE  /\ RuleOf(history[i]) \in Int /\ history[i].generation \in Int
  <2>1. history[i].rule \in Int /\ history[i].generation \in Nat  BY <1>1 DEF AnyEvent
  <2> QED  BY <2>1 DEF RuleOf
<1>8. fields = [i \in 1..(E + 1) |-> fields[i]]  BY DEF EventFields, E
<1>9. ASSUME NEW i \in 1..E
      PROVE  /\ fields[i] \in Seq(Int) /\ Len(fields[i]) = 4
             /\ fields[i][1] = RuleOf(history[i]) /\ fields[i][2] = InputStart(history, i)
             /\ fields[i][3] = OutputStart(history, i) /\ fields[i][4] = history[i].generation
  <2>1. i \in 1..(E + 1) /\ i <= E  BY <1>1
  <2>2. fields[i] = <<RuleOf(history[i])>> \o <<InputStart(history, i), OutputStart(history, i)>>
                        \o <<history[i].generation>>
    BY <2>1 DEF EventFields, E
  <2> HIDE DEF fields
  <2> QED  BY <1>6, <1>7, <2>1, <2>2, FourFields
<1>10. LET i == E + 1
       IN  /\ fields[i] \in Seq(Int) /\ Len(fields[i]) = 4
           /\ fields[i][2] = InputStart(history, i) /\ fields[i][3] = OutputStart(history, i)
  <2> DEFINE i == E + 1
  <2>1. i \in 1..(E + 1) /\ ~(i <= E)  BY <1>1
  <2>2. fields[i] = <<-2>> \o <<InputStart(history, i), OutputStart(history, i)>> \o <<-1>>
    BY <2>1 DEF EventFields, E
  <2> HIDE DEF fields, i
  <2>3. -2 \in Int /\ -1 \in Int  OBVIOUS
  <2>4. /\ fields[i] \in Seq(Int) /\ Len(fields[i]) = 4
        /\ fields[i][2] = InputStart(history, i) /\ fields[i][3] = OutputStart(history, i)
    BY <1>6, <2>1, <2>2, <2>3, FourFields
  <2> QED  BY <2>4 DEF i
<1> HIDE DEF fields
<1>11. ASSUME NEW i \in 1..(E + 1)
       PROVE  /\ fields[i] \in Seq(Int) /\ Len(fields[i]) = 4
              /\ fields[i][2] = InputStart(history, i) /\ fields[i][3] = OutputStart(history, i)
  <2>1. CASE i = E + 1  BY <1>10, <2>1
  <2>2. CASE i \in 1..E  BY <1>9, <2>2
  <2> QED  BY <1>1, <2>1, <2>2
<1>12. fields \in Seq(Seq(Int)) /\ Len(fields) = E + 1
  <2> DEFINE M == E + 1
  <2>1. M \in Nat  BY <1>1
  <2>2. fields \in [1..M -> Seq(Int)]  BY <1>8, <1>11
  <2> HIDE DEF M
  <2>3. fields \in Seq(Seq(Int)) /\ Len(fields) = M  BY ONLY <2>1, <2>2
  <2> QED  BY <2>3 DEF M
<1> QED  BY <1>9, <1>11, <1>12 DEF E, fields

\* What one event becomes when it is read.
LEMMA EventRead ==
    ASSUME NEW history \in Seq(AnyEvent), NEW e \in 1..Len(history)
    PROVE  LET list == PutEvents(history)
               Field(f, k) == list[4 * (f - 1) + k + 1]
           IN  /\ Field(e, 1) = RuleOf(history[e]) /\ Field(e, 4) = history[e].generation
               /\ SubSeq(list, Field(e, 2), Field(e + 1, 2) - 1) = Inputs(history)[e]
               /\ SubSeq(list, Field(e, 3), Field(e + 1, 3) - 1) = Outputs(history)[e]
               /\ list[1] = Len(history)
<1> DEFINE E == Len(history)
           fields == EventFields(history)
           ins == Inputs(history)
           outs == Outputs(history)
           four == FlattenSeq(fields)
           flatIn == FlattenSeq(ins)
           flatOut == FlattenSeq(outs)
           list == <<E>> \o four \o flatIn \o flatOut
           F == 4 * (E + 1)
           m == Len(flatIn)
           n == Len(flatOut)
           Field(f, k) == list[4 * (f - 1) + k + 1]
<1>1. E \in Nat /\ e \in 1..E /\ F \in Nat  OBVIOUS
<1>2. PutEvents(history) = list
  BY DEF PutEvents, EventFields, InputStart, OutputStart, FirstInput, FirstOutput
<1>3. /\ ins \in Seq(Seq(Int)) /\ Len(ins) = E
      /\ outs \in Seq(Seq(Int)) /\ Len(outs) = E
  BY LibraryTokens
<1>4. /\ fields \in Seq(Seq(Int)) /\ Len(fields) = E + 1
      /\ \A i \in 1..(E + 1) :
           /\ Len(fields[i]) = 4
           /\ fields[i][2] = InputStart(history, i) /\ fields[i][3] = OutputStart(history, i)
      /\ \A i \in 1..E :
           fields[i][1] = RuleOf(history[i]) /\ fields[i][4] = history[i].generation
  BY EventFieldsHeld
<1> HIDE DEF fields, ins, outs
<1>5. /\ four \in Seq(Int) /\ Len(four) = F
      /\ \A i \in 1..(E + 1) : \A k \in 1..4 : four[4 * (i - 1) + k] = fields[i][k]
  <2> HIDE DEF E
  <2> QED  BY <1>4, FoursFlattened
<1>6. /\ flatIn \in Seq(Int) /\ LengthBefore(ins, E + 1) = m
      /\ flatOut \in Seq(Int) /\ LengthBefore(outs, E + 1) = n
  <2> HIDE DEF E
  <2> QED  BY <1>3, FlattenedLists
<1> HIDE DEF four, flatIn, flatOut, E
<1>7. /\ list \in Seq(Int) /\ list[1] = E
      /\ Len(list) = 1 + F + m + n
      /\ \A p \in 1..F : list[1 + p] = four[p]
      /\ \A p \in 1..m : list[(1 + F) + p] = flatIn[p]
      /\ \A p \in 1..n : list[(1 + F + m) + p] = flatOut[p]
  <2> HIDE DEF F
  <2>1. E \in Int  BY <1>1
  <2>2. FourJoin(list, E, four, flatIn, flatOut)
    <3>1. list = <<E>> \o four \o flatIn \o flatOut  OBVIOUS
    <3> HIDE DEF list
    <3>2. four \in Seq(Int) /\ flatIn \in Seq(Int) /\ flatOut \in Seq(Int)  BY <1>5, <1>6
    <3> QED  BY ONLY <2>1, <3>1, <3>2, FourJoined
  <2> HIDE DEF list
  <2> QED  BY <1>5, <2>2 DEF m, n, FourJoin
<1>8. m \in Nat /\ n \in Nat  BY <1>6
<1> HIDE DEF list, m, n
<1>9. ASSUME NEW f \in 1..(E + 1), NEW k \in 1..4 PROVE Field(f, k) = fields[f][k]
  <2> DEFINE p == 4 * (f - 1) + k
  <2>1. p \in 1..F  BY <1>1
  <2>2. p + 1 = 1 + p  BY <2>1
  <2>3. four[p] = fields[f][k]  BY <1>5
  <2> HIDE DEF p, F
  <2>4. list[1 + p] = four[p]  BY <1>7, <2>1
  <2>5. Field(f, k) = list[p + 1]  BY DEF p
  <2> QED  BY <2>2, <2>3, <2>4, <2>5
<1>10. e \in 1..(E + 1) /\ e + 1 \in 1..(E + 1)
       /\ 1 \in 1..4 /\ 2 \in 1..4 /\ 3 \in 1..4 /\ 4 \in 1..4
  BY <1>1
<1> HIDE DEF Field
<1>11. Field(e, 1) = RuleOf(history[e]) /\ Field(e, 4) = history[e].generation
  BY <1>1, <1>4, <1>9, <1>10
<1>12. /\ Field(e, 2) = InputStart(history, e) /\ Field(e + 1, 2) = InputStart(history, e + 1)
       /\ Field(e, 3) = OutputStart(history, e) /\ Field(e + 1, 3) = OutputStart(history, e + 1)
  BY <1>4, <1>9, <1>10
<1>13. SubSeq(list, Field(e, 2), Field(e + 1, 2) - 1) = ins[e]
  <2> DEFINE base == 1 + F
  <2>1. base \in Nat /\ base + m <= Len(list)  BY <1>1, <1>7, <1>8
  <2>2. base + 1 = FirstInput(history)  BY DEF FirstInput, E
  <2>3. /\ Field(e, 2) = (base + 1) + LengthBefore(ins, e)
        /\ Field(e + 1, 2) = (base + 1) + LengthBefore(ins, e + 1)
    <3> HIDE DEF base
    <3> QED  BY <1>12, <2>2 DEF InputStart, ins
  <2>4. \A p \in 1..m : list[base + p] = flatIn[p]  BY <1>7
  <2> HIDE DEF base, F
  <2>5. SubSeq(list, (base + 1) + LengthBefore(ins, e),
                     ((base + 1) + LengthBefore(ins, e + 1)) - 1) = ins[e]
    <3>1. /\ ins \in Seq(Seq(Int)) /\ list \in Seq(Int) /\ e \in 1..Len(ins)
          /\ base + Len(FlattenSeq(ins)) <= Len(list)
          /\ \A p \in 1..Len(FlattenSeq(ins)) : list[base + p] = FlattenSeq(ins)[p]
      BY <1>1, <1>3, <1>7, <2>1, <2>4 DEF flatIn, m
    <3> QED  BY ONLY <2>1, <3>1, SliceBack
  <2> QED  BY <2>3, <2>5
<1>14. SubSeq(list, Field(e, 3), Field(e + 1, 3) - 1) = outs[e]
  <2> DEFINE base == 1 + F + m
  <2>1. base \in Nat /\ base + n <= Len(list)  BY <1>1, <1>7, <1>8
  <2>2. base + 1 = FirstOutput(history)
    <3>1. FirstInput(history) = (1 + F) + 1  BY DEF FirstInput, E
    <3>2. FirstOutput(history) = FirstInput(history) + m  BY <1>6 DEF FirstOutput, E, ins
    <3> QED  BY <1>1, <1>8, <3>1, <3>2
  <2>3. /\ Field(e, 3) = (base + 1) + LengthBefore(outs, e)
        /\ Field(e + 1, 3) = (base + 1) + LengthBefore(outs, e + 1)
    <3> HIDE DEF base
    <3> QED  BY <1>12, <2>2 DEF OutputStart, outs
  <2>4. \A p \in 1..n : list[base + p] = flatOut[p]  BY <1>7
  <2> HIDE DEF base, F
  <2>5. SubSeq(list, (base + 1) + LengthBefore(outs, e),
                     ((base + 1) + LengthBefore(outs, e + 1)) - 1) = outs[e]
    <3>1. /\ outs \in Seq(Seq(Int)) /\ list \in Seq(Int) /\ e \in 1..Len(outs)
          /\ base + Len(FlattenSeq(outs)) <= Len(list)
          /\ \A p \in 1..Len(FlattenSeq(outs)) : list[base + p] = FlattenSeq(outs)[p]
      BY <1>1, <1>3, <1>7, <2>1, <2>4 DEF flatOut, n
    <3> QED  BY ONLY <2>1, <3>1, SliceBack
  <2> QED  BY <2>3, <2>5
<1>15. list[1] = Len(history)  BY <1>7 DEF E
<1> QED  BY <1>2, <1>11, <1>13, <1>14, <1>15 DEF Field, ins, outs

\* An event with another rule.
LEMMA OtherRule ==
    ASSUME NEW event \in AnyEvent, NEW rule
    PROVE  [event EXCEPT !.rule = rule]
             = [rule |-> rule, inputTokens |-> event.inputTokens,
                outputTokens |-> event.outputTokens, generation |-> event.generation]
<1> DEFINE a == event.rule
           b == event.inputTokens
           c == event.outputTokens
           d == event.generation
<1>1. event = [rule |-> a, inputTokens |-> b, outputTokens |-> c, generation |-> d]
  BY DEF AnyEvent
<1> HIDE DEF a, b, c, d
<1>2. [[rule |-> a, inputTokens |-> b, outputTokens |-> c, generation |-> d] EXCEPT !.rule = rule]
        = [rule |-> rule, inputTokens |-> b, outputTokens |-> c, generation |-> d]
  OBVIOUS
<1> QED  BY ONLY <1>1, <1>2 DEF b, c, d

\* The events that are read are those of the system, where the initial one has
\* rule 0 in place of -1.
LEMMA EventsReadBack ==
    ASSUME NEW history \in Seq(AnyEvent), 1 \in 1..Len(history),
           \A e \in 1..Len(history) : history[e].rule = -1 <=> e = 1
    PROVE  DecodeEvents(PutEvents(history))
             = [e \in DOMAIN history |->
                 [history[e] EXCEPT !.rule = IF e = 1 THEN 0 ELSE history[e].rule]]
<1> DEFINE E == Len(history)
           list == PutEvents(history)
           Field(f, k) == list[4 * (f - 1) + k + 1]
           Ids(f, k) == SubSeq(list, Field(f, k), Field(f + 1, k) - 1)
           Tokens(f, k) == [i \in DOMAIN Ids(f, k) |-> Ids(f, k)[i] + 1]
           Read(f) == [rule |-> Field(f, 1) + 1, inputTokens |-> Tokens(f, 2),
                       outputTokens |-> Tokens(f, 3), generation |-> Field(f, 4)]
           Meant(f) == [history[f] EXCEPT !.rule = IF f = 1 THEN 0 ELSE history[f].rule]
<1>1. DOMAIN history = 1..E /\ \A e \in 1..E : history[e] \in AnyEvent  OBVIOUS
<1>2. DecodeEvents(list) = [e \in 1..list[1] |-> Read(e)]  BY DEF DecodeEvents
<1> HIDE DEF list
<1>3. ASSUME NEW e \in 1..E PROVE Read(e) = Meant(e) /\ list[1] = E
  <2>1. /\ Field(e, 1) = RuleOf(history[e]) /\ Field(e, 4) = history[e].generation
        /\ Ids(e, 2) = Inputs(history)[e] /\ Ids(e, 3) = Outputs(history)[e]
        /\ list[1] = E
    BY EventRead DEF list
  <2> HIDE DEF Field, Ids
  <2>2. Tokens(e, 2) = history[e].inputTokens /\ Tokens(e, 3) = history[e].outputTokens
    <3>1. /\ [i \in DOMAIN Inputs(history)[e] |-> Inputs(history)[e][i] + 1]
               = history[e].inputTokens
          /\ [i \in DOMAIN Outputs(history)[e] |-> Outputs(history)[e][i] + 1]
               = history[e].outputTokens
      BY LibraryTokens
    <3> QED  BY <2>1, <3>1
  <2> HIDE DEF Tokens, E
  <2>3. RuleOf(history[e]) + 1 = IF e = 1 THEN 0 ELSE history[e].rule
    <3>1. history[e].rule \in Int  BY <1>1 DEF AnyEvent
    <3>2. history[e].rule = -1 <=> e = 1  BY DEF E
    <3> QED  BY <3>1, <3>2 DEF RuleOf
  <2>4. Read(e) = [rule |-> IF e = 1 THEN 0 ELSE history[e].rule,
                   inputTokens |-> history[e].inputTokens,
                   outputTokens |-> history[e].outputTokens,
                   generation |-> history[e].generation]
    BY <2>1, <2>2, <2>3
  <2>5. Meant(e) = [rule |-> IF e = 1 THEN 0 ELSE history[e].rule,
                    inputTokens |-> history[e].inputTokens,
                    outputTokens |-> history[e].outputTokens,
                    generation |-> history[e].generation]
    BY <1>1, OtherRule
  <2> QED  BY <2>1, <2>4, <2>5
<1>4. list[1] = E  BY <1>3
<1> HIDE DEF Read, Meant, E
<1>5. [e \in 1..list[1] |-> Read(e)] = [e \in 1..E |-> Meant(e)]  BY <1>3, <1>4
<1> QED  BY <1>1, <1>2, <1>5 DEF Meant, list

-----------------------------------------------------------------------------
(* What the system has can be sent.                                        *)

\* Every event but the initial one has a rule.
RulesRecorded == \A e \in 1..Len(events) : events[e].rule = -1 <=> e = 1

\* The first event stays the initial one, and all others instantiate rules.
LEMMA RulesStayRecorded ==
    ASSUME SteadyUse
    PROVE  Spec => []RulesRecorded
<1>1. ASSUME Init PROVE RulesRecorded
  <2>1. PICK first : events = <<first>> /\ first.rule = -1
    BY <1>1 DEF Init, Graph!Init, Graph!InitialConditionRule
  <2> QED  BY <2>1 DEF RulesRecorded
<1>2. ASSUME SystemSound, RulesRecorded, [Next]_vars PROVE RulesRecorded'
  <2>1. CASE UNCHANGED graphVars
    BY <1>2, <2>1 DEF graphVars, RulesRecorded
  <2>2. ASSUME NEW match \in matches, Instantiate(match) PROVE RulesRecorded'
    <3> DEFINE n == Len(events)
               last == events'[n + 1]
    <3>1. n \in Nat /\ n > 0 /\ events \in Seq(AnyEvent)
      BY <1>2, GraphDomains DEF SystemSound, GraphTyped
    <3>2. PICK new : events' = Append(events, new) /\ new.rule = match.rule
      BY <2>2 DEF Instantiate, Graph!AddEvent
    <3>3. /\ Len(events') = n + 1 /\ last.rule = match.rule
          /\ \A e \in 1..n : events'[e] = events[e]
      BY <3>1, <3>2
    <3>4. match.rule # -1
      <4>1. match.rule \in 1..Len(RuleList) /\ Len(RuleList) \in Nat
        BY <1>2, RuleListAssumption DEF SystemSound, MatchGood, RuleIDs
      <4> QED  BY <4>1
    <3>5. ASSUME NEW e \in 1..Len(events') PROVE events'[e].rule = -1 <=> e = 1
      <4>1. e \in 1..n \/ e = n + 1  BY <3>1, <3>3
      <4>2. CASE e \in 1..n  BY <1>2, <3>3, <4>2 DEF RulesRecorded
      <4>3. CASE e = n + 1  BY <3>1, <3>3, <3>4, <4>3
      <4> QED  BY <4>1, <4>2, <4>3
    <3> QED  BY <3>5 DEF RulesRecorded
  <2> QED  BY <1>2, <2>1, <2>2, OnlyEventsChangeGraph
<1> QED  BY <1>1, <1>2, SystemStaysSound, PTL DEF Spec

\* Lists of some numbers are lists of numbers.
LEMMA NumbersOfLists ==
    ASSUME NEW S, S \subseteq Int, NEW lists \in Seq(Seq(S))
    PROVE  lists \in Seq(Seq(Int))
<1> DEFINE size == Len(lists)
<1>1. size \in Nat /\ DOMAIN lists = 1..size /\ lists \in [1..size -> Seq(S)]
  OBVIOUS
<1> HIDE DEF size
<1>2. ASSUME NEW list \in Seq(S) PROVE list \in Seq(Int)
  <2> DEFINE m == Len(list)
  <2>1. m \in Nat /\ list \in [1..m -> S]  OBVIOUS
  <2> HIDE DEF m
  <2>2. list \in [1..m -> Int]  BY <2>1
  <2> QED  BY ONLY <2>1, <2>2, Listed
<1>3. lists \in [1..size -> Seq(Int)]  BY ONLY <1>1, <1>2
<1> QED  BY ONLY <1>1, <1>3

\* Each part of TensorsReadBack, from the types of what is sent.
LEMMA WhatIsSentReadsBack ==
    ASSUME SystemSound, TypeOK, RulesRecorded
    PROVE  TensorsReadBack
<1> DEFINE sentTokens == EncodeNestedLists(tokens)
           sentRules == EncodeRules(RuleList)
           codes == EventSelectionCodes(RuleList)
<1>1. tokens \in Seq(Seq(Int))
  <2>1. tokens \in Seq(Seq(1..nextAtom))  BY DEF TypeOK
  <2>2. 1..nextAtom \subseteq Int  OBVIOUS
  <2> QED  BY <2>1, <2>2, NumbersOfLists
<1>2. RuleList \in Seq(RuleSet)  BY RuleListAssumption DEF RuleSet
<1>3. events \in Seq(AnyEvent) /\ 1 \in 1..Len(events)
  <2>1. events \in Seq(AnyEvent) /\ Len(events) \in Nat /\ Len(events) > 0
    BY GraphDomains DEF SystemSound, GraphTyped
  <2> QED  BY <2>1
<1>4. /\ GetNextHypergraph(sentTokens, 1).lists = tokens
      /\ \A n \in 0..(Len(sentTokens) - 1) :
           ~GetNextHypergraph(SubSeq(sentTokens, 1, n), 1).ok
  BY <1>1, TokensReadBack
<1>5. /\ GetRules(sentRules, codes).rules = RuleList
      /\ \A n \in 0..(Len(sentRules) - 1) : ~GetRules(SubSeq(sentRules, 1, n), codes).ok
  BY <1>2, RulesReadBack
<1>6. \A spec \in SomeOrderings : GetOrderingSpec(EncodeOrderingSpec(spec)).spec = spec
  BY OrderingsReadBack DEF SomeOrderings
<1>7. \A seed \in 0..(SeedBase * SeedBase - 1) :
        GetSeed(EncodeSeed(seed, SeedBase), SeedBase).seed = seed
  <2>1. SeedBase \in Nat \ {0}  BY DEF SeedBase
  <2> QED  BY <2>1, SeedsReadBack
<1>8. GetMaxDestroyerEvents(EncodeMaxDestroyerEvents(MaxDestroyerEvents, Disabled), Disabled)
        = MaxDestroyerEvents
  <2>1. MaxDestroyerEvents # -1  BY Constants
  <2> QED  BY <2>1 DEF GetMaxDestroyerEvents, EncodeMaxDestroyerEvents
<1>9. GetStepSpec(EncodeStepSpec(stepSpec, Disabled), Disabled).spec = stepSpec
  <2>1. Disabled \in Nat /\ MaxEvents \in Nat /\ MaxEvents < Disabled  BY Constants
  <2>2. StepSpecs \subseteq StepSpecSet(Disabled)
    BY <2>1, LimitsAssumption DEF StepSpecSet
  <2>3. NoSteps \in StepSpecSet(Disabled) /\ AllSteps \in StepSpecSet(Disabled)
    BY <2>1 DEF NoSteps, AllSteps, StepSpecSet
  <2>4. stepSpec \in StepSpecSet(Disabled)  BY <2>2, <2>3 DEF TypeOK
  <2> QED  BY <2>1, <2>4, StepSpecsReadBack
<1>10. DecodeAtomLists(PutHypergraph(tokens)) = tokens  BY <1>1, HypergraphReadBack
<1>11. DecodeEvents(PutEvents(events))
         = [e \in DOMAIN events |->
             [events[e] EXCEPT !.rule = IF e = 1 THEN 0 ELSE events[e].rule]]
  BY <1>3, EventsReadBack DEF RulesRecorded
<1> QED  BY <1>4, <1>5, <1>6, <1>7, <1>8, <1>9, <1>10, <1>11 DEF TensorsReadBack

\* Whatever the rules, the initial state and the limits, what crosses the interface
\* arrives as it was sent, and is refused when it is cut short: in every state the
\* system gets into, the tokens, rules, orderings, seeds and limits on the way to the
\* library, and the tokens and events on the way back.
THEOREM TensorsAlwaysReadBack ==
    ASSUME SteadyUse, RulesNameKnownAtoms
    PROVE  APISpec => []TensorsReadBack
<1>1. SystemSound /\ TypeOK /\ RulesRecorded => TensorsReadBack  BY WhatIsSentReadsBack
<1> QED  BY <1>1, InterfaceImplementsSystem, SystemStaysSound, TypeCorrect,
            RulesStayRecorded, PTL
=============================================================================
