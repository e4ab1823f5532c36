------------------------- MODULE WolframLanguageAPI -------------------------
(***************************************************************************)
(* The substitution system behind its library interface, and one           *)
(* evaluation of setSubstitutionSystem$cpp, the function of the Wolfram    *)
(* Language side that uses it.                                             *)
(*                                                                         *)
(* Every library function answers an exception with an error code, and the *)
(* evaluation looks at none but that of the complete generation.  What     *)
(* happened is therefore read off the termination reason alone.            *)
(*                                                                         *)
(* The caller is fixed at the start: either a C++ program, free to make    *)
(* any calls in any order, or the Wolfram Language.  The variables of the  *)
(* system have their initial values until the library creates it.          *)
(***************************************************************************)
EXTENDS HypergraphSubstitutionSystem, LibraryTensors

VARIABLES
    caller,    \* "Cpp" or "WolframLanguage"
    entry,     \* the system's entry in hypergraphSubstitutionSystems_
    position,  \* how far the evaluation is
    request,   \* its arguments
    result     \* what it returns

apiVars == <<caller, entry, position, request, result>>
allVars == <<vars, apiVars>>

Requests == [spec : StepSpecs, returnOnAbort : BOOLEAN, timeConstraint : BOOLEAN]

NoResult == [kind |-> "None"]
AbortedResult == [kind |-> "$Aborted"]
CrashResult == [kind |-> "Crash"]
MissingGeneration == -1

-----------------------------------------------------------------------------
(* Termination reasons cross the interface as numbers.                     *)

TerminationReasons ==
    <<"NotTerminated", "MaxEvents", "MaxGenerationsLocal", "MaxFinalAtoms",
      "MaxFinalAtomDegree", "MaxFinalTokens", "Complete", "Aborted", "TimeConstrained">>

TerminationReasonCode(reason) ==
    CHOOSE code \in 0..8 : TerminationReasons[code + 1] = reason

\* Mutation: the limits of vertices and of their degree are exchanged.
NamesWithLimitsExchanged ==
    <<"NotTerminated", "MaxEvents", "MaxGenerationsLocal", "MaxVertexDegree",
      "MaxVertices", "MaxEdges", "FixedPoint", "Aborted", "TimeConstraint">>

TerminationReasonNames ==
    <<"NotTerminated", "MaxEvents", "MaxGenerationsLocal", "MaxVertices",
      "MaxVertexDegree", "MaxEdges", "FixedPoint", "Aborted", "TimeConstraint">>

NameOfReason(reason) == TerminationReasonNames[TerminationReasonCode(reason) + 1]

-----------------------------------------------------------------------------
(* The evaluation, one library call at a time.                             *)

\* The Wolfram Language sends its atoms as numbers from 1 (globalIndex).
AtomsAreNumbered ==
    LET atoms == AtomsOf(tokens) \cup {atom \in RuleAtoms : atom > 0}
    IN  atoms = 1..Cardinality(atoms)

APIInit ==
    /\ Init
    /\ caller \in {"Cpp", "WolframLanguage"}
    /\ caller = "WolframLanguage" => AtomsAreNumbered
    /\ entry = "none"
    /\ position = "begin"
    /\ request \in IF caller = "Cpp" THEN {[spec |-> NoSteps]} ELSE Requests
    /\ result = NoResult

At(before, after) == position = before /\ position' = after

\* The evaluation ends; its handle is released later.
End(outcome) ==
    /\ position' = "ended"
    /\ result' = outcome

\* CreateManagedLibraryExpression registers the system without a value.
ManageInstance ==
    /\ caller = "WolframLanguage"
    /\ At("begin", "created")
    /\ entry' = "null"
    /\ UNCHANGED <<vars, caller, request, result>>

\* The library creates the system, or fails to, which is not looked at.
InitializeSystem ==
    /\ At("created", "initialized")
    /\ entry' \in {"system", "null"}
    /\ UNCHANGED <<vars, caller, request, result>>

CallReplace ==
    /\ entry = "system"
    /\ At("initialized", "replacing")
    /\ Replace(request.spec)
    /\ UNCHANGED <<caller, entry, request, result>>

\* throwIfInvalidStepSpec makes the call an error.
ReplaceIsRefused ==
    /\ entry = "system" /\ ~ValidStepSpec(request.spec)
    /\ At("initialized", "replaced")
    /\ UNCHANGED <<vars, caller, entry, request, result>>

\* The entry that is found is a null pointer.
ReplaceCrashes ==
    /\ entry = "null"
    /\ position = "initialized"
    /\ End(CrashResult)
    /\ UNCHANGED <<vars, caller, entry, request>>

\* The replacement runs; it times out only if there is a time constraint.
Replacing ==
    /\ position = "replacing" /\ call = "replace"
    /\ Next
    /\ terminationReason' = "TimeConstrained" => request.timeConstraint
    /\ UNCHANGED apiVars

\* CheckAbort lets a replacement that was not interrupted return, and one that
\* was when the caller wants what there is.  The interruption of another kind
\* than a scan notices, just before the call returns, is treated alike.
ReplaceReturns ==
    /\ call = "none"
    /\ \/ /\ At("replacing", "replaced")
          /\ terminationReason = "Aborted" => request.returnOnAbort
          /\ UNCHANGED result
       \/ /\ position = "replacing" /\ ~request.returnOnAbort
          /\ End(AbortedResult)
    /\ UNCHANGED <<vars, caller, entry, request>>

\* The reason is read.  Not having terminated counts as having timed out, but
\* only after the case that a timeout gives no result.
ReadTerminationReason ==
    LET name == NameOfReason(terminationReason)
    IN  /\ \/ /\ position = "replaced"
              /\ name = "TimeConstraint" /\ ~request.returnOnAbort
              /\ End(AbortedResult)
           \/ /\ At("replaced", "reported")
              /\ name = "TimeConstraint" => request.returnOnAbort
              /\ result' = [kind |-> "Result", complete |-> MissingGeneration,
                            reason |-> IF name = "NotTerminated" THEN "TimeConstraint" ELSE name]
        /\ UNCHANGED <<vars, caller, entry, request>>

\* The complete generation is the last to be read.  It indexes, so that it can be aborted.
ReadMaxCompleteGeneration ==
    /\ position = "reported"
    /\ MaxCompleteGeneration
    /\ IF unindexedTokens' = {} THEN End([result EXCEPT !.complete = CompleteGeneration'])
       ELSE IF request.returnOnAbort THEN End(result)
       ELSE End(AbortedResult)
    /\ UNCHANGED <<caller, entry, request>>

\* The managed expression is not referenced any more.
ReleaseInstance ==
    /\ position = "ended" /\ entry # "none"
    /\ entry' = "none"
    /\ UNCHANGED <<vars, caller, position, request, result>>

Ended == position = "ended" /\ entry = "none" /\ UNCHANGED allVars

CppCalls == caller = "Cpp" /\ Next /\ UNCHANGED apiVars

APINext ==
    \/ CppCalls
    \/ ManageInstance \/ InitializeSystem
    \/ CallReplace \/ ReplaceIsRefused \/ ReplaceCrashes \/ Replacing \/ ReplaceReturns
    \/ ReadTerminationReason \/ ReadMaxCompleteGeneration
    \/ ReleaseInstance \/ Ended

APISpec == APIInit /\ [][APINext]_allVars

-----------------------------------------------------------------------------
(* Properties.                                                             *)

\* Orderings of two criteria, and seeds with digits of this base.
SomeOrderings == [1..2 -> [function : Range(OrderingFunctions), direction : Range(OrderingDirections)]]
SeedBase == 4

\* In every state the system gets into, its tokens could be sent as an initial
\* state and would arrive as they are; the rules, orderings, seeds and limits do;
\* a list that is cut short is refused; and the tokens and events that are read
\* are those the system has.
TensorsReadBack ==
    LET sentTokens == EncodeNestedLists(tokens)
        sentRules == EncodeRules(RuleList)
        codes == EventSelectionCodes(RuleList)
        read == DecodeEvents(PutEvents(events))
    IN  /\ GetNextHypergraph(sentTokens, 1).lists = tokens
        /\ GetRules(sentRules, codes).rules = RuleList
        /\ \A n \in 0..(Len(sentTokens) - 1) :
             ~GetNextHypergraph(SubSeq(sentTokens, 1, n), 1).ok
        /\ \A n \in 0..(Len(sentRules) - 1) : ~GetRules(SubSeq(sentRules, 1, n), codes).ok
        /\ \A spec \in SomeOrderings : GetOrderingSpec(EncodeOrderingSpec(spec)).spec = spec
        /\ \A seed \in 0..(SeedBase * SeedBase - 1) :
             GetSeed(EncodeSeed(seed, SeedBase), SeedBase).seed = seed
        /\ GetMaxDestroyerEvents(EncodeMaxDestroyerEvents(MaxDestroyerEvents, Disabled), Disabled)
             = MaxDestroyerEvents
        /\ GetStepSpec(EncodeStepSpec(stepSpec, Disabled), Disabled).spec = stepSpec
        /\ DecodeAtomLists(PutHypergraph(tokens)) = tokens
        /\ read = [e \in DOMAIN events |->
                    [events[e] EXCEPT !.rule = IF e = 1 THEN 0 ELSE events[e].rule]]

\* A possible event would take the final state over this limit.
LimitReached(limit) ==
    \E match \in PossibleMatches :
        FinalStateLimit(InputAtoms(match), ExplicitOutputs(match)) = limit

\* "TimeConstraint" is only reported if a time constraint was asked for, as the
\* documentation of TerminationReason has it.
TimeConstraintOnlyIfAsked ==
    result.kind = "Result" /\ result.reason = "TimeConstraint" => request.timeConstraint

\* The evaluation tells the truth about the system it returns, although it only
\* sees a number: why it ended, up to where it is complete, and that nothing was
\* left out unless the caller wants partial results.
ResultIsTrue ==
    result.kind = "Result" =>
        /\ \/ result.reason = "FixedPoint" /\ PossibleMatches = {}
           \/ result.reason = "MaxEvents" /\ Graph!EventsCount = request.spec.maxEvents
           \/ /\ result.reason = "MaxGenerationsLocal"
              /\ largestGeneration = request.spec.maxGenerationsLocal
              /\ \A match \in PossibleMatches : MatchGeneration(match) = largestGeneration
           \/ result.reason = "MaxVertices" /\ LimitReached("MaxFinalAtoms")
           \/ result.reason = "MaxVertexDegree" /\ LimitReached("MaxFinalAtomDegree")
           \/ result.reason = "MaxEdges" /\ LimitReached("MaxFinalTokens")
           \/ result.reason = "Aborted" /\ request.returnOnAbort
           \/ /\ result.reason = "TimeConstraint" /\ terminationReason = "TimeConstrained"
              /\ request.timeConstraint /\ request.returnOnAbort
        /\ result.complete \in {MissingGeneration, LargestCompleteGeneration}
        /\ result.complete = MissingGeneration =>
             position = "reported" \/ request.returnOnAbort
=============================================================================
