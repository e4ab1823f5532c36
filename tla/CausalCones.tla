---------------------------- MODULE CausalCones ----------------------------
(***************************************************************************)
(* The separation of two tokens as the documentation of                    *)
(* "ExpressionSeparations" defines it, from the past causal cones in the   *)
(* expressions-events graph, beside TokenEventGraph, which computes it     *)
(* from the destroyer choices it has accumulated.                          *)
(***************************************************************************)
EXTENDS TokenEventGraph

Inputs(e) == Range(events[e].inputTokens)
Outputs(e) == Range(events[e].outputTokens)

PastEvents(id) ==
    LET cone[e \in AllEventIDs] ==
          {e} \cup UNION {cone[creatorEvents[input]] : input \in Inputs(e)}
    IN  cone[creatorEvents[id]]

PastTokens(id) == {id} \cup UNION {Inputs(e) : e \in PastEvents(id)}

\* Tokens on the future boundary of the intersection of the two past cones.
BoundaryTokens(first, second) ==
    {token \in PastTokens(first) \cap PastTokens(second) :
        \A e \in PastEvents(first) \cap PastEvents(second) : token \notin Inputs(e)}

ConeSeparation(first, second) ==
    IF first = second THEN "Identical"
    ELSE IF BoundaryTokens(first, second) \cap {first, second} # {} THEN "Timelike"
    ELSE IF BoundaryTokens(first, second) # {} THEN "Branchlike"
    ELSE "Spacelike"

\* For two different tokens the constant-time lookup in destroyerChoices_
\* answers what the documented algorithm on past causal cones answers.
SeparationAgreesWithCones ==
    (SeparationTracking = "DestroyerChoices" /\ isSpacelikeEvolution) =>
        \A first, second \in AllTokenIDs :
            TokenSeparation(first, second) = ConeSeparation(first, second)

PairwiseSpacelike(ids) ==
    \A first, second \in ids :
        first # second => TokenSeparation(first, second) = "Spacelike"

\* Tokens that are pairwise spacelike coexist in one singleway history: together
\* their pasts destroy no token twice and none of the tokens themselves.  The
\* matcher compares inputs in pairs only and relies on this.
PairwiseSpacelikeTokensAssemble ==
    \A ids \in SUBSET AllTokenIDs :
        PairwiseSpacelike(ids) =>
            LET history == UNION {PastEvents(id) : id \in ids}
            IN  \A e, f \in history :
                    /\ e # f => Inputs(e) \cap Inputs(f) = {}
                    /\ Inputs(e) \cap ids = {}

\* As long as an evolution is tracked every event in it had inputs that are
\* pairwise spacelike by their past cones: others are not supported, and the
\* answer for them should be Unknown.
TrackedEvolutionIsSpacelike ==
    (SeparationTracking = "DestroyerChoices" /\ isSpacelikeEvolution) =>
        \A e \in AllEventIDs : \A first, second \in Inputs(e) :
            first # second => ConeSeparation(first, second) = "Spacelike"

-----------------------------------------------------------------------------
(* The loop of addLastEventDestroyerChoices, one input at a time.          *)

Tracking == [consistent |-> TRUE, choices |-> NoChoices]

MergeInput(newEvent, state, inputToken) ==
    LET incoming == PrerequisiteChoices(inputToken)
        overwritten ==
          [token \in {inputToken} \cup DOMAIN state.choices |->
              IF token = inputToken THEN newEvent ELSE state.choices[token]]
        clash == \E token \in DOMAIN incoming \cap DOMAIN overwritten :
                    overwritten[token] # incoming[token]
    IN  IF ~state.consistent \/ clash
        THEN [consistent |-> FALSE, choices |-> NoChoices]
        ELSE [consistent |-> TRUE,
              choices |-> [token \in DOMAIN incoming \cup DOMAIN overwritten |->
                              IF token \in DOMAIN incoming THEN incoming[token]
                              ELSE overwritten[token]]]

MergeLoop(inputTokens, newEvent) ==
    LET merged[n \in 0..Len(inputTokens)] ==
          IF n = 0 THEN Tracking ELSE MergeInput(newEvent, merged[n - 1], inputTokens[n])
    IN  merged[Len(inputTokens)]

\* The closed form of the merge used by AddEvent is the loop's result, for every
\* tuple of distinct inputs the current graph offers.
MergeIsTheLoop ==
    (SeparationTracking = "DestroyerChoices" /\ isSpacelikeEvolution) =>
        \A inputTokens \in {tuple \in InputTuples : IsInjectiveTuple(tuple)} :
            LET newEvent == Len(events) + 1
                loop == MergeLoop(inputTokens, newEvent)
            IN  /\ loop.consistent <=> ~InconsistentPrerequisites(inputTokens)
                /\ loop.consistent =>
                     loop.choices = MergedChoices(inputTokens, newEvent)
=============================================================================
