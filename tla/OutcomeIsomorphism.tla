------------------------- MODULE OutcomeIsomorphism -------------------------
(***************************************************************************)
(* The test by which event deduplication calls the outputs of two matches  *)
(* of the same tokens isomorphic (HypergraphMatcher::isomorphic): a search *)
(* for the first as the inputs of a rule, among the tokens of the second   *)
(* with its patterns named.  Patterns are the atoms an event would create. *)
(*                                                                         *)
(* The first outputs are of the match under test, the second of one that   *)
(* is kept.  MatchQueue has the test as its constant SameOutcome.          *)
(***************************************************************************)
EXTENDS MatchSearch

CONSTANTS
    Outcomes,           \* outputs of events to be compared
    ConnectingAtom      \* connectingAtom, larger than every atom

ASSUME OutcomesAssumption ==
    /\ Outcomes \subseteq Seq(Seq(Int))
    /\ ConnectingAtom \in Nat
    /\ \A outcome \in Outcomes : \A atom \in AtomsOf(outcome) : atom < ConnectingAtom

VARIABLE
    compared            \* the two outcomes a search compares, or NotCompared

vars == <<searchVars, compared>>

NotCompared == <<>>

AppendAtomToEveryToken(lists) == [i \in DOMAIN lists |-> Append(lists[i], ConnectingAtom)]

\* Mutation: the name is not counted up.
InstantiatePatternsAlike(lists) ==
    [i \in DOMAIN lists |->
        [p \in DOMAIN lists[i] |->
            IF lists[i][p] < 0 THEN Max(AtomsOf(lists)) + 1 ELSE lists[i][p]]]

\* instantiatePatternAtoms: patterns get the names after the largest atom.
InstantiatePatternAtoms(lists) ==
    LET Name(pattern) ==
            Max(AtomsOf(lists))
              + Cardinality({other \in NewPatterns(lists) :
                    ~AppearsBefore(lists, pattern, other)})
    IN  [i \in DOMAIN lists |->
            [p \in DOMAIN lists[i] |->
                IF lists[i][p] < 0 THEN Name(lists[i][p]) ELSE lists[i][p]]]

\* Every match has the first token, so that it is enough to start from it.
SearchFor(first, second) ==
    [inputs |-> AppendAtomToEveryToken(first),
     tokens |-> InstantiatePatternAtoms(AppendAtomToEveryToken(second)),
     newTokens |-> {1}, apart |-> {}]

\* Outcomes of different or no tokens are decided without a search.
NeedsSearch(first, second) == Len(first) = Len(second) /\ first # <<>>

\* A search is made for matches of a rule or to compare two outcomes.
SearchOrCompare ==
    \/ Init /\ compared = NotCompared
    \/ \E first, second \in Outcomes :
         /\ NeedsSearch(first, second)
         /\ compared = <<first, second>>
         /\ SearchInit({SearchFor(first, second)})

Compare ==
    \E first, second \in Outcomes :
        /\ NeedsSearch(first, second)
        /\ compared = <<first, second>>
        /\ SearchInit({SearchFor(first, second)})

SearchStep == Next /\ UNCHANGED compared

SearchOrCompareSpec == SearchOrCompare /\ [][SearchStep]_vars

CompareSpec == Compare /\ [][SearchStep]_vars

-----------------------------------------------------------------------------
(* Properties.                                                             *)

\* The patterns of one list can be renamed, one to one, to give the other.
EqualUpToNames(first, second) ==
    /\ \A i \in DOMAIN first : Len(first[i]) = Len(second[i])
    /\ \A place, other \in Places(first) :
         LET a == AtomAt(first, place)
             b == AtomAt(second, place)
         IN  /\ a = b \/ (a < 0 /\ b < 0)
             /\ a = AtomAt(first, other) <=> b = AtomAt(second, other)

\* The tokens of the second in the order of those of the first.
Arranged(second, order) == [i \in DOMAIN order |-> second[order[i]]]

Arrangements(first, second) == {order \in [DOMAIN first -> DOMAIN second] : IsInjective(order)}

\* The same for hypergraphs: the order of the tokens does not matter.
IsomorphicOutcomes(first, second) ==
    \E order \in Arrangements(first, second) : EqualUpToNames(first, Arranged(second, order))

\* The patterns of the first can be replaced to give the second, each by one atom,
\* be it that of another pattern or no pattern at all.
MapsOnto(first, second) ==
    \E order \in Arrangements(first, second) : Fits(first, Arranged(second, order))

ComparisonEnded == compared # NotCompared /\ SearchEnded

\* The comparison never fails for want of connected inputs, and what it finds is
\* whether one outcome maps onto the other, whichever tokens and atoms were added
\* to make it a search: it recognises all isomorphic outcomes, and others.
ComparisonIsExact ==
    ComparisonEnded =>
        /\ currentError = "None"
        /\ found # {} <=> MapsOnto(compared[1], compared[2])
        /\ IsomorphicOutcomes(compared[1], compared[2]) => found # {}

\* Events are only identified when their outputs are isomorphic with respect to
\* renaming of new atoms, as the documentation of EventDeduplication says.
OnlyIsomorphicIdentified ==
    ComparisonEnded /\ found # {} => IsomorphicOutcomes(compared[1], compared[2])
=============================================================================
