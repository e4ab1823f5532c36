--------------------------- MODULE MatchOrdering ---------------------------
(***************************************************************************)
(* MatchComparator: the order in which HypergraphMatcher keeps its         *)
(* matches, a list of criteria of which a later one decides between        *)
(* matches that are equal for those before.  It orders the buckets of      *)
(* matchQueue_ and, with criteria added, the set newMatches_; neither      *)
(* container works unless it is a strict weak order, and newMatches_ loses *)
(* a match that is equivalent to another.                                  *)
(*                                                                         *)
(* The input tokens of a match never repeat.                               *)
(***************************************************************************)
EXTENDS Integers, Sequences, FiniteSets

\* "any" leaves the order to chance and is equal for all matches.
OrderingFunctions == {"sortedExpressionIDs", "reverseSortedExpressionIDs", "expressionIDs",
                      "ruleIndex", "any"}
OrderingDirections == {"forward", "backward"}
OrderingSpec == Seq([function : OrderingFunctions, direction : OrderingDirections])

HasDistinctTokens(m) ==
    \A i, j \in DOMAIN m.inputTokens : i # j => m.inputTokens[i] # m.inputTokens[j]
Match == {m \in [rule : Nat, inputTokens : Seq(Nat)] : HasDistinctTokens(m)}

Compare(a, b) == IF a < b THEN -1 ELSE IF a > b THEN 1 ELSE 0

\* std::mismatch, and then the lengths
CompareVectors(first, second) ==
    LET mismatches == {i \in DOMAIN first \cap DOMAIN second : first[i] # second[i]}
        mismatch == CHOOSE i \in mismatches : \A j \in mismatches : i <= j
    IN  IF mismatches # {} THEN Compare(first[mismatch], second[mismatch])
        ELSE Compare(Len(first), Len(second))

TokensOf(m) == {m.inputTokens[i] : i \in DOMAIN m.inputTokens}

\* std::sort with std::less, or std::greater in reverse order
Increasing(tokens) == \A i, j \in DOMAIN tokens : i < j => tokens[i] < tokens[j]
SortedIDs(m) == CHOOSE tokens \in [1..Len(m.inputTokens) -> TokensOf(m)] : Increasing(tokens)
ReverseSortedIDs(m) ==
    LET n == Len(m.inputTokens) IN [i \in 1..n |-> SortedIDs(m)[n + 1 - i]]

CompareBy(a, b, function) ==
    CASE function = "sortedExpressionIDs" -> CompareVectors(SortedIDs(a), SortedIDs(b))
      [] function = "reverseSortedExpressionIDs" ->
           CompareVectors(ReverseSortedIDs(a), ReverseSortedIDs(b))
      [] function = "expressionIDs" -> CompareVectors(a.inputTokens, b.inputTokens)
      [] function = "ruleIndex" -> Compare(a.rule, b.rule)
      [] OTHER -> 0

Directed(a, b, ordering) ==
    LET comparison == CompareBy(a, b, ordering.function)
    IN  IF ordering.direction = "backward" THEN -comparison ELSE comparison

\* operator(): the first criterion to tell the matches apart puts a before b.
Before(spec, a, b) ==
    \E i \in DOMAIN spec :
        /\ Directed(a, b, spec[i]) < 0
        /\ \A j \in 1..(i - 1) : Directed(a, b, spec[j]) = 0

\* newMatches_ is arranged by input sets, then as the user asks, then totally.
NewMatchesOrderingSpec(spec) ==
    LET forward(function) == [function |-> function, direction |-> "forward"]
    IN  <<forward("sortedExpressionIDs")>> \o spec
            \o <<forward("expressionIDs"), forward("ruleIndex")>>

\* The position of a match's class among others, the key of its bucket.
Rank(spec, m, matches) == Cardinality({n \in matches : Before(spec, n, m)})
=============================================================================
