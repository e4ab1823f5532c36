----------------------------- MODULE MatchSet -----------------------------
(***************************************************************************)
(* What HypergraphMatcher promises its caller (HypergraphMatcher.hpp): a   *)
(* set of matches to which matches are added and from which those of       *)
(* destroyed tokens are removed, and the match to be substituted next: one *)
(* of the best under the ordering specification, whenever a call returned  *)
(* without an error and there is a match.                                  *)
(***************************************************************************)
EXTENDS Integers

CONSTANTS
    Matches,         \* all matches there can be
    InputTokens(_),  \* the set of tokens a match has as inputs
    SortKey(_),      \* rank of a match under the ordering specification
    NoMatch          \* no match chosen yet

VARIABLES
    matches,  \* the set
    next,     \* what nextMatch returns
    call      \* "adding", "choosing" when a call has to choose, or "none"

vars == <<matches, next, call>>

Tokens == UNION {InputTokens(m) : m \in Matches}

Best == {m \in matches : \A n \in matches : SortKey(m) <= SortKey(n)}

Init == matches = {} /\ next = NoMatch /\ call = "none"

StartAdding ==
    /\ call = "none" /\ call' = "adding"
    /\ UNCHANGED <<matches, next>>

\* Some matches are added, and with the last of them the choice is due.
AddMatches(found) ==
    /\ call = "adding" /\ call' \in {"adding", "choosing"}
    /\ matches' = matches \cup found
    /\ UNCHANGED next

\* An error ends the search, and nothing is chosen.
StopAdding ==
    /\ call = "adding" /\ call' = "none"
    /\ UNCHANGED <<matches, next>>

RemoveMatchesInvolving(tokens) ==
    /\ call = "none" /\ call' = "choosing"
    /\ matches' = {m \in matches : InputTokens(m) \cap tokens = {}}
    /\ UNCHANGED next

\* Every call without an error ends with the best match as the next, if there is
\* a match: the match that was the next may be gone.
ChooseNext ==
    /\ call = "choosing" /\ call' = "none"
    /\ IF matches = {} THEN UNCHANGED next ELSE next' \in Best
    /\ UNCHANGED matches

\* A single match is deleted, and may stay the next until a call chooses.
DeleteMatch(m) ==
    /\ call = "none" /\ m \in matches
    /\ matches' = matches \ {m}
    /\ UNCHANGED <<next, call>>

Next ==
    \/ StartAdding \/ StopAdding \/ ChooseNext
    \/ \E found \in SUBSET Matches : AddMatches(found)
    \/ \E tokens \in SUBSET Tokens : RemoveMatchesInvolving(tokens)
    \/ \E m \in matches : DeleteMatch(m)

Spec == Init /\ [][Next]_vars
=============================================================================
