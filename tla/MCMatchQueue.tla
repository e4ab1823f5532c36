--------------------------- MODULE MCMatchQueue ---------------------------
(***************************************************************************)
(* Five matches of two rules over three tokens.  Three of them have the    *)
(* same input set; the outcomes of the first rule map onto those of the    *)
(* second, but not the other way round, so that matches drop each other in *)
(* a chain.  The user's ordering is by rule index, so that there are two   *)
(* buckets of up to three matches.                                         *)
(***************************************************************************)
EXTENDS MatchQueue, MatchOrdering

MCMatches ==
    {[rule |-> 0, inputTokens |-> <<1>>],
     [rule |-> 0, inputTokens |-> <<1, 2>>],
     [rule |-> 0, inputTokens |-> <<2, 1>>],
     [rule |-> 1, inputTokens |-> <<1, 2>>],
     [rule |-> 1, inputTokens |-> <<2, 3>>]}

MCOrderingSpec == <<[function |-> "ruleIndex", direction |-> "backward"]>>

MCSortKeys == [m \in MCMatches |-> Rank(MCOrderingSpec, m, MCMatches)]
MCNewMatchRanks ==
    [m \in MCMatches |-> Rank(NewMatchesOrderingSpec(MCOrderingSpec), m, MCMatches)]

MCRuleOf(m) == m.rule
MCInputTokens(m) == TokensOf(m)
MCSortKey(m) == MCSortKeys[m]
MCNewMatchRank(m) == MCNewMatchRanks[m]
MCSameOutcome(m, n) == m.rule <= n.rule
=============================================================================
