------------------------- MODULE MCHypergraphSystem -------------------------
(***************************************************************************)
(* Rules, initial states and step specifications for small systems.        *)
(***************************************************************************)
EXTENDS HypergraphSubstitutionSystem

Rule(inputs, outputs, spacelike) ==
    [inputs |-> inputs, outputs |-> outputs, spacelike |-> spacelike]

Steps(maxEvents, maxGenerations) ==
    [AllSteps EXCEPT !.maxEvents = maxEvents, !.maxGenerationsLocal = maxGenerations]

\* {{x, y}, {y, z}} -> {{x, z}, {z, w}} and {{x, x}} -> {}
PathRules ==
    <<Rule(<<<<-1, -2>>, <<-2, -3>>>>, <<<<-1, -3>>, <<-3, -4>>>>, FALSE),
      Rule(<<<<-1, -1>>>>, <<>>, FALSE)>>

PathStates == {<<<<1, 2>>, <<2, 3>>, <<3, 1>>>>, <<<<1, 1>>, <<1, 1>>>>}

\* Atoms so large that there is a name for one event, but not for two.
LargeAtomStates == {<<<<6, 7>>, <<7, 6>>>>}

SinglewayStates == PathStates \cup LargeAtomStates

SinglewaySpecs ==
    {Steps(4, 1), Steps(2, 2), Steps(4, 3),
     [Steps(4, 3) EXCEPT !.maxFinalAtoms = 3],
     [Steps(4, 3) EXCEPT !.maxFinalAtomDegree = 2],
     [Steps(4, 3) EXCEPT !.maxFinalTokens = 2]}

\* {{x}, {x}} -> {{x}, {y}} for spacelike tokens and {{x}, {x}} -> {{x}, {y, z}} for any
UnaryRules ==
    <<Rule(<<<<-1>>, <<-1>>>>, <<<<-1>>, <<-2>>>>, TRUE),
      Rule(<<<<-1>>, <<-1>>>>, <<<<-1>>, <<-2, -3>>>>, FALSE)>>

UnaryStates == {<<<<1>>, <<1>>>>}

\* The first of them alone: all rules have one selection function.
OneUnaryRule == SubSeq(UnaryRules, 1, 1)

\* The last limit is one a multihistory refuses.
MultiwaySpecs ==
    {Steps(3, 1), Steps(2, 2), Steps(3, 3), [Steps(3, 3) EXCEPT !.maxFinalAtoms = 3]}

\* {{x}} -> {{x, y}, {2, 3}}: the rule names two atoms no initial token has.
NamingRules == <<Rule(<<<<-1>>>>, <<<<-1, -2>>, <<2, 3>>>>, FALSE)>>

NamingStates == {<<<<1>>>>}

NamingSpecs == {Steps(2, 2)}

\* {{x}} -> {{x}}
LoopRules == <<Rule(<<<<-1>>>>, <<<<-1>>>>, FALSE)>>

\* The same beside a rule with two inputs: such a scan may use threads.
TwoLoopRules == Append(LoopRules, Rule(<<<<-1>>, <<-1>>>>, <<<<-1>>>>, FALSE))

LoopSpecs == {Steps(2, 2)}
=============================================================================
