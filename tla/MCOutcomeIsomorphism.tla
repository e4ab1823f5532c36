------------------------ MODULE MCOutcomeIsomorphism ------------------------
(***************************************************************************)
(* Searches for rules of up to three inputs in small hypergraphs, and      *)
(* comparisons of outcomes of up to two tokens with up to two new atoms.   *)
(***************************************************************************)
EXTENDS OutcomeIsomorphism

Lists(atoms, length, sizes) == UNION {[1..n -> [1..length -> atoms]] : n \in sizes}

\* Connected inputs, a triangle among them; inputs connected by an atom the rule
\* names only; inputs that are not connected; and a list without atoms.
ChosenInputs ==
    {<<<<-1, -2>>, <<-2, -3>>>>, <<<<-1, -1>>, <<-1, 1>>>>, <<<<1, -1>>>>, <<>>,
     <<<<-1, -2>>, <<-2, -3>>, <<-3, -1>>>>, <<<<-1, -2>>, <<-3, -2>>, <<-2, -2>>>>,
     <<<<-1, 1>>, <<-2, 1>>>>, <<<<-1, -1>>, <<-2, 1>>>>, <<<<-1, -2>>, <<-3>>>>,
     <<<<-1, -2>>, <<>>>>, <<<<-1, -2>>, <<-2, -3>>, <<-4, -5>>>>}

MCInputs == ChosenInputs \cup Lists({-1, -2}, 2, {2})

MCTokens ==
    {<<<<1, 2>>, <<2, 1>>, <<2, 2>>, <<1, 1>>>>,
     <<<<1, 2>>, <<2, 3>>, <<3, 1>>, <<2, 3>>>>,
     <<<<1, 1>>, <<1, 1>>, <<1>>, <<>>>>}
    \cup {lists \in Lists({1, 2}, 2, {3}) : lists[1] \in {<<1, 1>>, <<1, 2>>}}

MCProblems ==
    UNION {[inputs : MCInputs, tokens : {tokens},
            newTokens : {{Len(tokens)}, {2, Len(tokens)}, DOMAIN tokens},
            apart : {{}, {{1, 2}}}] : tokens \in MCTokens}

\* New atoms are numbered by first appearance, as the two events would.
Canonical(lists) ==
    \A atom \in NewPatterns(lists) :
        atom < -1 => /\ atom + 1 \in NewPatterns(lists)
                     /\ AppearsBefore(lists, atom + 1, atom)

MCOutcomes ==
    {lists \in Lists({-1, -2, 1, 2}, 2, {1}) \cup Lists({-1, -2, 1}, 2, {2}) : Canonical(lists)}
=============================================================================
