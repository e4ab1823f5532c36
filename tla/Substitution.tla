---------------------------- MODULE Substitution ----------------------------
(***************************************************************************)
(* Lists of atoms with patterns in them, as the inputs and outputs of      *)
(* rules are, and the replacement of patterns by the atoms of tokens.      *)
(* Negative atoms are patterns.                                            *)
(***************************************************************************)
EXTENDS Integers, Sequences, FiniteSets, Functions, FiniteSetsExt, SequencesExt

Places(atomLists) ==
    UNION {{<<i, p>> : p \in DOMAIN atomLists[i]} : i \in DOMAIN atomLists}
AtomAt(atomLists, place) == atomLists[place[1]][place[2]]
AtomsOf(atomLists) == UNION {Range(atomLists[i]) : i \in DOMAIN atomLists}

\* substituteMissingAtomsIfPossible: the patterns of the list can be replaced,
\* each by one atom, to give the tokens.
Fits(patternLists, atomLists) ==
    /\ \A i \in DOMAIN patternLists : Len(patternLists[i]) = Len(atomLists[i])
    /\ \A place, other \in Places(patternLists) :
         LET pattern == AtomAt(patternLists, place)
         IN  /\ pattern >= 0 => AtomAt(atomLists, place) = pattern
             /\ pattern = AtomAt(patternLists, other) =>
                  AtomAt(atomLists, place) = AtomAt(atomLists, other)

\* instantiateTokens: the lists with the patterns replaced that patternLists has
\* in common with them, by the atoms at their places in atomLists.
Substituted(lists, patternLists, atomLists) ==
    LET Value(atom) ==
            LET known == {place \in Places(patternLists) : AtomAt(patternLists, place) = atom}
            IN  IF atom >= 0 \/ known = {} THEN atom
                ELSE AtomAt(atomLists, CHOOSE place \in known : TRUE)
    IN  [i \in DOMAIN lists |-> [p \in DOMAIN lists[i] |-> Value(lists[i][p])]]

NewPatterns(atomLists) == {atom \in AtomsOf(atomLists) : atom < 0}

\* The first place of one atom is before every place of the other.
AppearsBefore(atomLists, atom, other) ==
    \E place \in Places(atomLists) :
        /\ AtomAt(atomLists, place) = atom
        /\ \A later \in Places(atomLists) : AtomAt(atomLists, later) = other =>
             \/ place[1] < later[1]
             \/ place[1] = later[1] /\ place[2] < later[2]

=============================================================================
