------------------------- MODULE MatchSearchProofs -------------------------
(***************************************************************************)
(* Theorems about MatchSearch, for every rule, every set of tokens and     *)
(* every set of pairs of tokens that are not spacelike, and about          *)
(* OutcomeIsomorphism, which compares two outcomes by such a search.       *)
(***************************************************************************)
EXTENDS OutcomeIsomorphism, ArithmeticLemmas, FiniteSetTheorems, FunctionTheorems, TLAPS

-----------------------------------------------------------------------------
(* Lists of atoms that fit, and what substitution makes of them.           *)

\* A function on an initial segment of the numbers is a sequence.
LEMMA IsSequence ==
    ASSUME NEW S, NEW n \in Nat, NEW f \in [1..n -> S]
    PROVE  f \in Seq(S) /\ Len(f) = n /\ DOMAIN f = 1..n
OBVIOUS

\* Lists of atoms with the same atoms are the same.
LEMMA SameAtoms ==
    ASSUME NEW a \in Seq(Int), NEW b \in Seq(Nat), Len(a) = Len(b),
           \A p \in DOMAIN a : a[p] = b[p]
    PROVE  a = b
<1>1. /\ DOMAIN a = 1..Len(a) /\ DOMAIN b = 1..Len(b)
      /\ a = [p \in DOMAIN a |-> a[p]] /\ b = [p \in DOMAIN b |-> b[p]]
  OBVIOUS
<1> QED  BY <1>1, Zenon

FitsAtPlaces(lists, atoms) ==
    /\ \A i \in DOMAIN lists : Len(lists[i]) = Len(atoms[i])
    /\ \A i, j \in DOMAIN lists :
         \A p \in DOMAIN lists[i], q \in DOMAIN lists[j] :
           /\ lists[i][p] >= 0 => atoms[i][p] = lists[i][p]
           /\ lists[i][p] = lists[j][q] => atoms[i][p] = atoms[j][q]

FitsToken(input, token) ==
    /\ Len(input) = Len(token)
    /\ \A p, q \in DOMAIN input :
         /\ input[p] >= 0 => token[p] = input[p]
         /\ input[p] = input[q] => token[p] = token[q]

\* Lists fit if they have the same lengths, and a place has the atom that is
\* asked for there, or the same as the other places of its pattern.
LEMMA FitsByPlaces ==
    ASSUME NEW lists, NEW atoms
    PROVE  Fits(lists, atoms) <=> FitsAtPlaces(lists, atoms)
<1>1. \A place : place \in Places(lists) <=>
        \E i \in DOMAIN lists : \E p \in DOMAIN lists[i] : place = <<i, p>>
  BY DEF Places
<1>2. \A i, p : AtomAt(lists, <<i, p>>) = lists[i][p] /\ AtomAt(atoms, <<i, p>>) = atoms[i][p]
  BY DEF AtomAt
<1> DEFINE Agree(place, other) ==
             /\ AtomAt(lists, place) >= 0 => AtomAt(atoms, place) = AtomAt(lists, place)
             /\ AtomAt(lists, place) = AtomAt(lists, other) =>
                  AtomAt(atoms, place) = AtomAt(atoms, other)
<1>3. Fits(lists, atoms) <=>
        /\ \A i \in DOMAIN lists : Len(lists[i]) = Len(atoms[i])
        /\ \A place, other \in Places(lists) : Agree(place, other)
  BY DEF Fits
<1>4. (\A place, other \in Places(lists) : Agree(place, other)) <=>
        \A i, j \in DOMAIN lists : \A p \in DOMAIN lists[i], q \in DOMAIN lists[j] :
          Agree(<<i, p>>, <<j, q>>)
  <2> HIDE DEF Agree
  <2> QED  BY <1>1
<1> DEFINE AgreeAt(i, p, j, q) ==
             /\ lists[i][p] >= 0 => atoms[i][p] = lists[i][p]
             /\ lists[i][p] = lists[j][q] => atoms[i][p] = atoms[j][q]
<1>5. ASSUME NEW i, NEW j, NEW p, NEW q
      PROVE  Agree(<<i, p>>, <<j, q>>) <=> AgreeAt(i, p, j, q)
  <2>1. /\ AtomAt(lists, <<i, p>>) = lists[i][p] /\ AtomAt(atoms, <<i, p>>) = atoms[i][p]
        /\ AtomAt(lists, <<j, q>>) = lists[j][q] /\ AtomAt(atoms, <<j, q>>) = atoms[j][q]
    BY <1>2
  <2> QED  BY <2>1, Zenon
<1> HIDE DEF Agree, AgreeAt
<1>6. (\A place, other \in Places(lists) : Agree(place, other)) <=>
        \A i, j \in DOMAIN lists : \A p \in DOMAIN lists[i], q \in DOMAIN lists[j] :
          AgreeAt(i, p, j, q)
  BY <1>4, <1>5
<1> QED  BY <1>3, <1>6 DEF AgreeAt, FitsAtPlaces

\* One input fits one token.
LEMMA FitsOne ==
    ASSUME NEW input, NEW token
    PROVE  Fits(<<input>>, <<token>>) <=> FitsToken(input, token)
<1>1. DOMAIN <<input>> = {1} /\ <<input>>[1] = input /\ <<token>>[1] = token
  OBVIOUS
<1>2. FitsAtPlaces(<<input>>, <<token>>) <=> FitsToken(input, token)
  BY <1>1 DEF FitsAtPlaces, FitsToken
<1> QED  BY <1>2, FitsByPlaces

SubstitutesAtPlaces(result, lists, input, token) ==
    /\ result \in Seq(Seq(Int)) /\ DOMAIN result = DOMAIN lists
    /\ \A i \in DOMAIN lists : /\ DOMAIN result[i] = DOMAIN lists[i]
                               /\ Len(result[i]) = Len(lists[i])
    /\ \A i \in DOMAIN lists : \A p \in DOMAIN lists[i] :
         /\ lists[i][p] >= 0 => result[i][p] = lists[i][p]
         /\ \A r \in DOMAIN input : input[r] = lists[i][p] => result[i][p] = token[r]
         /\ lists[i][p] \notin Range(input) => result[i][p] = lists[i][p]

\* Substituting a token for an input that it fits leaves atoms alone, replaces
\* the patterns of the input and no others.
LEMMA SubstitutedByPlaces ==
    ASSUME NEW lists \in Seq(Seq(Int)), NEW input \in Seq(Int), NEW token \in Seq(Nat),
           Fits(<<input>>, <<token>>)
    PROVE  SubstitutesAtPlaces(Substituted(lists, <<input>>, <<token>>), lists, input, token)
<1> DEFINE known(atom) == {place \in Places(<<input>>) : AtomAt(<<input>>, place) = atom}
           Value(atom) == IF atom >= 0 \/ known(atom) = {} THEN atom
                          ELSE AtomAt(<<token>>, CHOOSE place \in known(atom) : TRUE)
           result == Substituted(lists, <<input>>, <<token>>)
<1>1. result = [i \in DOMAIN lists |-> [p \in DOMAIN lists[i] |-> Value(lists[i][p])]]
  BY DEF Substituted
<1>2. \A place : place \in Places(<<input>>) <=> \E r \in DOMAIN input : place = <<1, r>>
  <2>1. DOMAIN <<input>> = {1} /\ <<input>>[1] = input
    OBVIOUS
  <2> QED  BY <2>1 DEF Places
<1>3. \A r : AtomAt(<<input>>, <<1, r>>) = input[r] /\ AtomAt(<<token>>, <<1, r>>) = token[r]
  BY DEF AtomAt
<1>4. /\ Len(input) = Len(token)
      /\ \A p, q \in DOMAIN input :
           /\ input[p] >= 0 => token[p] = input[p]
           /\ input[p] = input[q] => token[p] = token[q]
  BY FitsOne DEF FitsToken
<1>5. \A r \in DOMAIN input : token[r] \in Nat
  BY <1>4
<1>6. ASSUME NEW atom \in Int
      PROVE  /\ Value(atom) \in Int
             /\ atom >= 0 => Value(atom) = atom
             /\ \A r \in DOMAIN input : input[r] = atom => Value(atom) = token[r]
             /\ atom \notin Range(input) => Value(atom) = atom
  <2>1. \A place : place \in known(atom) <=>
          \E r \in DOMAIN input : place = <<1, r>> /\ input[r] = atom
    <3>1. ASSUME NEW place \in known(atom)
          PROVE  \E r \in DOMAIN input : place = <<1, r>> /\ input[r] = atom
      <4>1. place \in Places(<<input>>) /\ AtomAt(<<input>>, place) = atom
        BY <3>1
      <4>2. PICK r \in DOMAIN input : place = <<1, r>>
        BY <1>2, <4>1
      <4>3. input[r] = atom
        BY <1>3, <4>1, <4>2
      <4> QED  BY <4>2, <4>3
    <3>2. ASSUME NEW r \in DOMAIN input, input[r] = atom
          PROVE  <<1, r>> \in known(atom)
      BY <1>2, <1>3, <3>2
    <3> HIDE DEF known
    <3> QED  BY <3>1, <3>2
  <2>2. CASE atom >= 0
    BY <1>4, <2>2
  <2>3. CASE atom < 0 /\ known(atom) = {}
    <3>1. \A r \in DOMAIN input : input[r] # atom
      BY <2>1, <2>3
    <3> QED  BY <2>3, <3>1
  <2>4. CASE atom < 0 /\ known(atom) # {}
    <3>1. (CHOOSE place \in known(atom) : TRUE) \in known(atom)
      BY <2>4
    <3>2. PICK r \in DOMAIN input :
            (CHOOSE place \in known(atom) : TRUE) = <<1, r>> /\ input[r] = atom
      BY <2>1, <3>1
    <3>3. Value(atom) = AtomAt(<<token>>, CHOOSE place \in known(atom) : TRUE)
      <4> HIDE DEF known
      <4>1. ~(atom >= 0 \/ known(atom) = {})
        BY <2>4
      <4> QED  BY <4>1, Zenon
    <3>4. Value(atom) = token[r]
      BY <1>3, <3>2, <3>3
    <3>5. atom \in Range(input)
      BY <3>2 DEF Range
    <3> HIDE DEF Value
    <3> QED  BY <1>4, <1>5, <2>4, <3>2, <3>4, <3>5
  <2> HIDE DEF Value, known
  <2>5. atom >= 0 \/ atom < 0
    OBVIOUS
  <2> QED  BY <2>2, <2>3, <2>4, <2>5, Zenon
<1> HIDE DEF Value, known
<1>7. \A i \in DOMAIN lists : lists[i] \in Seq(Int)
  OBVIOUS
<1>8. \A i \in DOMAIN lists : \A p \in DOMAIN lists[i] : lists[i][p] \in Int
  BY <1>7
<1>9. \A i \in DOMAIN lists : /\ result[i] = [p \in DOMAIN lists[i] |-> Value(lists[i][p])]
                              /\ DOMAIN lists[i] = 1..Len(lists[i])
                              /\ Len(lists[i]) \in Nat
  BY <1>1, <1>7
<1>10. \A i \in DOMAIN lists : /\ result[i] \in Seq(Int) /\ DOMAIN result[i] = DOMAIN lists[i]
                               /\ Len(result[i]) = Len(lists[i])
  <2> SUFFICES ASSUME NEW i \in DOMAIN lists
               PROVE  /\ result[i] \in Seq(Int) /\ DOMAIN result[i] = DOMAIN lists[i]
                      /\ Len(result[i]) = Len(lists[i])
    OBVIOUS
  <2>1. result[i] \in [1..Len(lists[i]) -> Int]
    BY <1>6, <1>8, <1>9
  <2> HIDE DEF result
  <2>2. Len(lists[i]) \in Nat
    BY <1>9
  <2> QED  BY <1>9, <2>1, <2>2, IsSequence
<1>11. result \in Seq(Seq(Int)) /\ DOMAIN result = DOMAIN lists
  <2>1. DOMAIN lists = 1..Len(lists) /\ Len(lists) \in Nat
    OBVIOUS
  <2>2. DOMAIN result = 1..Len(lists) /\ \A i \in 1..Len(lists) : result[i] \in Seq(Int)
    BY <1>1, <1>10, <2>1
  <2>3. result \in [1..Len(lists) -> Seq(Int)]
    BY <1>1, <2>1, <2>2
  <2> HIDE DEF result
  <2> QED  BY <2>1, <2>3, IsSequence
<1>12. \A i \in DOMAIN lists : \A p \in DOMAIN lists[i] : result[i][p] = Value(lists[i][p])
  BY <1>9
<1> HIDE DEF result
<1>13. SubstitutesAtPlaces(result, lists, input, token)
  <2>1. ASSUME NEW i \in DOMAIN lists, NEW p \in DOMAIN lists[i]
        PROVE  /\ lists[i][p] >= 0 => result[i][p] = lists[i][p]
               /\ \A r \in DOMAIN input :
                    input[r] = lists[i][p] => result[i][p] = token[r]
               /\ lists[i][p] \notin Range(input) => result[i][p] = lists[i][p]
    <3>1. lists[i][p] \in Int /\ result[i][p] = Value(lists[i][p])
      BY <1>8, <1>12
    <3> QED  BY <1>6, <3>1
  <2> QED  BY <1>10, <1>11, <2>1 DEF SubstitutesAtPlaces
<1> QED  BY <1>13 DEF result

\* Substituting a token for an input that it fits changes nothing about which
\* tokens fit the inputs, provided that this token is the one at the input.
LEMMA SubstitutionKeepsFits ==
    ASSUME NEW lists \in Seq(Seq(Int)), NEW n \in DOMAIN lists, NEW token \in Seq(Nat),
           Fits(<<lists[n]>>, <<token>>), NEW atoms, atoms[n] = token
    PROVE  Fits(lists, atoms) <=> Fits(Substituted(lists, <<lists[n]>>, <<token>>), atoms)
<1> DEFINE result == Substituted(lists, <<lists[n]>>, <<token>>)
           input == lists[n]
<1>1. input \in Seq(Int)
  OBVIOUS
<1>2. SubstitutesAtPlaces(result, lists, input, token)
  BY <1>1, SubstitutedByPlaces
<1>3. \A i \in DOMAIN lists : \A p \in DOMAIN lists[i] :
        lists[i][p] \in Range(input) => \E r \in DOMAIN input : input[r] = lists[i][p]
  BY DEF Range
<1>4. \A i \in DOMAIN lists : \A p \in DOMAIN lists[i] : lists[i][p] \in Int
  <2>1. \A i \in DOMAIN lists : lists[i] \in Seq(Int)
    OBVIOUS
  <2> QED  BY <2>1
<1>5. \A r \in DOMAIN input : token[r] \in Nat
  BY <1>1, FitsOne DEF FitsToken
<1> HIDE DEF result, input
<1>6. /\ DOMAIN result = DOMAIN lists
      /\ \A i \in DOMAIN lists : /\ DOMAIN result[i] = DOMAIN lists[i]
                                 /\ Len(result[i]) = Len(lists[i])
  BY <1>2 DEF SubstitutesAtPlaces
<1>7. \A i \in DOMAIN lists : \A p \in DOMAIN lists[i] :
        /\ lists[i][p] >= 0 => result[i][p] = lists[i][p]
        /\ \A r \in DOMAIN input : input[r] = lists[i][p] => result[i][p] = token[r]
        /\ lists[i][p] \notin Range(input) => result[i][p] = lists[i][p]
  BY <1>2 DEF SubstitutesAtPlaces
<1>8. ASSUME FitsAtPlaces(lists, atoms)
      PROVE  FitsAtPlaces(result, atoms)
  <2>1. \A i \in DOMAIN lists : Len(lists[i]) = Len(atoms[i])
    BY <1>8 DEF FitsAtPlaces
  <2>2. ASSUME NEW i \in DOMAIN lists, NEW p \in DOMAIN lists[i]
        PROVE  \/ result[i][p] = atoms[i][p] /\ lists[i][p] \in Range(input)
               \/ result[i][p] = lists[i][p] /\ lists[i][p] \notin Range(input)
    <3>1. CASE lists[i][p] \in Range(input)
      <4>1. PICK r \in DOMAIN input : input[r] = lists[i][p]
        BY <1>3, <3>1
      <4>2. atoms[i][p] = atoms[n][r]
        BY <1>8, <4>1 DEF FitsAtPlaces, input
      <4> QED  BY <1>7, <3>1, <4>1, <4>2
    <3>2. CASE lists[i][p] \notin Range(input)
      BY <1>7, <3>2
    <3> QED  BY <3>1, <3>2
  <2>3. ASSUME NEW i \in DOMAIN lists, NEW j \in DOMAIN lists,
               NEW p \in DOMAIN lists[i], NEW q \in DOMAIN lists[j]
        PROVE  /\ result[i][p] >= 0 => atoms[i][p] = result[i][p]
               /\ result[i][p] = result[j][q] => atoms[i][p] = atoms[j][q]
    <3>1. /\ lists[i][p] >= 0 => atoms[i][p] = lists[i][p]
          /\ lists[j][q] >= 0 => atoms[j][q] = lists[j][q]
          /\ lists[i][p] = lists[j][q] => atoms[i][p] = atoms[j][q]
      BY <1>8 DEF FitsAtPlaces
    <3>2. ASSUME NEW k \in DOMAIN lists, NEW m \in DOMAIN lists[k],
                 lists[k][m] \in Range(input)
          PROVE  result[k][m] >= 0
      <4>1. PICK r \in DOMAIN input : input[r] = lists[k][m]
        BY <1>3, <3>2
      <4>2. result[k][m] = token[r] /\ token[r] \in Nat
        BY <1>5, <1>7, <4>1
      <4>3. result[k][m] \in Nat
        BY <4>2
      <4>4. \A x \in Nat : x >= 0
        OBVIOUS
      <4> QED  BY <4>3, <4>4, Zenon
    <3>3. lists[i][p] \in Int /\ lists[j][q] \in Int
      BY <1>4
    <3> QED  BY <2>2, <3>1, <3>2, <3>3
  <2>4. \A i \in DOMAIN result : Len(result[i]) = Len(atoms[i])
    BY <1>6, <2>1
  <2>5. \A i, j \in DOMAIN result : \A p \in DOMAIN result[i], q \in DOMAIN result[j] :
          /\ result[i][p] >= 0 => atoms[i][p] = result[i][p]
          /\ result[i][p] = result[j][q] => atoms[i][p] = atoms[j][q]
    <3> SUFFICES ASSUME NEW i \in DOMAIN result, NEW j \in DOMAIN result,
                        NEW p \in DOMAIN result[i], NEW q \in DOMAIN result[j]
                 PROVE  /\ result[i][p] >= 0 => atoms[i][p] = result[i][p]
                        /\ result[i][p] = result[j][q] => atoms[i][p] = atoms[j][q]
      BY Zenon
    <3>1. /\ i \in DOMAIN lists /\ j \in DOMAIN lists
          /\ p \in DOMAIN lists[i] /\ q \in DOMAIN lists[j]
      BY <1>6
    <3> QED  BY <2>3, <3>1, Zenon
  <2> QED  BY <2>4, <2>5, Zenon DEF FitsAtPlaces
<1>9. ASSUME FitsAtPlaces(result, atoms)
      PROVE  FitsAtPlaces(lists, atoms)
  <2>1. \A i \in DOMAIN lists : Len(lists[i]) = Len(atoms[i])
    BY <1>6, <1>9 DEF FitsAtPlaces
  <2>2. ASSUME NEW i \in DOMAIN lists, NEW j \in DOMAIN lists,
               NEW p \in DOMAIN lists[i], NEW q \in DOMAIN lists[j]
        PROVE  /\ lists[i][p] >= 0 => atoms[i][p] = lists[i][p]
               /\ lists[i][p] = lists[j][q] => atoms[i][p] = atoms[j][q]
    <3>1. /\ result[i][p] >= 0 => atoms[i][p] = result[i][p]
          /\ result[i][p] = result[j][q] => atoms[i][p] = atoms[j][q]
      <4>1. /\ i \in DOMAIN result /\ j \in DOMAIN result
            /\ p \in DOMAIN result[i] /\ q \in DOMAIN result[j]
        BY <1>6
      <4> QED  BY <1>9, <4>1, Zenon DEF FitsAtPlaces
    <3>2. lists[i][p] >= 0 => result[i][p] = lists[i][p]
      BY <1>7
    <3>3. lists[i][p] = lists[j][q] => result[i][p] = result[j][q]
      <4>1. CASE lists[i][p] \in Range(input)
        BY <1>3, <1>7, <4>1
      <4>2. CASE lists[i][p] \notin Range(input)
        BY <1>7, <4>2
      <4> QED  BY <4>1, <4>2
    <3> QED  BY <3>1, <3>2, <3>3
  <2> QED  BY <2>1, <2>2 DEF FitsAtPlaces
<1>10. Fits(lists, atoms) <=> Fits(result, atoms)
  BY <1>8, <1>9, FitsByPlaces
<1> QED  BY <1>10 DEF result, input

-----------------------------------------------------------------------------
(* The stack of frames.                                                    *)

\* The innermost frame is replaced.
LEMMA TopReplaced ==
    ASSUME NEW S, NEW s \in Seq(S), s # <<>>, NEW x \in S
    PROVE  /\ <<x>> \o Tail(s) \in Seq(S)
           /\ Len(<<x>> \o Tail(s)) = Len(s)
           /\ (<<x>> \o Tail(s))[1] = x
           /\ \A k \in 2..Len(s) : (<<x>> \o Tail(s))[k] = s[k]
OBVIOUS

\* The innermost frame is replaced and another put on it.
LEMMA TopPushed ==
    ASSUME NEW S, NEW s \in Seq(S), s # <<>>, NEW x \in S, NEW y \in S
    PROVE  /\ <<y, x>> \o Tail(s) \in Seq(S)
           /\ Len(<<y, x>> \o Tail(s)) = Len(s) + 1
           /\ (<<y, x>> \o Tail(s))[1] = y /\ (<<y, x>> \o Tail(s))[2] = x
           /\ \A k \in 3..(Len(s) + 1) : (<<y, x>> \o Tail(s))[k] = s[k - 1]
OBVIOUS

\* The innermost frame is taken away.
LEMMA TopRemoved ==
    ASSUME NEW S, NEW s \in Seq(S), s # <<>>
    PROVE  /\ Tail(s) \in Seq(S) /\ Len(Tail(s)) = Len(s) - 1
           /\ \A k \in 1..(Len(s) - 1) : Tail(s)[k] = s[k + 1]
OBVIOUS

-----------------------------------------------------------------------------
(* What a running search has established.                                  *)

InputIDs == DOMAIN problem.inputs

ProblemSound ==
    /\ problem \in SearchProblem
    /\ problem.newTokens \subseteq TokenIDs
    /\ \A id \in TokenIDs : {id} \notin problem.apart

TokensAt(tuple) == [i \in InputIDs |-> problem.tokens[tuple[i]]]

Tuples == [InputIDs -> TokenIDs]

\* The tuple has the tokens of the partial match.
Completes(tuple, partial) ==
    \A i \in InputIDs : partial[i] # Unmatched => tuple[i] = partial[i]

\* The inputs of a frame are those of the rule with the patterns of the matched
\* ones replaced: a tuple that completes the partial match fits both or none,
\* and places with the same atom still have the same atom.
InputsFollow(partial, inputs) ==
    /\ inputs \in Seq(Seq(Int)) /\ DOMAIN inputs = InputIDs
    /\ \A i \in InputIDs : DOMAIN inputs[i] = DOMAIN problem.inputs[i]
    /\ \A i \in InputIDs : partial[i] # Unmatched => inputs[i] = problem.tokens[partial[i]]
    /\ \A i, j \in InputIDs :
         \A p \in DOMAIN problem.inputs[i], q \in DOMAIN problem.inputs[j] :
           problem.inputs[i][p] = problem.inputs[j][q] => inputs[i][p] = inputs[j][q]
    /\ \A i \in InputIDs : \A p \in DOMAIN problem.inputs[i] :
         problem.inputs[i][p] >= 0 => inputs[i][p] >= 0
    /\ \A tuple \in Tuples : Completes(tuple, partial) =>
         (Fits(problem.inputs, TokensAt(tuple)) <=> Fits(inputs, TokensAt(tuple)))

\* The tokens matched so far are different and none are apart.
TokensTogether(partial) ==
    /\ partial \in [InputIDs -> TokenIDs \cup {Unmatched}]
    /\ \A i, j \in InputIDs : partial[i] # Unmatched /\ partial[j] # Unmatched =>
         /\ partial[i] = partial[j] => i = j
         /\ {partial[i], partial[j]} \notin problem.apart

\* The outermost frame tries new tokens for the input the search starts at; the
\* others have a new token there.
StartsNew(frame) ==
    \/ /\ frame.next = start /\ frame.candidates \subseteq problem.newTokens
       /\ \A i \in InputIDs : frame.inputTokens[i] = Unmatched
    \/ frame.inputTokens[start] \in problem.newTokens

FrameType ==
    [inputTokens : [InputIDs -> TokenIDs \cup {Unmatched}], inputs : Seq(Seq(Int)),
     next : InputIDs, candidates : SUBSET TokenIDs]

FrameSound(frame) ==
    /\ frame.inputTokens[frame.next] = Unmatched
    /\ InputsFollow(frame.inputTokens, frame.inputs)
    /\ TokensTogether(frame.inputTokens)
    /\ StartsNew(frame)

\* A frame inside another continues with a token that the other has tried.
Inside(frame, outer) ==
    /\ \A i \in InputIDs : outer.inputTokens[i] # Unmatched =>
         frame.inputTokens[i] = outer.inputTokens[i]
    /\ frame.inputTokens[outer.next] \in TokenIDs \ outer.candidates

\* Facts about tokens, as the provers like them.
LEMMA TokenFacts ==
    ASSUME ProblemSound
    PROVE  /\ problem.inputs \in Seq(Seq(Int)) /\ InputIDs = 1..Len(problem.inputs)
           /\ Len(problem.inputs) \in Nat
           /\ \A i \in InputIDs : problem.inputs[i] \in Seq(Int)
           /\ \A id \in TokenIDs : problem.tokens[id] \in Seq(Nat)
           /\ Unmatched \notin TokenIDs
           /\ TokenIDs \subseteq Nat /\ IsFiniteSet(TokenIDs)
<1>1. problem.inputs \in Seq(Seq(Int)) /\ problem.tokens \in Seq(Seq(Nat))
  BY DEF ProblemSound, SearchProblem
<1>2. TokenIDs = 1..Len(problem.tokens) /\ Len(problem.tokens) \in Nat
  BY <1>1 DEF TokenIDs
<1>3. IsFiniteSet(TokenIDs)
  BY <1>2, FS_Interval
<1>4. \A id \in TokenIDs : problem.tokens[id] \in Seq(Nat)
  BY <1>1, <1>2
<1>5. InputIDs = 1..Len(problem.inputs) /\ Len(problem.inputs) \in Nat
  BY <1>1 DEF InputIDs
<1>6. \A i \in InputIDs : problem.inputs[i] \in Seq(Int)
  BY <1>1, <1>5
<1> QED  BY <1>1, <1>2, <1>3, <1>4, <1>5, <1>6 DEF Unmatched

ExtendedBy(frame, token) == [frame.inputTokens EXCEPT ![frame.next] = token]

InputsAfter(frame, token) ==
    Substituted(frame.inputs, <<frame.inputs[frame.next]>>, <<problem.tokens[token]>>)

\* A token that can match continues the partial match.
LEMMA TokenContinues ==
    ASSUME ProblemSound, start \in InputIDs, NEW frame \in FrameType, FrameSound(frame),
           NEW token \in frame.candidates, CanMatch(frame, token)
    PROVE  /\ InputsFollow(ExtendedBy(frame, token), InputsAfter(frame, token))
           /\ TokensTogether(ExtendedBy(frame, token))
           /\ ExtendedBy(frame, token)[start] \in problem.newTokens
           /\ ExtendedBy(frame, token)[frame.next] = token
           /\ \A i \in InputIDs : i # frame.next =>
                ExtendedBy(frame, token)[i] = frame.inputTokens[i]
<1> DEFINE partial == frame.inputTokens
           next == frame.next
           inputs == frame.inputs
           atoms == problem.tokens[token]
           extended == ExtendedBy(frame, token)
           after == InputsAfter(frame, token)
<1>1. /\ partial \in [InputIDs -> TokenIDs \cup {Unmatched}] /\ next \in InputIDs
      /\ inputs \in Seq(Seq(Int)) /\ DOMAIN inputs = InputIDs
      /\ token \in TokenIDs /\ atoms \in Seq(Nat)
      /\ partial[next] = Unmatched
      /\ Unmatched \notin TokenIDs
  BY TokenFacts DEF FrameType, FrameSound, InputsFollow
<1>2. /\ extended \in [InputIDs -> TokenIDs \cup {Unmatched}] /\ extended[next] = token
      /\ \A i \in InputIDs : i # next => extended[i] = partial[i]
  BY <1>1 DEF ExtendedBy
<1>3. /\ token \notin Range(partial) /\ Fits(<<inputs[next]>>, <<atoms>>)
      /\ IsSpacelikeSeparated(token, partial)
  BY DEF CanMatch
<1>4. \A i \in InputIDs : partial[i] # token /\
        (partial[i] # Unmatched => {partial[i], token} \notin problem.apart)
  <2>1. \A i \in InputIDs : partial[i] \in Range(partial)
    BY <1>1 DEF Range
  <2> QED  BY <1>3, <2>1 DEF IsSpacelikeSeparated
<1>5. inputs[next] \in Seq(Int)
  BY <1>1
<1>6. SubstitutesAtPlaces(after, inputs, inputs[next], atoms)
  BY <1>1, <1>3, <1>5, SubstitutedByPlaces DEF InputsAfter
<1>7. FitsToken(inputs[next], atoms)
  BY <1>3, FitsOne
<1> HIDE DEF extended, after
<1>8. InputsFollow(extended, after)
  <2>1. /\ after \in Seq(Seq(Int)) /\ DOMAIN after = InputIDs
        /\ \A i \in InputIDs : /\ DOMAIN after[i] = DOMAIN inputs[i]
                               /\ Len(after[i]) = Len(inputs[i])
    BY <1>1, <1>6 DEF SubstitutesAtPlaces
  <2>2. \A i \in InputIDs : \A p \in DOMAIN inputs[i] :
          /\ inputs[i][p] >= 0 => after[i][p] = inputs[i][p]
          /\ \A r \in DOMAIN inputs[next] :
               inputs[next][r] = inputs[i][p] => after[i][p] = atoms[r]
          /\ inputs[i][p] \notin Range(inputs[next]) => after[i][p] = inputs[i][p]
    BY <1>1, <1>6 DEF SubstitutesAtPlaces
  <2>3. /\ \A i \in InputIDs : DOMAIN inputs[i] = DOMAIN problem.inputs[i]
        /\ \A i \in InputIDs : partial[i] # Unmatched => inputs[i] = problem.tokens[partial[i]]
        /\ \A i, j \in InputIDs :
             \A p \in DOMAIN problem.inputs[i], q \in DOMAIN problem.inputs[j] :
               problem.inputs[i][p] = problem.inputs[j][q] => inputs[i][p] = inputs[j][q]
        /\ \A i \in InputIDs : \A p \in DOMAIN problem.inputs[i] :
             problem.inputs[i][p] >= 0 => inputs[i][p] >= 0
        /\ \A tuple \in Tuples : Completes(tuple, partial) =>
             (Fits(problem.inputs, TokensAt(tuple)) <=> Fits(inputs, TokensAt(tuple)))
    BY DEF FrameSound, InputsFollow
  <2>4. \A i \in InputIDs : DOMAIN after[i] = DOMAIN problem.inputs[i]
    BY <2>1, <2>3
  <2>5. ASSUME NEW i \in InputIDs, extended[i] # Unmatched
        PROVE  after[i] = problem.tokens[extended[i]]
    <3> DEFINE tokenAtoms == problem.tokens[extended[i]]
    <3>1. extended[i] \in TokenIDs
      BY <1>2, <2>5
    <3>2. tokenAtoms \in Seq(Nat)
      BY <3>1, TokenFacts
    <3>3. after[i] \in Seq(Int)
      BY <2>1
    <3>4. CASE i = next
      <4>1. extended[i] = token /\ tokenAtoms = atoms
        BY <1>2, <3>4
      <4>2. Len(after[i]) = Len(atoms) /\ DOMAIN after[i] = DOMAIN inputs[next]
        BY <1>7, <2>1, <3>4 DEF FitsToken
      <4>3. \A p \in DOMAIN inputs[next] : after[i][p] = atoms[p]
        BY <2>2, <3>4
      <4>4. DOMAIN after[i] = DOMAIN inputs[next] /\ atoms \in Seq(Nat)
        BY <1>1, <2>1, <3>4
      <4> HIDE DEF atoms, tokenAtoms
      <4>5. \A p \in DOMAIN after[i] : after[i][p] = atoms[p]
        BY <4>3, <4>4
      <4>6. after[i] = atoms
        BY <3>3, <4>2, <4>4, <4>5, SameAtoms
      <4> QED  BY <4>1, <4>6 DEF tokenAtoms
    <3>5. CASE i # next
      <4>1. extended[i] = partial[i] /\ inputs[i] = tokenAtoms
        BY <1>2, <2>3, <2>5, <3>5
      <4>2. \A p \in DOMAIN inputs[i] : inputs[i][p] \in Nat
        BY <3>2, <4>1
      <4>3. \A p \in DOMAIN inputs[i] : after[i][p] = inputs[i][p]
        BY <2>2, <4>2
      <4>4. Len(after[i]) = Len(inputs[i])
        BY <2>1
      <4> HIDE DEF tokenAtoms
      <4> QED  BY <3>2, <3>3, <4>1, <4>3, <4>4 DEF tokenAtoms
    <3> QED  BY <3>4, <3>5
  <2>6. ASSUME NEW i \in InputIDs, NEW j \in InputIDs,
               NEW p \in DOMAIN problem.inputs[i], NEW q \in DOMAIN problem.inputs[j],
               problem.inputs[i][p] = problem.inputs[j][q]
        PROVE  after[i][p] = after[j][q]
    <3>1. inputs[i][p] = inputs[j][q] /\ p \in DOMAIN inputs[i] /\ q \in DOMAIN inputs[j]
      BY <2>3, <2>6
    <3>2. CASE inputs[i][p] \in Range(inputs[next])
      <4>1. PICK r \in DOMAIN inputs[next] : inputs[next][r] = inputs[i][p]
        BY <3>2 DEF Range
      <4> QED  BY <2>2, <3>1, <4>1
    <3>3. CASE inputs[i][p] \notin Range(inputs[next])
      BY <2>2, <3>1, <3>3
    <3> QED  BY <3>2, <3>3
  <2>7. ASSUME NEW i \in InputIDs, NEW p \in DOMAIN problem.inputs[i],
               problem.inputs[i][p] >= 0
        PROVE  after[i][p] >= 0
    <3>1. inputs[i][p] >= 0 /\ p \in DOMAIN inputs[i]
      BY <2>3, <2>7
    <3>2. after[i][p] = inputs[i][p]
      BY <2>2, <3>1
    <3> QED  BY <3>1, <3>2
  <2>8. ASSUME NEW tuple \in Tuples, Completes(tuple, extended)
        PROVE  Fits(problem.inputs, TokensAt(tuple)) <=> Fits(after, TokensAt(tuple))
    <3>1. tuple[next] = token /\ TokensAt(tuple)[next] = atoms
      BY <1>1, <1>2, <2>8 DEF Completes, TokensAt
    <3>2. Completes(tuple, partial)
      BY <1>1, <1>2, <2>8 DEF Completes
    <3>3. Fits(inputs, TokensAt(tuple)) <=> Fits(after, TokensAt(tuple))
      BY <1>1, <1>3, <3>1, SubstitutionKeepsFits DEF after, InputsAfter
    <3> QED  BY <2>3, <3>2, <3>3
  <2> QED  BY <2>1, <2>4, <2>5, <2>6, <2>7, <2>8 DEF InputsFollow
<1>9. TokensTogether(extended)
  <2>1. \A i, j \in InputIDs : partial[i] # Unmatched /\ partial[j] # Unmatched =>
          /\ partial[i] = partial[j] => i = j
          /\ {partial[i], partial[j]} \notin problem.apart
    BY DEF FrameSound, TokensTogether
  <2>2. {token} \notin problem.apart
    BY <1>1 DEF ProblemSound
  <2>3. ASSUME NEW i \in InputIDs, NEW j \in InputIDs,
               extended[i] # Unmatched, extended[j] # Unmatched
        PROVE  /\ extended[i] = extended[j] => i = j
               /\ {extended[i], extended[j]} \notin problem.apart
    <3>1. CASE i = next /\ j = next
      <4>1. {extended[i], extended[j]} = {token}
        BY <1>2, <3>1
      <4> QED  BY <2>2, <3>1, <4>1
    <3>2. CASE i = next /\ j # next
      <4>1. {extended[i], extended[j]} = {partial[j], token}
        BY <1>2, <3>2
      <4> QED  BY <1>2, <1>4, <2>3, <3>2, <4>1
    <3>3. CASE i # next /\ j = next
      BY <1>2, <1>4, <2>3, <3>3
    <3>4. CASE i # next /\ j # next
      BY <1>2, <2>1, <2>3, <3>4
    <3> QED  BY <3>1, <3>2, <3>3, <3>4
  <2> QED  BY <1>2, <2>3 DEF TokensTogether
<1>10. extended[start] \in problem.newTokens
  <2>1. CASE /\ next = start /\ frame.candidates \subseteq problem.newTokens
             /\ \A i \in InputIDs : partial[i] = Unmatched
    BY <1>2, <2>1
  <2>2. CASE partial[start] \in problem.newTokens
    <3>1. partial[start] # Unmatched
      BY <1>1, <2>2 DEF ProblemSound
    <3> QED  BY <1>1, <1>2, <2>2, <3>1
  <2> QED  BY <2>1, <2>2 DEF FrameSound, StartsNew
<1> QED  BY <1>2, <1>8, <1>9, <1>10 DEF extended, after

-----------------------------------------------------------------------------
(* What there is to find.                                                  *)

\* The parts of being a match.
LEMMA MatchParts ==
    ASSUME NEW tuple
    PROVE  tuple \in AllMatches <=>
             /\ tuple \in Tuples
             /\ \A i, j \in InputIDs : tuple[i] = tuple[j] => i = j
             /\ \E i \in InputIDs : tuple[i] \in problem.newTokens
             /\ Fits(problem.inputs, TokensAt(tuple))
             /\ \A i, j \in InputIDs : {tuple[i], tuple[j]} \notin problem.apart
<1>1. CASE tuple \notin Tuples
  BY <1>1 DEF AllMatches, Tuples, InputIDs
<1>2. CASE tuple \in Tuples
  <2>1. DOMAIN tuple = InputIDs
    BY <1>2 DEF Tuples
  <2>2. [i \in DOMAIN tuple |-> problem.tokens[tuple[i]]] = TokensAt(tuple)
    BY <2>1 DEF TokensAt
  <2>3. IsInjective(tuple) <=> \A i, j \in InputIDs : tuple[i] = tuple[j] => i = j
    BY <2>1 DEF IsInjective
  <2>4. Range(tuple) \cap problem.newTokens # {} <=>
          \E i \in InputIDs : tuple[i] \in problem.newTokens
    BY <2>1 DEF Range
  <2>5. tuple \in AllMatches <=>
          /\ IsInjective(tuple)
          /\ Range(tuple) \cap problem.newTokens # {}
          /\ Fits(problem.inputs, TokensAt(tuple))
          /\ \A i, j \in InputIDs : {tuple[i], tuple[j]} \notin problem.apart
    BY <1>2, <2>1, <2>2 DEF AllMatches, Tuples, InputIDs
  <2> QED  BY <1>2, <2>3, <2>4, <2>5
<1> QED  BY <1>1, <1>2

\* Matches with the input at which the search for them starts.
Pairs ==
    {pair \in [start : InputIDs, inputTokens : Tuples] :
        /\ pair.inputTokens \in AllMatches
        /\ pair.inputTokens[pair.start] \in problem.newTokens}

\* The token a match has at the next input passes the tests.
LEMMA MatchPasses ==
    ASSUME ProblemSound, NEW frame \in FrameType, FrameSound(frame),
           NEW tuple \in AllMatches, Completes(tuple, frame.inputTokens)
    PROVE  CanMatch(frame, tuple[frame.next])
<1> DEFINE partial == frame.inputTokens
           next == frame.next
           inputs == frame.inputs
           token == tuple[next]
           atoms == problem.tokens[token]
<1>1. /\ partial \in [InputIDs -> TokenIDs \cup {Unmatched}] /\ next \in InputIDs
      /\ inputs \in Seq(Seq(Int)) /\ DOMAIN inputs = InputIDs
      /\ partial[next] = Unmatched
      /\ Unmatched \notin TokenIDs
  BY TokenFacts DEF FrameType, FrameSound, InputsFollow
<1>2. /\ tuple \in Tuples
      /\ \A i, j \in InputIDs : tuple[i] = tuple[j] => i = j
      /\ Fits(problem.inputs, TokensAt(tuple))
      /\ \A i, j \in InputIDs : {tuple[i], tuple[j]} \notin problem.apart
  BY MatchParts
<1>3. token \in TokenIDs
  BY <1>1, <1>2 DEF Tuples
<1>4. token \notin Range(partial)
  <2>1. \A i \in InputIDs : partial[i] # token
    BY <1>1, <1>2, <1>3 DEF Completes
  <2> QED  BY <1>1, <2>1 DEF Range
<1>5. Fits(<<inputs[next]>>, <<atoms>>)
  <2>1. Fits(inputs, TokensAt(tuple))
    BY <1>2 DEF FrameSound, InputsFollow
  <2>2. FitsAtPlaces(inputs, TokensAt(tuple))
    BY <2>1, FitsByPlaces
  <2>3. TokensAt(tuple)[next] = atoms
    BY <1>1 DEF TokensAt
  <2> HIDE DEF inputs, next, atoms
  <2>4. /\ Len(inputs[next]) = Len(atoms)
        /\ \A p, q \in DOMAIN inputs[next] :
             /\ inputs[next][p] >= 0 => atoms[p] = inputs[next][p]
             /\ inputs[next][p] = inputs[next][q] => atoms[p] = atoms[q]
    BY <1>1, <2>2, <2>3 DEF FitsAtPlaces
  <2>5. FitsToken(inputs[next], atoms)
    BY <2>4, Zenon DEF FitsToken
  <2> QED  BY <2>5, FitsOne DEF inputs, next, atoms
<1>6. IsSpacelikeSeparated(token, partial)
  <2>1. ASSUME NEW id \in Range(partial) \ {token, Unmatched}
        PROVE  {id, token} \notin problem.apart
    <3>1. PICK i \in InputIDs : partial[i] = id
      BY <1>1, <2>1 DEF Range
    <3>2. tuple[i] = id
      BY <2>1, <3>1 DEF Completes
    <3> QED  BY <1>1, <1>2, <3>2
  <2> QED  BY <2>1 DEF IsSpacelikeSeparated
<1> QED  BY <1>4, <1>5, <1>6 DEF CanMatch

\* A partial match with no input left is a match, and the only one to complete it.
LEMMA CompleteIsMatch ==
    ASSUME ProblemSound, start \in InputIDs, NEW frame \in FrameType, FrameSound(frame),
           NEW token \in frame.candidates, CanMatch(frame, token),
           IsMatchComplete(ExtendedBy(frame, token))
    PROVE  /\ ExtendedBy(frame, token) \in AllMatches
           /\ [start |-> start, inputTokens |-> ExtendedBy(frame, token)] \in Pairs
           /\ \A tuple \in Tuples : Completes(tuple, ExtendedBy(frame, token)) =>
                tuple = ExtendedBy(frame, token)
<1> DEFINE tuple == ExtendedBy(frame, token)
           after == InputsAfter(frame, token)
<1>1. /\ InputsFollow(tuple, after) /\ TokensTogether(tuple)
      /\ tuple[start] \in problem.newTokens
  BY TokenContinues
<1> HIDE DEF tuple, after
<1>2. tuple \in [InputIDs -> TokenIDs \cup {Unmatched}]
  BY <1>1 DEF TokensTogether
<1>3. \A i \in InputIDs : tuple[i] # Unmatched
  BY <1>2 DEF tuple, IsMatchComplete, Range
<1>4. tuple \in Tuples
  BY <1>2, <1>3 DEF Tuples
<1>5. after = TokensAt(tuple)
  <2>1. DOMAIN after = InputIDs /\ after \in Seq(Seq(Int))
    BY <1>1 DEF InputsFollow
  <2>2. \A i \in InputIDs : after[i] = problem.tokens[tuple[i]]
    BY <1>1, <1>3 DEF InputsFollow
  <2> QED  BY <2>1, <2>2 DEF TokensAt
<1>6. Fits(after, TokensAt(tuple))
  <2>1. FitsAtPlaces(after, after)
    BY DEF FitsAtPlaces
  <2> QED  BY <1>5, <2>1, FitsByPlaces
<1>7. Fits(problem.inputs, TokensAt(tuple))
  BY <1>1, <1>4, <1>6 DEF InputsFollow, Completes
<1>8. tuple \in AllMatches
  BY <1>1, <1>3, <1>4, <1>7, MatchParts DEF TokensTogether
<1>9. [start |-> start, inputTokens |-> tuple] \in Pairs
  BY <1>1, <1>4, <1>8 DEF Pairs
<1>10. \A other \in Tuples : Completes(other, tuple) => other = tuple
  BY <1>3, <1>4 DEF Completes, Tuples
<1> QED  BY <1>8, <1>9, <1>10 DEF tuple

\* A match through the token tried is among those the next call goes through.
LEMMA MatchStaysInReach ==
    ASSUME ProblemSound, start \in InputIDs, NEW frame \in FrameType, FrameSound(frame),
           NEW token \in frame.candidates, CanMatch(frame, token),
           NEW tuple \in AllMatches, Completes(tuple, frame.inputTokens),
           tuple[frame.next] = token, NEW next \in InputIDs
    PROVE  /\ Completes(tuple, ExtendedBy(frame, token))
           /\ tuple[next] \in PotentialTokens(InputsAfter(frame, token)[next])
<1> DEFINE extended == ExtendedBy(frame, token)
           after == InputsAfter(frame, token)
<1>1. /\ InputsFollow(extended, after) /\ extended[frame.next] = token
      /\ \A i \in InputIDs : i # frame.next => extended[i] = frame.inputTokens[i]
  BY TokenContinues
<1> HIDE DEF extended, after
<1>2. tuple \in Tuples /\ Fits(problem.inputs, TokensAt(tuple))
  BY MatchParts
<1>3. Completes(tuple, extended)
  BY <1>1 DEF Completes
<1>4. FitsAtPlaces(after, TokensAt(tuple))
  BY <1>1, <1>2, <1>3, FitsByPlaces DEF InputsFollow
<1>5. DOMAIN after = InputIDs /\ after[next] \in Seq(Int)
  BY <1>1 DEF InputsFollow
<1>6. tuple[next] \in TokenIDs /\ TokensAt(tuple)[next] = problem.tokens[tuple[next]]
  BY <1>2 DEF Tuples, TokensAt
<1>7. problem.tokens[tuple[next]] \in Seq(Nat)
  BY <1>6, TokenFacts
<1>8. /\ Len(after[next]) = Len(problem.tokens[tuple[next]])
      /\ \A p \in DOMAIN after[next] :
           after[next][p] >= 0 => problem.tokens[tuple[next]][p] = after[next][p]
  BY <1>4, <1>5, <1>6 DEF FitsAtPlaces
<1>9. DOMAIN after[next] = DOMAIN problem.tokens[tuple[next]]
  BY <1>5, <1>7, <1>8
<1>10. ASSUME NEW atom \in ExplicitAtoms(after[next])
       PROVE  tuple[next] \in TokensContainingAtom(atom)
  <2>1. PICK p \in DOMAIN after[next] : after[next][p] = atom /\ atom >= 0
    BY DEF ExplicitAtoms, Range
  <2>2. atom \in Range(problem.tokens[tuple[next]])
    BY <1>8, <1>9, <2>1 DEF Range
  <2> QED  BY <1>6, <2>2 DEF TokensContainingAtom
<1>11. tuple[next] \in PotentialTokens(after[next])
  BY <1>6, <1>10 DEF PotentialTokens
<1> QED  BY <1>3, <1>11 DEF extended, after

\* The next best input is one that can be searched for.
LEMMA NextBestIsSearchable ==
    ASSUME ProblemSound, NEW inputTokens, NEW inputs, DOMAIN inputs = InputIDs,
           Searchable(inputTokens, inputs) # {}
    PROVE  NextBestInput(inputTokens, inputs) \in Searchable(inputTokens, inputs)
<1> DEFINE searchable == Searchable(inputTokens, inputs)
           Branching(i) == Cardinality(PotentialTokens(inputs[i]))
           best == {i \in searchable : \A j \in searchable : Branching(i) <= Branching(j)}
           counts == {Branching(i) : i \in searchable}
<1>1. \A i \in searchable : Branching(i) \in Nat
  <2>1. \A i : PotentialTokens(inputs[i]) \subseteq TokenIDs
    BY DEF PotentialTokens
  <2> QED  BY <2>1, TokenFacts, FS_Subset, FS_CardinalityType
<1>2. searchable \subseteq Nat /\ searchable # {}
  <2>1. searchable \subseteq InputIDs
    BY DEF Searchable
  <2>2. InputIDs \subseteq Nat
    BY TokenFacts
  <2> QED  BY <2>1, <2>2
<1> HIDE DEF searchable
<1>3. best # {}
  <2>1. counts \in SUBSET Nat /\ counts # {}
    BY <1>1, <1>2
  <2>2. PICK n \in counts : \A m \in counts : n <= m
    <3> HIDE DEF counts
    <3> QED  BY <2>1, LeastOf
  <2>3. PICK i \in searchable : Branching(i) = n
    BY <2>2
  <2>4. \A j \in searchable : Branching(j) \in counts
    OBVIOUS
  <2>5. \A j \in searchable : Branching(i) <= Branching(j)
    BY <2>2, <2>3, <2>4
  <2> QED  BY <2>3, <2>5
<1>4. best \in SUBSET Nat
  BY <1>2
<1>5. NextBestInput(inputTokens, inputs) = Min(best)
  BY DEF NextBestInput, searchable
<1> HIDE DEF best
<1>6. \E i \in best : \A j \in best : i <= j
  BY <1>3, <1>4, LeastOf
<1>7. Min(best) \in best
  BY <1>6 DEF Min
<1> QED  BY <1>5, <1>7 DEF best, searchable

\* If no input is left that can be searched for, the inputs are not connected:
\* those matched share no atoms with the rest.
LEMMA StuckIsDisconnected ==
    ASSUME ProblemSound, start \in InputIDs, NEW frame \in FrameType, FrameSound(frame),
           NEW token \in frame.candidates, CanMatch(frame, token),
           ~IsMatchComplete(ExtendedBy(frame, token)),
           Searchable(ExtendedBy(frame, token), InputsAfter(frame, token)) = {}
    PROVE  ~Connected
<1> DEFINE extended == ExtendedBy(frame, token)
           after == InputsAfter(frame, token)
           part == {i \in InputIDs : extended[i] # Unmatched}
<1>1. /\ InputsFollow(extended, after) /\ TokensTogether(extended)
      /\ extended[frame.next] = token
      /\ frame.next \in InputIDs /\ token \in TokenIDs
  BY TokenContinues DEF FrameType
<1>2. ~IsMatchComplete(extended) /\ Searchable(extended, after) = {}
  OBVIOUS
<1> HIDE DEF extended, after
<1>3. /\ extended \in [InputIDs -> TokenIDs \cup {Unmatched}]
      /\ DOMAIN after = InputIDs /\ after \in Seq(Seq(Int))
      /\ \A i \in InputIDs : DOMAIN after[i] = DOMAIN problem.inputs[i]
      /\ \A i \in InputIDs : extended[i] # Unmatched => after[i] = problem.tokens[extended[i]]
      /\ \A i, j \in InputIDs :
           \A p \in DOMAIN problem.inputs[i], q \in DOMAIN problem.inputs[j] :
             problem.inputs[i][p] = problem.inputs[j][q] => after[i][p] = after[j][q]
  BY <1>1 DEF TokensTogether, InputsFollow
<1>4. frame.next \in part
  BY <1>1, TokenFacts
<1>5. \E i \in InputIDs : i \notin part
  BY <1>2, <1>3 DEF IsMatchComplete, Range
<1>6. ASSUME NEW i \in part, NEW j \in InputIDs \ part, SharesAtoms(i, j)
      PROVE  FALSE
  <2>1. PICK p \in DOMAIN problem.inputs[i], q \in DOMAIN problem.inputs[j] :
          problem.inputs[i][p] = problem.inputs[j][q]
    BY <1>6 DEF SharesAtoms, Range
  <2>2. after[i][p] = after[j][q]
    BY <1>3, <2>1
  <2>3. extended[i] \in TokenIDs /\ after[i] = problem.tokens[extended[i]]
    BY <1>3
  <2>4. p \in DOMAIN after[i] /\ after[i] \in Seq(Nat)
    BY <1>3, <2>3, TokenFacts
  <2>5. after[i][p] \in Nat
    BY <2>4
  <2>6. after[j][q] \in Range(after[j]) /\ after[j][q] >= 0
    BY <1>3, <2>2, <2>5 DEF Range
  <2>7. j \in Searchable(extended, after)
    BY <1>3, <2>6 DEF Searchable, ExplicitAtoms
  <2> QED  BY <1>2, <2>7
<1>7. part \in SUBSET InputIDs /\ part \notin {{}, InputIDs}
  BY <1>4, <1>5
<1> HIDE DEF part
<1> QED  BY <1>6, <1>7 DEF Connected, InputIDs

-----------------------------------------------------------------------------
(* The inductive invariant.                                                *)

\* A running call still has the token to try that leads to the match.
Pending(stack, tuple) ==
    \E k \in DOMAIN stack :
        /\ Completes(tuple, stack[k].inputTokens)
        /\ tuple[stack[k].next] \in stack[k].candidates

StackSound(stack) ==
    /\ stack \in Seq(FrameType)
    /\ stack # <<>> => start \in InputIDs
    /\ \A k \in DOMAIN stack : FrameSound(stack[k])
    /\ \A k, l \in DOMAIN stack : k < l => Inside(stack[k], stack[l])

FoundSound ==
    /\ found \subseteq Pairs
    /\ \A match \in found : match.start <= start
    /\ IsFiniteSet(found) /\ storedCount = Cardinality(found)

\* Matches that start at an input the search is done with are found; those of
\* the current input are found or a call is on the way to them, never both.
NothingLost ==
    currentError = "None" =>
        \A match \in Pairs :
            /\ match.start < start => match \in found
            /\ match.start = start => match \in found \/ Pending(frames, match.inputTokens)

NothingTwice ==
    \A match \in found : match.start = start => ~Pending(frames, match.inputTokens)

ErrorSound ==
    /\ currentError \in {"None", "DisconnectedInputs"}
    /\ currentError # "None" => ~Connected

SearchInvariant ==
    /\ ProblemSound
    /\ start \in 0..Len(problem.inputs)
    /\ StackSound(frames)
    /\ FoundSound
    /\ NothingLost
    /\ NothingTwice
    /\ ErrorSound

\* No step changes what is searched for.
LEMMA SameProblem ==
    ASSUME problem' = problem
    PROVE  /\ InputIDs' = InputIDs /\ TokenIDs' = TokenIDs
           /\ Tuples' = Tuples /\ FrameType' = FrameType
           /\ AllMatches' = AllMatches /\ Pairs' = Pairs
           /\ ProblemSound' <=> ProblemSound
           /\ Connected' <=> Connected
           /\ \A tuple, partial : Completes(tuple, partial)' <=> Completes(tuple, partial)
           /\ \A partial, inputs : InputsFollow(partial, inputs)' <=> InputsFollow(partial, inputs)
           /\ \A partial : TokensTogether(partial)' <=> TokensTogether(partial)
           /\ \A frame, outer : Inside(frame, outer)' <=> Inside(frame, outer)
<1>1. InputIDs' = InputIDs /\ TokenIDs' = TokenIDs
  BY DEF InputIDs, TokenIDs
<1>2. Tuples' = Tuples /\ FrameType' = FrameType
  BY <1>1 DEF Tuples, FrameType
<1>3. AllMatches' = AllMatches
  BY <1>1, Zenon DEF AllMatches
<1>4. Pairs' = Pairs
  BY <1>1, <1>2, <1>3, Zenon DEF Pairs
<1>5. ProblemSound' <=> ProblemSound
  BY <1>1, Zenon DEF ProblemSound
<1>6. Connected' <=> Connected
  <2>1. \A i, j : SharesAtoms(i, j)' = SharesAtoms(i, j)
    BY Zenon DEF SharesAtoms
  <2> QED  BY <2>1, Zenon DEF Connected
<1>7. \A tuple, partial : Completes(tuple, partial)' <=> Completes(tuple, partial)
  BY <1>1, Zenon DEF Completes
<1>8. \A partial, inputs : InputsFollow(partial, inputs)' <=> InputsFollow(partial, inputs)
  <2>1. \A tuple : TokensAt(tuple)' = TokensAt(tuple)
    BY <1>1, Zenon DEF TokensAt
  <2> SUFFICES ASSUME NEW partial, NEW inputs
               PROVE  InputsFollow(partial, inputs)' <=> InputsFollow(partial, inputs)
    OBVIOUS
  <2>2. ASSUME NEW tuple
        PROVE  (Fits(problem.inputs, TokensAt(tuple)) <=> Fits(inputs, TokensAt(tuple)))'
                 <=> (Fits(problem.inputs, TokensAt(tuple)) <=> Fits(inputs, TokensAt(tuple)))
    BY <2>1, Zenon
  <2>3. (\A tuple \in Tuples : Completes(tuple, partial) =>
           (Fits(problem.inputs, TokensAt(tuple)) <=> Fits(inputs, TokensAt(tuple))))'
        <=> (\A tuple \in Tuples : Completes(tuple, partial) =>
              (Fits(problem.inputs, TokensAt(tuple)) <=> Fits(inputs, TokensAt(tuple))))
    BY <1>2, <1>7, <2>2, Zenon
  <2>4. (\A i \in InputIDs : DOMAIN inputs[i] = DOMAIN problem.inputs[i])'
        <=> (\A i \in InputIDs : DOMAIN inputs[i] = DOMAIN problem.inputs[i])
    BY <1>1, Zenon
  <2>5. (\A i \in InputIDs : partial[i] # Unmatched => inputs[i] = problem.tokens[partial[i]])'
        <=> (\A i \in InputIDs :
               partial[i] # Unmatched => inputs[i] = problem.tokens[partial[i]])
    BY <1>1, Zenon
  <2>6. (\A i, j \in InputIDs :
           \A p \in DOMAIN problem.inputs[i], q \in DOMAIN problem.inputs[j] :
             problem.inputs[i][p] = problem.inputs[j][q] => inputs[i][p] = inputs[j][q])'
        <=> (\A i, j \in InputIDs :
               \A p \in DOMAIN problem.inputs[i], q \in DOMAIN problem.inputs[j] :
                 problem.inputs[i][p] = problem.inputs[j][q] => inputs[i][p] = inputs[j][q])
    BY <1>1, SMT
  <2>7. (\A i \in InputIDs : \A p \in DOMAIN problem.inputs[i] :
           problem.inputs[i][p] >= 0 => inputs[i][p] >= 0)'
        <=> (\A i \in InputIDs : \A p \in DOMAIN problem.inputs[i] :
               problem.inputs[i][p] >= 0 => inputs[i][p] >= 0)
    BY <1>1, Zenon
  <2> QED  BY <1>1, <2>3, <2>4, <2>5, <2>6, <2>7, Zenon DEF InputsFollow
<1>9. \A partial : TokensTogether(partial)' <=> TokensTogether(partial)
  BY <1>1, Zenon DEF TokensTogether
<1>10. \A frame, outer : Inside(frame, outer)' <=> Inside(frame, outer)
  BY <1>1, Zenon DEF Inside
<1> QED  BY <1>1, <1>2, <1>3, <1>4, <1>5, <1>6, <1>7, <1>8, <1>9, <1>10

\* Nor, unless it starts with another input, what it means for a stack to be sound.
LEMMA SameStack ==
    ASSUME problem' = problem
    PROVE  /\ \A stack, tuple : Pending(stack, tuple)' <=> Pending(stack, tuple)
           /\ start' = start =>
                \A stack : StackSound(stack)' <=> StackSound(stack)
<1>1. \A stack, tuple : Pending(stack, tuple)' <=> Pending(stack, tuple)
  BY SameProblem, Zenon DEF Pending
<1>2. ASSUME start' = start
      PROVE  \A stack : StackSound(stack)' <=> StackSound(stack)
  <2>1. \A frame : StartsNew(frame)' <=> StartsNew(frame)
    BY <1>2, SameProblem, Zenon DEF StartsNew
  <2>2. \A frame : FrameSound(frame)' <=> FrameSound(frame)
    BY <2>1, SameProblem, Zenon DEF FrameSound
  <2> QED  BY <1>2, <2>2, SameProblem, Zenon DEF StackSound
<1> QED  BY <1>1, <1>2

\* The call with one token less to try.
Waiting(frame, token) == [frame EXCEPT !.candidates = @ \ {token}]

Rest(stack, token) == <<Waiting(stack[1], token)>> \o Tail(stack)

\* What trying a token leaves of the stack: only what comes through that token
\* is no longer to be reached.
LEMMA TokenTried ==
    ASSUME ProblemSound, NEW stack, StackSound(stack), stack # <<>>,
           NEW token \in stack[1].candidates
    PROVE  /\ StackSound(Rest(stack, token))
           /\ \A tuple : Pending(Rest(stack, token), tuple) => Pending(stack, tuple)
           /\ \A tuple : Pending(stack, tuple) =>
                \/ Pending(Rest(stack, token), tuple)
                \/ /\ Completes(tuple, stack[1].inputTokens)
                   /\ tuple[stack[1].next] = token
           /\ \A tuple : Completes(tuple, ExtendedBy(stack[1], token)) =>
                ~Pending(Rest(stack, token), tuple)
<1> DEFINE frame == stack[1]
           rest == Rest(stack, token)
           waiting == Waiting(frame, token)
<1>1. /\ stack \in Seq(FrameType) /\ Len(stack) \in Nat /\ Len(stack) >= 1
      /\ DOMAIN stack = 1..Len(stack) /\ 1 \in DOMAIN stack
      /\ frame \in FrameType /\ start \in InputIDs
      /\ FrameSound(frame)
  BY DEF StackSound
<1>2. /\ waiting \in FrameType
      /\ waiting.inputTokens = frame.inputTokens /\ waiting.inputs = frame.inputs
      /\ waiting.next = frame.next /\ waiting.candidates = frame.candidates \ {token}
  BY <1>1 DEF FrameType, Waiting
<1>3. FrameSound(waiting)
  BY <1>1, <1>2 DEF FrameSound, StartsNew
<1>4. \A k \in 2..Len(stack) : Inside(frame, stack[k])
  BY <1>1 DEF StackSound
<1>5. \A k \in 2..Len(stack) : Inside(waiting, stack[k])
  BY <1>2, <1>4 DEF Inside
<1> HIDE DEF waiting
<1>6. /\ rest \in Seq(FrameType) /\ Len(rest) = Len(stack) /\ DOMAIN rest = 1..Len(stack)
      /\ rest[1] = waiting
      /\ \A k \in 2..Len(stack) : rest[k] = stack[k]
  <2>1. rest = <<waiting>> \o Tail(stack)
    BY DEF waiting, Rest
  <2>2. stack \in Seq(FrameType) /\ stack # <<>> /\ waiting \in FrameType
    BY <1>1, <1>2
  <2>3. /\ rest \in Seq(FrameType) /\ Len(rest) = Len(stack)
        /\ rest[1] = waiting
        /\ \A k \in 2..Len(stack) : rest[k] = stack[k]
    <3> DEFINE S == FrameType
    <3>1. stack \in Seq(S) /\ stack # <<>> /\ waiting \in S
      BY <2>2
    <3> HIDE DEF S
    <3>2. /\ <<waiting>> \o Tail(stack) \in Seq(S)
          /\ Len(<<waiting>> \o Tail(stack)) = Len(stack)
          /\ (<<waiting>> \o Tail(stack))[1] = waiting
          /\ \A k \in 2..Len(stack) : (<<waiting>> \o Tail(stack))[k] = stack[k]
      BY <3>1, TopReplaced
    <3> QED  BY <2>1, <3>2 DEF S
  <2> QED  BY <1>1, <2>3
<1> HIDE DEF frame, rest
<1>7. \A k \in 1..Len(stack) : k = 1 \/ k \in 2..Len(stack)
  BY <1>1
<1>8. StackSound(rest)
  <2>1. ASSUME NEW k \in DOMAIN rest PROVE FrameSound(rest[k])
    BY <1>1, <1>3, <1>6, <1>7 DEF StackSound
  <2>2. ASSUME NEW k \in DOMAIN rest, NEW l \in DOMAIN rest, k < l
        PROVE  Inside(rest[k], rest[l])
    <3>1. l \in 2..Len(stack) /\ rest[l] = stack[l]
      BY <1>1, <1>6, <2>2
    <3>2. CASE k = 1
      BY <1>5, <1>6, <3>1, <3>2
    <3>3. CASE k \in 2..Len(stack)
      BY <1>1, <1>6, <2>2, <3>1, <3>3 DEF StackSound
    <3> QED  BY <1>6, <1>7, <3>2, <3>3
  <2> QED  BY <1>1, <1>6, <2>1, <2>2 DEF StackSound
<1>9. ASSUME NEW tuple, Pending(rest, tuple)
      PROVE  Pending(stack, tuple)
  BY <1>1, <1>2, <1>6, <1>7, <1>9 DEF Pending, frame
<1>10. ASSUME NEW tuple, Pending(stack, tuple), ~Pending(rest, tuple)
       PROVE  Completes(tuple, frame.inputTokens) /\ tuple[frame.next] = token
  <2>1. PICK k \in 1..Len(stack) : /\ Completes(tuple, stack[k].inputTokens)
                                   /\ tuple[stack[k].next] \in stack[k].candidates
    BY <1>1, <1>10 DEF Pending
  <2>2. k \notin 2..Len(stack)
    BY <1>6, <1>10, <2>1 DEF Pending
  <2>3. k = 1
    BY <1>7, <2>2
  <2> QED  BY <1>2, <1>6, <1>10, <2>1, <2>3 DEF Pending, frame
<1>11. ASSUME NEW tuple, Completes(tuple, ExtendedBy(frame, token)), Pending(rest, tuple)
       PROVE  FALSE
  <2>1. /\ frame.inputTokens \in [InputIDs -> TokenIDs \cup {Unmatched}]
        /\ frame.next \in InputIDs /\ frame.inputTokens[frame.next] = Unmatched
        /\ token \in TokenIDs /\ Unmatched \notin TokenIDs
    BY <1>1, TokenFacts DEF FrameType, FrameSound, frame
  <2>2. tuple[frame.next] = token
    BY <1>11, <2>1 DEF Completes, ExtendedBy
  <2>3. \A i \in InputIDs : frame.inputTokens[i] \in TokenIDs =>
          tuple[i] = frame.inputTokens[i]
    BY <1>11, <2>1 DEF Completes, ExtendedBy
  <2>4. PICK k \in 1..Len(stack) : tuple[rest[k].next] \in rest[k].candidates
    BY <1>6, <1>11 DEF Pending
  <2>5. CASE k = 1
    BY <1>2, <1>6, <2>2, <2>4, <2>5
  <2>6. CASE k \in 2..Len(stack)
    <3>1. /\ frame.inputTokens[stack[k].next] \in TokenIDs \ stack[k].candidates
          /\ stack[k].next \in InputIDs
      <4>1. stack[k] \in FrameType
        BY <1>1
      <4> QED  BY <1>4, <2>6, <4>1 DEF Inside, FrameType
    <3> QED  BY <1>6, <2>3, <2>4, <2>6, <3>1
  <2> QED  BY <1>7, <2>5, <2>6
<1> QED  BY <1>8, <1>9, <1>10, <1>11 DEF frame, rest

\* A call that returns with nothing left to try loses nothing.
LEMMA CallReturned ==
    ASSUME NEW stack, StackSound(stack), stack # <<>>
    PROVE  /\ StackSound(Tail(stack))
           /\ \A tuple : Pending(Tail(stack), tuple) => Pending(stack, tuple)
           /\ stack[1].candidates = {} =>
                \A tuple : Pending(stack, tuple) => Pending(Tail(stack), tuple)
<1> DEFINE rest == Tail(stack)
           S == FrameType
<1>1. /\ stack \in Seq(S) /\ Len(stack) \in Nat /\ Len(stack) >= 1
      /\ DOMAIN stack = 1..Len(stack) /\ start \in InputIDs
  BY DEF StackSound
<1> HIDE DEF S
<1>2. /\ rest \in Seq(S) /\ Len(rest) = Len(stack) - 1
      /\ \A k \in 1..(Len(stack) - 1) : rest[k] = stack[k + 1]
  BY <1>1, TopRemoved
<1> HIDE DEF rest
<1>3. /\ DOMAIN rest = 1..(Len(stack) - 1)
      /\ \A k \in DOMAIN rest : k + 1 \in DOMAIN stack /\ rest[k] = stack[k + 1]
  BY <1>1, <1>2
<1>4. \A k \in DOMAIN stack : k = 1 \/ (k - 1 \in DOMAIN rest /\ rest[k - 1] = stack[k])
  BY <1>1, <1>2, <1>3
<1>5. StackSound(rest)
  <2>1. ASSUME NEW k \in DOMAIN rest PROVE FrameSound(rest[k])
    BY <1>3 DEF StackSound
  <2>2. ASSUME NEW k \in DOMAIN rest, NEW l \in DOMAIN rest, k < l
        PROVE  Inside(rest[k], rest[l])
    <3>1. k + 1 \in DOMAIN stack /\ l + 1 \in DOMAIN stack /\ k + 1 < l + 1
      BY <1>3, <2>2
    <3> QED  BY <1>3, <3>1 DEF StackSound
  <2> QED  BY <1>1, <1>2, <2>1, <2>2 DEF StackSound, S
<1>6. \A tuple : Pending(rest, tuple) => Pending(stack, tuple)
  BY <1>3 DEF Pending
<1>7. ASSUME stack[1].candidates = {}, NEW tuple, Pending(stack, tuple)
      PROVE  Pending(rest, tuple)
  <2>1. PICK k \in DOMAIN stack : /\ Completes(tuple, stack[k].inputTokens)
                                  /\ tuple[stack[k].next] \in stack[k].candidates
    BY <1>7 DEF Pending
  <2>2. k - 1 \in DOMAIN rest /\ rest[k - 1] = stack[k]
    BY <1>4, <1>7, <2>1
  <2> QED  BY <2>1, <2>2 DEF Pending
<1> QED  BY <1>5, <1>6, <1>7 DEF rest

\* The call that continues the match with a token.
Call(frame, token, next) ==
    Frame(ExtendedBy(frame, token), InputsAfter(frame, token), next,
          PotentialTokens(InputsAfter(frame, token)[next]))

Deeper(stack, token, next) ==
    <<Call(stack[1], token, next), Waiting(stack[1], token)>> \o Tail(stack)

\* A call that continues the match with a token has every match in its reach
\* that comes through this token, and no other.
LEMMA CallPushed ==
    ASSUME ProblemSound, NEW stack, StackSound(stack), stack # <<>>,
           NEW token \in stack[1].candidates, CanMatch(stack[1], token),
           NEW next \in InputIDs, ExtendedBy(stack[1], token)[next] = Unmatched
    PROVE  /\ StackSound(Deeper(stack, token, next))
           /\ \A tuple : Pending(Deeper(stack, token, next), tuple) => Pending(stack, tuple)
           /\ \A tuple \in AllMatches :
                Pending(stack, tuple) => Pending(Deeper(stack, token, next), tuple)
<1> DEFINE frame == stack[1]
           waiting == Waiting(frame, token)
           rest == Rest(stack, token)
           extended == ExtendedBy(frame, token)
           after == InputsAfter(frame, token)
           call == Call(frame, token, next)
           deeper == Deeper(stack, token, next)
           S == FrameType
<1>1. /\ stack \in Seq(S) /\ Len(stack) \in Nat /\ Len(stack) >= 1
      /\ DOMAIN stack = 1..Len(stack)
      /\ frame \in S /\ start \in InputIDs /\ FrameSound(frame)
      /\ frame.inputTokens[frame.next] = Unmatched /\ frame.next \in InputIDs
      /\ token \in TokenIDs
  <2>1. /\ stack \in Seq(FrameType) /\ start \in InputIDs
        /\ \A k \in DOMAIN stack : FrameSound(stack[k])
    BY DEF StackSound
  <2>2. /\ Len(stack) \in Nat /\ Len(stack) >= 1 /\ DOMAIN stack = 1..Len(stack)
        /\ 1 \in DOMAIN stack /\ frame \in FrameType
    BY <2>1
  <2>3. FrameSound(frame)
    BY <2>1, <2>2
  <2> QED  BY <2>1, <2>2, <2>3 DEF FrameSound, FrameType
<1>2. /\ waiting \in S
      /\ waiting.inputTokens = frame.inputTokens
      /\ waiting.next = frame.next /\ waiting.candidates = frame.candidates \ {token}
  BY <1>1 DEF FrameType, Waiting
<1>3. /\ InputsFollow(extended, after) /\ TokensTogether(extended)
      /\ extended[start] \in problem.newTokens
      /\ extended[frame.next] = token
      /\ \A i \in InputIDs : i # frame.next => extended[i] = frame.inputTokens[i]
  BY <1>1, TokenContinues
<1>4. /\ StackSound(rest)
      /\ \A tuple : Pending(rest, tuple) => Pending(stack, tuple)
      /\ \A tuple : Pending(stack, tuple) =>
           \/ Pending(rest, tuple)
           \/ Completes(tuple, frame.inputTokens) /\ tuple[frame.next] = token
  BY TokenTried
<1>5. /\ rest \in Seq(S) /\ Len(rest) = Len(stack)
      /\ rest[1] = waiting
      /\ \A k \in 2..Len(stack) : rest[k] = stack[k]
  <2>1. rest = <<waiting>> \o Tail(stack)
    BY DEF Rest
  <2> HIDE DEF S, waiting, rest
  <2> QED  BY <1>1, <1>2, <2>1, TopReplaced
<1>6. /\ call.inputTokens = extended /\ call.inputs = after
      /\ call.next = next /\ call.candidates = PotentialTokens(after[next])
  BY DEF Call, Frame
<1>7. call \in S
  <2>1. extended \in [InputIDs -> TokenIDs \cup {Unmatched}] /\ after \in Seq(Seq(Int))
    BY <1>3 DEF TokensTogether, InputsFollow
  <2>2. PotentialTokens(after[next]) \subseteq TokenIDs
    BY DEF PotentialTokens
  <2>3. call = Frame(extended, after, next, PotentialTokens(after[next]))
    BY DEF Call
  <2> HIDE DEF extended, after, call
  <2> QED  BY <2>1, <2>2, <2>3 DEF Frame, FrameType
<1>8. FrameSound(call)
  BY <1>3, <1>6 DEF FrameSound, StartsNew
<1>9. /\ deeper \in Seq(S) /\ Len(deeper) = Len(rest) + 1
      /\ deeper[1] = call
      /\ \A k \in 1..Len(rest) : deeper[k + 1] = rest[k]
  <2>1. deeper = <<call, waiting>> \o Tail(stack)
    BY DEF Deeper
  <2> HIDE DEF S, waiting, rest, call, deeper
  <2>2. /\ deeper \in Seq(S) /\ Len(deeper) = Len(stack) + 1
        /\ deeper[1] = call /\ deeper[2] = waiting
        /\ \A k \in 3..(Len(stack) + 1) : deeper[k] = stack[k - 1]
    <3>1. /\ <<call, waiting>> \o Tail(stack) \in Seq(S)
          /\ Len(<<call, waiting>> \o Tail(stack)) = Len(stack) + 1
          /\ (<<call, waiting>> \o Tail(stack))[1] = call
          /\ (<<call, waiting>> \o Tail(stack))[2] = waiting
          /\ \A k \in 3..(Len(stack) + 1) :
               (<<call, waiting>> \o Tail(stack))[k] = stack[k - 1]
      BY <1>1, <1>2, <1>7, TopPushed
    <3> QED  BY <2>1, <3>1
  <2>3. ASSUME NEW k \in 1..Len(rest) PROVE deeper[k + 1] = rest[k]
    <3>1. CASE k = 1
      <4>1. k + 1 = 2
        BY <3>1
      <4> QED  BY <1>5, <2>2, <3>1, <4>1
    <3>2. CASE k # 1
      <4>1. k \in 2..Len(stack) /\ k + 1 \in 3..(Len(stack) + 1) /\ (k + 1) - 1 = k
        BY <1>1, <1>5, <3>2
      <4> QED  BY <1>5, <2>2, <4>1
    <3> QED  BY <3>1, <3>2
  <2> QED  BY <1>5, <2>2, <2>3
<1> HIDE DEF frame, waiting, rest, extended, after, call, deeper, S
<1>10. /\ DOMAIN deeper = 1..(Len(rest) + 1) /\ DOMAIN rest = 1..Len(rest)
       /\ Len(rest) \in Nat
       /\ \A k \in DOMAIN deeper :
            k = 1 \/ (k - 1 \in DOMAIN rest /\ deeper[k] = rest[k - 1])
       /\ \A k \in DOMAIN rest : k + 1 \in DOMAIN deeper
  <2>1. Len(rest) \in Nat /\ DOMAIN rest = 1..Len(rest) /\ DOMAIN deeper = 1..(Len(rest) + 1)
    BY <1>1, <1>5, <1>9
  <2>2. ASSUME NEW k \in 1..(Len(rest) + 1), k # 1
        PROVE  k - 1 \in 1..Len(rest) /\ (k - 1) + 1 = k
    BY <2>1, <2>2
  <2>3. \A k \in 1..Len(rest) : k + 1 \in 1..(Len(rest) + 1)
    BY <2>1
  <2> QED  BY <1>9, <2>1, <2>2, <2>3
<1>11. \A k \in DOMAIN rest : Inside(call, rest[k])
  <2> SUFFICES ASSUME NEW k \in DOMAIN rest PROVE Inside(call, rest[k])
    OBVIOUS
  <2>1. CASE k = 1
    <3>1. \A i \in InputIDs : frame.inputTokens[i] # Unmatched =>
            extended[i] = frame.inputTokens[i]
      BY <1>1, <1>3
    <3> QED  BY <1>1, <1>2, <1>3, <1>5, <1>6, <2>1, <3>1 DEF Inside
  <2>2. CASE k # 1
    <3>1. k \in 2..Len(stack) /\ rest[k] = stack[k] /\ k \in DOMAIN stack /\ 1 < k
          /\ 1 \in DOMAIN stack
      BY <1>1, <1>5, <1>10, <2>2
    <3>2. Inside(frame, stack[k])
      BY <3>1 DEF StackSound, frame
    <3>3. stack[k].next \in InputIDs
      <4>1. stack[k] \in S
        BY <1>1, <3>1
      <4> QED  BY <4>1 DEF S, FrameType
    <3>4. \A i \in InputIDs : frame.inputTokens[i] # Unmatched =>
            extended[i] = frame.inputTokens[i]
      BY <1>1, <1>3
    <3>5. frame.inputTokens[stack[k].next] # Unmatched
      BY <3>2, TokenFacts DEF Inside
    <3> QED  BY <1>6, <3>1, <3>2, <3>3, <3>4, <3>5 DEF Inside
  <2> QED  BY <2>1, <2>2
<1>12. StackSound(deeper)
  <2>1. ASSUME NEW k \in DOMAIN deeper PROVE FrameSound(deeper[k])
    BY <1>4, <1>8, <1>9, <1>10 DEF StackSound
  <2>2. ASSUME NEW k \in DOMAIN deeper, NEW l \in DOMAIN deeper, k < l
        PROVE  Inside(deeper[k], deeper[l])
    <3>1. l - 1 \in DOMAIN rest /\ deeper[l] = rest[l - 1]
      <4>1. l # 1
        BY <1>10, <2>2
      <4> QED  BY <1>10, <4>1
    <3>2. CASE k = 1
      BY <1>9, <1>11, <3>1, <3>2
    <3>3. CASE k # 1
      <4>1. k - 1 \in DOMAIN rest /\ deeper[k] = rest[k - 1] /\ k - 1 < l - 1
        <5>1. k \in Int /\ l \in Int
          BY <1>10
        <5>2. k - 1 < l - 1
          BY <2>2, <5>1
        <5> QED  BY <1>10, <3>3, <5>2
      <4> QED  BY <1>4, <3>1, <4>1 DEF StackSound
    <3> QED  BY <3>2, <3>3
  <2> QED  BY <1>1, <1>9, <2>1, <2>2 DEF StackSound, S
<1>13. ASSUME NEW tuple, Pending(deeper, tuple)
       PROVE  Pending(stack, tuple)
  <2>1. PICK k \in DOMAIN deeper : /\ Completes(tuple, deeper[k].inputTokens)
                                   /\ tuple[deeper[k].next] \in deeper[k].candidates
    BY <1>13 DEF Pending
  <2>2. CASE k = 1
    <3>1. Completes(tuple, extended)
      BY <1>6, <1>9, <2>1, <2>2
    <3>2. Completes(tuple, frame.inputTokens)
      BY <1>1, <1>3, <3>1 DEF Completes
    <3>3. tuple[frame.next] = token
      BY <1>1, <1>3, <3>1, TokenFacts DEF Completes
    <3> QED  BY <1>1, <3>2, <3>3 DEF Pending, frame
  <2>3. CASE k # 1
    <3>1. Pending(rest, tuple)
      BY <1>10, <2>1, <2>3 DEF Pending
    <3> QED  BY <1>4, <3>1
  <2> QED  BY <2>2, <2>3
<1>14. ASSUME NEW tuple \in AllMatches, Pending(stack, tuple)
       PROVE  Pending(deeper, tuple)
  <2>1. CASE Pending(rest, tuple)
    <3>1. PICK k \in DOMAIN rest : /\ Completes(tuple, rest[k].inputTokens)
                                   /\ tuple[rest[k].next] \in rest[k].candidates
      BY <2>1 DEF Pending
    <3>2. k + 1 \in DOMAIN deeper /\ deeper[k + 1] = rest[k]
      BY <1>9, <1>10
    <3> QED  BY <3>1, <3>2 DEF Pending
  <2>2. CASE Completes(tuple, frame.inputTokens) /\ tuple[frame.next] = token
    <3>1. /\ Completes(tuple, extended)
          /\ tuple[next] \in PotentialTokens(after[next])
      BY <1>1, <2>2, MatchStaysInReach DEF S, frame, extended, after
    <3>2. 1 \in DOMAIN deeper
      BY <1>10
    <3> QED  BY <1>6, <1>9, <3>1, <3>2 DEF Pending
  <2> QED  BY <1>4, <1>14, <2>1, <2>2
<1> QED  BY <1>12, <1>13, <1>14 DEF deeper

-----------------------------------------------------------------------------
(* The steps.                                                              *)

SearchStarts ==
    start = 0 /\ frames = <<>> /\ found = {} /\ storedCount = 0 /\ currentError = "None"

LEMMA SearchStartsSound ==
    ASSUME SearchStarts, ProblemSound
    PROVE  SearchInvariant
<1>1. /\ start = 0 /\ frames = <<>> /\ found = {}
      /\ storedCount = 0 /\ currentError = "None"
  BY DEF SearchStarts
<1>2. /\ InputIDs = 1..Len(problem.inputs) /\ Len(problem.inputs) \in Nat
  BY TokenFacts
<1>3. StackSound(frames)
  BY <1>1 DEF StackSound
<1>4. FoundSound
  BY <1>1, FS_EmptySet DEF FoundSound
<1>5. \A match \in Pairs : match.start \in InputIDs
  BY DEF Pairs
<1>6. NothingLost
  BY <1>1, <1>2, <1>5 DEF NothingLost
<1>7. NothingTwice /\ ErrorSound
  BY <1>1 DEF NothingTwice, ErrorSound
<1> QED  BY <1>1, <1>2, <1>3, <1>4, <1>6, <1>7 DEF SearchInvariant

LEMMA InitSearch ==
    ASSUME Init
    PROVE  SearchInvariant
<1>1. problem \in Problems /\ SearchStarts
  BY DEF Init, SearchInit, SearchStarts
<1>2. ProblemSound
  BY <1>1, ProblemsAssumption DEF ProblemSound, TokenIDs
<1> QED  BY <1>1, <1>2, SearchStartsSound

LEMMA StartKeeps ==
    ASSUME SearchInvariant, StartWithNextInput
    PROVE  SearchInvariant'
<1> DEFINE none == [i \in DOMAIN problem.inputs |-> Unmatched]
           first == Frame(none, problem.inputs, start + 1, problem.newTokens)
<1>1. /\ frames = <<>> /\ start < Len(problem.inputs)
      /\ frames' = <<first>> /\ start' = start + 1
      /\ problem' = problem /\ found' = found /\ storedCount' = storedCount
      /\ currentError' = currentError
  BY DEF StartWithNextInput, StartWith
<1>2. /\ ProblemSound /\ start \in 0..Len(problem.inputs) /\ FoundSound
      /\ NothingLost /\ ErrorSound
  BY DEF SearchInvariant
<1>3. /\ InputIDs = 1..Len(problem.inputs) /\ Len(problem.inputs) \in Nat
      /\ problem.inputs \in Seq(Seq(Int)) /\ Unmatched \notin TokenIDs
      /\ problem.newTokens \subseteq TokenIDs
  BY <1>2, TokenFacts DEF ProblemSound
<1>4. start' \in InputIDs
  BY <1>1, <1>2, <1>3
<1>5. \A i \in InputIDs : none[i] = Unmatched
  BY DEF InputIDs
<1>6. /\ first.inputTokens = none /\ first.inputs = problem.inputs
      /\ first.next = start' /\ first.candidates = problem.newTokens
  BY <1>1 DEF Frame
<1>7. first \in FrameType
  <2>1. none \in [InputIDs -> TokenIDs \cup {Unmatched}]
    BY DEF InputIDs
  <2> HIDE DEF none
  <2> QED  BY <1>1, <1>3, <1>4, <2>1 DEF Frame, FrameType
<1>8. ASSUME NEW frame, frame = first
      PROVE  FrameSound(frame)'
  <2>1. InputsFollow(none, problem.inputs)
    BY <1>3, <1>5 DEF InputsFollow, InputIDs
  <2>2. TokensTogether(none)
    BY <1>5 DEF TokensTogether, InputIDs
  <2> HIDE DEF first, none
  <2>3. StartsNew(frame)'
    BY <1>1, <1>5, <1>6, <1>8, SameProblem DEF StartsNew
  <2>4. InputsFollow(frame.inputTokens, frame.inputs)' /\ TokensTogether(frame.inputTokens)'
    BY <1>1, <1>6, <2>1, <2>2, <1>8, SameProblem
  <2> QED  BY <1>4, <1>3, <1>5, <1>6, <1>8, <2>3, <2>4, SameProblem DEF FrameSound
<1> HIDE DEF first
<1>9. ASSUME NEW stack, stack = <<first>>
      PROVE  /\ StackSound(stack)'
             /\ \A tuple : Completes(tuple, none) /\ tuple[start'] \in problem.newTokens =>
                  Pending(stack, tuple)
  <2>1. /\ stack \in Seq(FrameType) /\ DOMAIN stack = {1} /\ stack[1] = first
    BY <1>7, <1>9
  <2>2. ASSUME NEW k \in {1}, NEW frame, frame = stack[k]
        PROVE  FrameSound(frame)'
    BY <1>8, <2>1, <2>2
  <2>3. StackSound(stack)'
    BY <1>1, <1>4, <1>8, <2>1, SameProblem DEF StackSound
  <2> QED  BY <1>6, <2>1, <2>3 DEF Pending
<1>10. StackSound(frames)'
  BY <1>1, <1>9
<1>11. FoundSound'
  <2>1. \A match \in found : match.start <= start + 1
    <3>1. \A match \in found : match.start \in InputIDs /\ match.start <= start
      BY <1>2 DEF FoundSound, Pairs
    <3> QED  BY <1>2, <1>3, <3>1
  <2> QED  BY <1>1, <1>2, <2>1, SameProblem DEF FoundSound
<1>12. NothingLost'
  <2> SUFFICES ASSUME currentError = "None", NEW match \in Pairs
               PROVE  /\ match.start < start + 1 => match \in found
                      /\ match.start = start + 1 => Pending(frames, match.inputTokens)'
    BY <1>1, SameProblem DEF NothingLost
  <2>1. /\ match.start \in InputIDs /\ match.inputTokens[match.start] \in problem.newTokens
    BY DEF Pairs
  <2>2. ~Pending(frames, match.inputTokens)
    BY <1>1 DEF Pending
  <2>3. match.start < start + 1 => match \in found
    <3>1. match.start < start \/ match.start = start \/ match.start >= start + 1
      <4>1. start \in Int /\ match.start \in Int
        BY <1>2, <1>3, <2>1
      <4> QED  BY <4>1
    <3> QED  BY <1>2, <1>3, <2>1, <2>2, <3>1 DEF NothingLost
  <2>4. ASSUME match.start = start + 1
        PROVE  Pending(frames, match.inputTokens)'
    <3>1. Completes(match.inputTokens, none)
      BY <1>5 DEF Completes
    <3>2. \A stack : stack = <<first>> => Pending(stack, match.inputTokens)
      BY <1>1, <1>9, <2>1, <2>4, <3>1
    <3> QED  BY <1>1, <3>2, SameStack
  <2> QED  BY <2>3, <2>4
<1>13. NothingTwice'
  <2>1. \A match \in found : match.start # start + 1
    <3>1. \A match \in found : match.start \in InputIDs /\ match.start <= start
      BY <1>2 DEF FoundSound, Pairs
    <3> QED  BY <1>2, <1>3, <3>1
  <2> QED  BY <1>1, <2>1 DEF NothingTwice
<1>14. ErrorSound'
  BY <1>1, <1>2, SameProblem DEF ErrorSound
<1>15. ProblemSound' /\ start' \in 0..Len(problem'.inputs)
  BY <1>1, <1>2, <1>3, <1>4, SameProblem
<1> QED  BY <1>10, <1>11, <1>12, <1>13, <1>14, <1>15 DEF SearchInvariant

LEMMA ReturnKeeps ==
    ASSUME SearchInvariant, Return
    PROVE  SearchInvariant'
<1>1. /\ frames # <<>>
      /\ Head(frames).candidates = {} \/ currentError # "None"
      /\ frames' = Tail(frames) /\ start' = start
      /\ problem' = problem /\ found' = found /\ storedCount' = storedCount
      /\ currentError' = currentError
  BY DEF Return
<1>2. /\ ProblemSound /\ start \in 0..Len(problem.inputs) /\ StackSound(frames) /\ FoundSound
      /\ NothingLost /\ NothingTwice /\ ErrorSound
  BY DEF SearchInvariant
<1>3. Head(frames) = frames[1]
  BY <1>1, <1>2 DEF StackSound
<1>4. /\ StackSound(Tail(frames))
      /\ \A tuple : Pending(Tail(frames), tuple) => Pending(frames, tuple)
      /\ frames[1].candidates = {} =>
           \A tuple : Pending(frames, tuple) => Pending(Tail(frames), tuple)
  BY <1>1, <1>2, CallReturned, Zenon
<1>5. StackSound(frames)'
  BY <1>1, <1>4, SameStack
<1>6. \A tuple : Pending(frames, tuple)' <=> Pending(Tail(frames), tuple)
  BY <1>1, SameStack
<1>7. NothingLost'
  BY <1>1, <1>2, <1>3, <1>4, <1>6, SameProblem DEF NothingLost
<1>8. NothingTwice'
  BY <1>1, <1>2, <1>4, <1>6, SameProblem DEF NothingTwice
<1>9. FoundSound' /\ ErrorSound' /\ ProblemSound' /\ start' \in 0..Len(problem'.inputs)
  BY <1>1, <1>2, SameProblem DEF FoundSound, ErrorSound
<1> QED  BY <1>5, <1>7, <1>8, <1>9 DEF SearchInvariant

LEMMA AttemptKeeps ==
    ASSUME SearchInvariant, AttemptNext
    PROVE  SearchInvariant'
<1> DEFINE frame == frames[1]
           rest(token) == Rest(frames, token)
           extended(token) == ExtendedBy(frame, token)
           after(token) == InputsAfter(frame, token)
           next(token) == NextBestInput(extended(token), after(token))
           deeper(token) == Deeper(frames, token, next(token))
<1>1. /\ ProblemSound /\ start \in 0..Len(problem.inputs) /\ StackSound(frames) /\ FoundSound
      /\ NothingLost /\ NothingTwice /\ ErrorSound
      /\ frames # <<>>
  BY DEF SearchInvariant, AttemptNext
<1>2. Head(frames) = frame
  BY <1>1 DEF StackSound
<1>3. PICK token \in frame.candidates : Attempt(token)
  BY <1>2 DEF AttemptNext
<1>4. /\ currentError = "None" /\ problem' = problem /\ start' = start
  BY <1>3 DEF Attempt
<1>5. \/ /\ ~CanMatch(frame, token)
         /\ frames' = rest(token)
         /\ found' = found /\ storedCount' = storedCount /\ currentError' = currentError
      \/ /\ CanMatch(frame, token) /\ IsMatchComplete(extended(token))
         /\ frames' = rest(token)
         /\ found' = found \cup {[start |-> start, inputTokens |-> extended(token)]}
         /\ storedCount' = storedCount + 1 /\ currentError' = currentError
      \/ /\ CanMatch(frame, token) /\ ~IsMatchComplete(extended(token))
         /\ Searchable(extended(token), after(token)) = {}
         /\ frames' = rest(token)
         /\ currentError' = "DisconnectedInputs"
         /\ found' = found /\ storedCount' = storedCount
      \/ /\ CanMatch(frame, token) /\ ~IsMatchComplete(extended(token))
         /\ Searchable(extended(token), after(token)) # {}
         /\ frames' = deeper(token)
         /\ found' = found /\ storedCount' = storedCount /\ currentError' = currentError
  BY <1>2, <1>3 DEF Attempt, Rest, Deeper, Call, Waiting, ExtendedBy, InputsAfter
<1>6. frame \in FrameType /\ FrameSound(frame) /\ start \in InputIDs
  <2>1. 1 \in DOMAIN frames /\ frames \in Seq(FrameType)
    BY <1>1 DEF StackSound
  <2> QED  BY <1>1, <2>1 DEF StackSound
<1>7. /\ StackSound(rest(token))
      /\ \A tuple : Pending(rest(token), tuple) => Pending(frames, tuple)
      /\ \A tuple : Pending(frames, tuple) =>
           \/ Pending(rest(token), tuple)
           \/ Completes(tuple, frame.inputTokens) /\ tuple[frame.next] = token
      /\ \A tuple : Completes(tuple, extended(token)) => ~Pending(rest(token), tuple)
  BY <1>1, <1>3, TokenTried
<1> HIDE DEF frame, rest, extended, after, next, deeper
<1>8. \A match \in Pairs : match.inputTokens \in AllMatches /\ match.inputTokens \in Tuples
  BY DEF Pairs
<1>9. ProblemSound' /\ start' \in 0..Len(problem'.inputs)
  BY <1>1, <1>4, SameProblem
<1>10. ASSUME NEW stack, frames' = stack, StackSound(stack)
       PROVE  /\ StackSound(frames)'
              /\ \A tuple : Pending(frames, tuple)' <=> Pending(stack, tuple)
  BY <1>4, <1>10, SameStack
<1>11. ASSUME found' = found, storedCount' = storedCount
       PROVE  FoundSound'
  BY <1>1, <1>4, <1>11, SameProblem DEF FoundSound
<1>12. CASE /\ ~CanMatch(frame, token)
            /\ frames' = rest(token)
            /\ found' = found /\ storedCount' = storedCount /\ currentError' = currentError
  <2>1. /\ StackSound(frames)'
        /\ \A tuple : Pending(frames, tuple)' <=> Pending(rest(token), tuple)
    BY <1>7, <1>10, <1>12
  <2>2. \A tuple \in AllMatches : Pending(frames, tuple) => Pending(rest(token), tuple)
    <3>1. ASSUME NEW tuple \in AllMatches, Completes(tuple, frame.inputTokens)
          PROVE  tuple[frame.next] # token
      BY <1>1, <1>6, <1>12, <3>1, MatchPasses
    <3> QED  BY <1>7, <3>1
  <2>3. NothingLost'
    BY <1>1, <1>4, <1>8, <1>12, <2>1, <2>2, SameProblem DEF NothingLost
  <2>4. NothingTwice'
    BY <1>1, <1>4, <1>7, <1>12, <2>1, SameProblem DEF NothingTwice
  <2>5. FoundSound' /\ ErrorSound'
    BY <1>1, <1>4, <1>11, <1>12, SameProblem DEF ErrorSound
  <2> QED  BY <1>9, <2>1, <2>3, <2>4, <2>5 DEF SearchInvariant
<1>13. CASE /\ CanMatch(frame, token) /\ IsMatchComplete(extended(token))
            /\ frames' = rest(token)
            /\ found' = found \cup {[start |-> start, inputTokens |-> extended(token)]}
            /\ storedCount' = storedCount + 1 /\ currentError' = currentError
  <2> DEFINE new == [start |-> start, inputTokens |-> extended(token)]
  <2>1. /\ StackSound(frames)'
        /\ \A tuple : Pending(frames, tuple)' <=> Pending(rest(token), tuple)
    BY <1>7, <1>10, <1>13
  <2>2. /\ new \in Pairs
        /\ \A tuple \in Tuples : Completes(tuple, extended(token)) => tuple = extended(token)
    BY <1>1, <1>3, <1>6, <1>13, CompleteIsMatch DEF extended
  <2>3. /\ Completes(extended(token), extended(token))
        /\ Completes(extended(token), frame.inputTokens)
        /\ extended(token)[frame.next] = token
        /\ \A tuple : Completes(tuple, frame.inputTokens) /\ tuple[frame.next] = token =>
             Completes(tuple, extended(token))
    <3>1. /\ extended(token)[frame.next] = token
          /\ frame.inputTokens[frame.next] = Unmatched
          /\ \A i \in InputIDs : i # frame.next =>
               extended(token)[i] = frame.inputTokens[i]
      BY <1>1, <1>3, <1>6, <1>13, TokenContinues DEF extended, FrameSound
    <3> QED  BY <3>1 DEF Completes
  <2>4. new \notin found
    <3>1. 1 \in DOMAIN frames
      BY <1>1 DEF StackSound
    <3>2. Pending(frames, extended(token))
      BY <1>3, <2>3, <3>1 DEF Pending, frame
    <3> QED  BY <1>1, <3>2 DEF NothingTwice
  <2>5. FoundSound'
    <3>1. IsFiniteSet(found) /\ Cardinality(found) \in Nat
      BY <1>1, FS_CardinalityType DEF FoundSound
    <3>2. IsFiniteSet(found') /\ Cardinality(found') = Cardinality(found) + 1
      BY <1>13, <2>4, <3>1, FS_AddElement
    <3>3. found' \subseteq Pairs /\ \A match \in found' : match.start <= start
      <4>1. new.start = start /\ start \in Int /\ start <= start
        BY <1>1
      <4> HIDE DEF new
      <4>2. found' = found \cup {new}
        BY <1>13 DEF new
      <4> QED  BY <1>1, <2>2, <4>1, <4>2 DEF FoundSound
    <3> QED  BY <1>1, <1>4, <1>13, <3>1, <3>2, <3>3, SameProblem DEF FoundSound
  <2> HIDE DEF new
  <2>6. /\ found' = found \cup {new}
        /\ new.start = start /\ new.inputTokens = extended(token)
    BY <1>13 DEF new
  <2>7. NothingLost'
    <3> SUFFICES ASSUME NEW match \in Pairs
                 PROVE  /\ match.start < start => match \in found'
                        /\ match.start = start =>
                             match \in found' \/ Pending(frames, match.inputTokens)'
      BY <1>4, SameProblem DEF NothingLost
    <3>1. match.start < start => match \in found
      BY <1>1, <1>4 DEF NothingLost
    <3>2. ASSUME match.start = start, match \notin found, ~Pending(rest(token), match.inputTokens)
          PROVE  match = new
      <4>1. Pending(frames, match.inputTokens)
        BY <1>1, <1>4, <3>2 DEF NothingLost
      <4>2. match.inputTokens = extended(token)
        BY <1>7, <1>8, <2>2, <2>3, <3>2, <4>1
      <4>3. match = [start |-> match.start, inputTokens |-> match.inputTokens]
        BY DEF Pairs
      <4> QED  BY <3>2, <4>2, <4>3 DEF new
    <3> QED  BY <2>1, <2>6, <3>1, <3>2
  <2>8. NothingTwice'
    <3>1. ASSUME NEW match \in found', match.start = start
          PROVE  ~Pending(rest(token), match.inputTokens)
      <4>1. CASE match \in found
        BY <1>1, <1>7, <3>1, <4>1 DEF NothingTwice
      <4>2. CASE match = new
        BY <1>7, <2>3, <2>6, <4>2
      <4> QED  BY <2>6, <4>1, <4>2
    <3> QED  BY <1>4, <2>1, <3>1 DEF NothingTwice
  <2>9. ErrorSound'
    BY <1>1, <1>4, <1>13, SameProblem DEF ErrorSound
  <2> QED  BY <1>9, <2>1, <2>5, <2>7, <2>8, <2>9 DEF SearchInvariant
<1>14. CASE /\ CanMatch(frame, token) /\ ~IsMatchComplete(extended(token))
            /\ Searchable(extended(token), after(token)) = {}
            /\ frames' = rest(token)
            /\ currentError' = "DisconnectedInputs"
            /\ found' = found /\ storedCount' = storedCount
  <2>1. /\ StackSound(frames)'
        /\ \A tuple : Pending(frames, tuple)' <=> Pending(rest(token), tuple)
    BY <1>7, <1>10, <1>14
  <2>2. ~Connected
    BY <1>1, <1>3, <1>6, <1>14, StuckIsDisconnected DEF extended, after
  <2>3. NothingLost'
    BY <1>14 DEF NothingLost
  <2>4. NothingTwice'
    BY <1>1, <1>4, <1>7, <1>14, <2>1, SameProblem DEF NothingTwice
  <2>5. FoundSound' /\ ErrorSound'
    BY <1>4, <1>11, <1>14, <2>2, SameProblem DEF ErrorSound
  <2> QED  BY <1>9, <2>1, <2>3, <2>4, <2>5 DEF SearchInvariant
<1>15. CASE /\ CanMatch(frame, token) /\ ~IsMatchComplete(extended(token))
            /\ Searchable(extended(token), after(token)) # {}
            /\ frames' = deeper(token)
            /\ found' = found /\ storedCount' = storedCount /\ currentError' = currentError
  <2>1. next(token) \in Searchable(extended(token), after(token)) /\ DOMAIN after(token) = InputIDs
    <3>1. DOMAIN after(token) = InputIDs
      BY <1>1, <1>3, <1>6, <1>15, TokenContinues DEF extended, after, InputsFollow
    <3> QED  BY <1>1, <1>15, <3>1, NextBestIsSearchable DEF next
  <2>2. next(token) \in InputIDs /\ extended(token)[next(token)] = Unmatched
    BY <2>1 DEF Searchable
  <2>3. /\ StackSound(deeper(token))
        /\ \A tuple : Pending(deeper(token), tuple) => Pending(frames, tuple)
        /\ \A tuple \in AllMatches : Pending(frames, tuple) => Pending(deeper(token), tuple)
    BY <1>1, <1>3, <1>15, <2>2, CallPushed DEF deeper, frame, extended
  <2>4. /\ StackSound(frames)'
        /\ \A tuple : Pending(frames, tuple)' => Pending(frames, tuple)
        /\ \A tuple \in AllMatches : Pending(frames, tuple) => Pending(frames, tuple)'
    BY <1>10, <1>15, <2>3
  <2>5. NothingLost'
    BY <1>1, <1>4, <1>8, <1>15, <2>4, SameProblem DEF NothingLost
  <2>6. NothingTwice'
    BY <1>1, <1>4, <1>15, <2>4, SameProblem DEF NothingTwice
  <2>7. FoundSound' /\ ErrorSound'
    BY <1>1, <1>4, <1>11, <1>15, SameProblem DEF ErrorSound
  <2> QED  BY <1>9, <2>4, <2>5, <2>6, <2>7 DEF SearchInvariant
<1> QED  BY <1>5, <1>12, <1>13, <1>14, <1>15

LEMMA StutterKeeps ==
    ASSUME SearchInvariant, UNCHANGED searchVars
    PROVE  SearchInvariant'
<1>1. /\ problem' = problem /\ start' = start /\ frames' = frames /\ found' = found
      /\ storedCount' = storedCount /\ currentError' = currentError
  BY DEF searchVars
<1>2. /\ ProblemSound /\ start \in 0..Len(problem.inputs) /\ StackSound(frames) /\ FoundSound
      /\ NothingLost /\ NothingTwice /\ ErrorSound
  BY DEF SearchInvariant
<1>3. StackSound(frames)' /\ \A tuple : Pending(frames, tuple)' <=> Pending(frames, tuple)
  BY <1>1, <1>2, SameStack
<1>4. NothingLost' /\ NothingTwice'
  BY <1>1, <1>2, <1>3, SameProblem DEF NothingLost, NothingTwice
<1>5. FoundSound' /\ ErrorSound' /\ ProblemSound' /\ start' \in 0..Len(problem'.inputs)
  BY <1>1, <1>2, SameProblem DEF FoundSound, ErrorSound
<1> QED  BY <1>3, <1>4, <1>5 DEF SearchInvariant

LEMMA NextKeeps ==
    SearchInvariant /\ [Next]_searchVars => SearchInvariant'
BY StartKeeps, AttemptKeeps, ReturnKeeps, StutterKeeps DEF Next

LEMMA SearchInvariantHolds ==
    Spec => []SearchInvariant
<1>1. Init => SearchInvariant
  BY InitSearch
<1>2. SearchInvariant /\ [Next]_searchVars => SearchInvariant'
  BY NextKeeps
<1> QED  BY <1>1, <1>2, PTL DEF Spec

-----------------------------------------------------------------------------
(* What the invariant comes to.                                            *)

\* A running call is a partial match of tokens in the index with its next input
\* open (completeMatchesStartingWithInput).
THEOREM SearchTypeCorrect == Spec => []TypeOK
<1>1. SearchInvariant => TypeOK
  <2> SUFFICES ASSUME SearchInvariant PROVE TypeOK
    OBVIOUS
  <2>1. /\ ProblemSound /\ start \in 0..Len(problem.inputs) /\ StackSound(frames) /\ FoundSound
        /\ ErrorSound
    BY DEF SearchInvariant
  <2>2. ASSUME NEW k \in DOMAIN frames PROVE GoodFrame(k)
    <3>1. frames[k] \in FrameType /\ FrameSound(frames[k])
      BY <2>1 DEF StackSound
    <3>2. /\ frames[k].inputTokens \in [InputIDs -> TokenIDs \cup {Unmatched}]
          /\ frames[k].next \in InputIDs /\ frames[k].candidates \subseteq TokenIDs
          /\ frames[k].inputTokens[frames[k].next] = Unmatched
      BY <3>1 DEF FrameType, FrameSound
    <3>3. Range(frames[k].inputTokens) \subseteq TokenIDs \cup {Unmatched}
      BY <3>2 DEF Range
    <3> QED  BY <3>2, <3>3 DEF GoodFrame, InputIDs
  <2>3. storedCount \in Nat
    BY <2>1, FS_CardinalityType DEF FoundSound
  <2> QED  BY <2>1, <2>2, <2>3 DEF TypeOK, ErrorSound
<1> QED  BY <1>1, SearchInvariantHolds, PTL

\* The matches of the pairs are all the matches, and each is in a pair for every
\* new token it has.
LEMMA PairsAreMatches ==
    ASSUME IsFiniteSet(Pairs)
    PROVE  /\ {match.inputTokens : match \in Pairs} = AllMatches
           /\ Cardinality(Pairs) = Cardinality(
                {place \in AllMatches \X InputIDs : place[1][place[2]] \in problem.newTokens})
<1> DEFINE places == {place \in AllMatches \X InputIDs :
                        place[1][place[2]] \in problem.newTokens}
           f == [pair \in Pairs |-> <<pair.inputTokens, pair.start>>]
<1>1. ASSUME NEW pair \in Pairs
      PROVE  /\ pair.start \in InputIDs /\ pair.inputTokens \in AllMatches
             /\ pair.inputTokens[pair.start] \in problem.newTokens
             /\ pair = [start |-> pair.start, inputTokens |-> pair.inputTokens]
  BY DEF Pairs
<1>2. ASSUME NEW tuple \in AllMatches, NEW i \in InputIDs, tuple[i] \in problem.newTokens
      PROVE  [start |-> i, inputTokens |-> tuple] \in Pairs
  BY <1>2, MatchParts DEF Pairs
<1>3. \A tuple \in AllMatches : \E i \in InputIDs : tuple[i] \in problem.newTokens
  BY MatchParts
<1>4. {match.inputTokens : match \in Pairs} = AllMatches
  <2>1. ASSUME NEW tuple \in AllMatches
        PROVE  \E match \in Pairs : match.inputTokens = tuple
    <3>1. PICK i \in InputIDs : tuple[i] \in problem.newTokens
      BY <1>3
    <3>2. [start |-> i, inputTokens |-> tuple] \in Pairs
      BY <1>2, <3>1
    <3> QED  BY <3>2
  <2> QED  BY <1>1, <2>1
<1>5. f \in [Pairs -> places]
  BY <1>1
<1>6. \A p, q \in Pairs : f[p] = f[q] => p = q
  BY <1>1
<1>7. \A place \in places : \E pair \in Pairs : f[pair] = place
  <2> SUFFICES ASSUME NEW place \in places PROVE \E pair \in Pairs : f[pair] = place
    OBVIOUS
  <2>1. /\ place[1] \in AllMatches /\ place[2] \in InputIDs /\ place = <<place[1], place[2]>>
        /\ place[1][place[2]] \in problem.newTokens
    OBVIOUS
  <2>2. [start |-> place[2], inputTokens |-> place[1]] \in Pairs
    BY <1>2, <2>1
  <2>3. f[[start |-> place[2], inputTokens |-> place[1]]] = place
    BY <2>1, <2>2
  <2> QED  BY <2>2, <2>3
<1> HIDE DEF f, places
<1>8. f \in Bijection(Pairs, places)
  BY <1>5, <1>6, <1>7 DEF Bijection, Injection, Surjection, IsInjective
<1>9. Cardinality(Pairs) = Cardinality(places)
  <2>1. ExistsBijection(Pairs, places)
    BY <1>8 DEF ExistsBijection
  <2> QED  BY <2>1, FS_Bijection
<1> QED  BY <1>4, <1>9 DEF places

LEMMA InvariantIsExact ==
    ASSUME SearchInvariant
    PROVE  SearchIsExact
<1> SUFFICES ASSUME SearchEnded, currentError = "None"
             PROVE  /\ {match.inputTokens : match \in found} = AllMatches
                    /\ storedCount = Cardinality(
                         {place \in AllMatches \X DOMAIN problem.inputs :
                            place[1][place[2]] \in problem.newTokens})
  BY DEF SearchIsExact
<1>1. /\ ProblemSound /\ start \in 0..Len(problem.inputs) /\ FoundSound /\ NothingLost
      /\ frames = <<>> /\ start = Len(problem.inputs)
  BY DEF SearchInvariant, SearchEnded
<1>2. ASSUME NEW match \in Pairs PROVE match \in found
  <2>1. match.start \in 1..Len(problem.inputs) /\ Len(problem.inputs) \in Nat
    BY <1>1, TokenFacts DEF Pairs
  <2>2. match.start < start \/ match.start = start
    BY <1>1, <2>1
  <2>3. ~Pending(frames, match.inputTokens)
    BY <1>1 DEF Pending
  <2> QED  BY <1>1, <2>2, <2>3 DEF NothingLost
<1>3. found = Pairs /\ IsFiniteSet(Pairs) /\ storedCount = Cardinality(Pairs)
  BY <1>1, <1>2 DEF FoundSound
<1> QED  BY <1>3, PairsAreMatches DEF InputIDs

LEMMA InvariantErrors ==
    ASSUME SearchInvariant
    PROVE  ErrorOnlyIfDisconnected
<1>1. \A match \in found : match.inputTokens \in AllMatches
  BY DEF SearchInvariant, FoundSound, Pairs
<1>2. ErrorSound
  BY DEF SearchInvariant
<1> QED  BY <1>1, <1>2 DEF ErrorOnlyIfDisconnected, ErrorSound

\* Whichever candidates are tried first and whichever inputs preferred, a search
\* that ends without error (addMatchesForRule) has stored all the matches with a
\* new token and no others, each once for every new token in it.
THEOREM SearchFindsExactly == Spec => []SearchIsExact
BY InvariantIsExact, SearchInvariantHolds, PTL

\* The search gives up only on rules whose inputs are not connected
\* (nextBestInputAndTokensToTry), and has stored nothing but matches by then.
THEOREM ErrorsAreDisconnected == Spec => []ErrorOnlyIfDisconnected
BY InvariantErrors, SearchInvariantHolds, PTL

-----------------------------------------------------------------------------
(* The comparison of outcomes.                                             *)

NamedAtPlaces(result, lists) ==
    /\ result \in Seq(Seq(Nat)) /\ DOMAIN result = DOMAIN lists
    /\ \A i \in DOMAIN lists : Len(result[i]) = Len(lists[i])
    /\ \A i \in DOMAIN lists : \A p \in DOMAIN lists[i] :
         IF lists[i][p] >= 0 THEN result[i][p] = lists[i][p]
         ELSE \A atom \in AtomsOf(lists) : atom < result[i][p]
    /\ \A i, j \in DOMAIN lists : \A p \in DOMAIN lists[i], q \in DOMAIN lists[j] :
         lists[i][p] = lists[j][q] <=> result[i][p] = result[j][q]

\* The largest atom of lists that have an atom.
LEMMA LargestAtomOf ==
    ASSUME NEW lists \in Seq(Seq(Int)), \E atom \in AtomsOf(lists) : atom \in Nat
    PROVE  Max(AtomsOf(lists)) \in Nat /\ \A atom \in AtomsOf(lists) : atom <= Max(AtomsOf(lists))
<1> DEFINE all == AtomsOf(lists)
<1>1. all \subseteq Int
  BY PatternsAreFinite
<1>2. PICK b \in Nat :
        \A i \in DOMAIN lists : \A p \in DOMAIN lists[i] : lists[i][p] \in (-b)..b
  BY NumbersOfListsBounded
<1>3. \A atom \in all : atom <= b
  BY <1>2 DEF AtomsOf, Range
<1>4. all \cap Nat # {}
  OBVIOUS
<1> HIDE DEF all
<1>5. PICK m \in all \cap Nat : \A x \in all \cap Nat : x <= m
  <2>1. all \cap Nat \subseteq Nat /\ \A x \in all \cap Nat : x <= b
    BY <1>3
  <2> QED  BY <1>4, <2>1, LargestElement
<1>6. ASSUME NEW x \in all PROVE m >= x
  <2>1. x \in Int /\ m \in Nat
    BY <1>1
  <2>2. x \in Nat => x <= m
    BY <1>5
  <2> QED  BY <2>1, <2>2
<1>7. Max(all) \in all /\ \A x \in all : Max(all) >= x
  BY <1>6 DEF Max
<1>8. Max(all) \in Int /\ m \in Nat /\ Max(all) >= m
  BY <1>1, <1>5, <1>7
<1>9. Max(all) \in Nat /\ \A x \in all : x <= Max(all)
  BY <1>1, <1>7, <1>8
<1> QED  BY <1>9 DEF all

\* Naming patterns leaves atoms alone, and gives every pattern a name of its own
\* that is no atom.
LEMMA PatternsNamed ==
    ASSUME NEW lists \in Seq(Seq(Int)), \E atom \in AtomsOf(lists) : atom \in Nat
    PROVE  NamedAtPlaces(InstantiatePatternAtoms(lists), lists)
<1> DEFINE all == AtomsOf(lists)
           Name(pattern) == Max(all) + RankOfPattern(lists, pattern)
           Value(atom) == IF atom < 0 THEN Name(atom) ELSE atom
           result == InstantiatePatternAtoms(lists)
<1>1. all \subseteq Int
  BY PatternsAreFinite
<1>2. Max(all) \in Nat /\ \A atom \in all : atom <= Max(all)
  BY LargestAtomOf
<1>3. \A pattern \in NewPatterns(lists) :
        /\ RankOfPattern(lists, pattern) \in Nat /\ RankOfPattern(lists, pattern) > 0
        /\ \A b \in NewPatterns(lists) :
             RankOfPattern(lists, pattern) = RankOfPattern(lists, b) => pattern = b
  <2>1. Cardinality(NewPatterns(lists)) \in Nat
    BY PatternsAreFinite
  <2> QED  BY <2>1, RanksOfPatterns
<1>4. \A atom \in all : atom < 0 => atom \in NewPatterns(lists)
  BY DEF NewPatterns
<1>5. ASSUME NEW atom \in all
      PROVE  /\ Value(atom) \in Nat
             /\ IF atom >= 0 THEN Value(atom) = atom ELSE Value(atom) > Max(all)
  <2> DEFINE rank == RankOfPattern(lists, atom)
  <2>1. atom < 0 => rank \in Nat /\ rank > 0
    BY <1>3, <1>4
  <2>2. atom \in Int
    BY <1>1
  <2> HIDE DEF all, rank
  <2>3. CASE atom < 0
    <3>1. Value(atom) = Max(all) + rank
      BY <2>3 DEF rank
    <3> HIDE DEF Value
    <3> QED  BY <1>2, <2>1, <2>2, <2>3, <3>1
  <2>4. CASE ~(atom < 0)
    <3>1. Value(atom) = atom
      BY <2>4
    <3> HIDE DEF Value
    <3> QED  BY <2>2, <2>4, <3>1
  <2> QED  BY <2>3, <2>4
<1>6. ASSUME NEW a \in all, NEW b \in all, Value(a) = Value(b) PROVE a = b
  <2> DEFINE rankA == RankOfPattern(lists, a)
             rankB == RankOfPattern(lists, b)
  <2>1. a \in Int /\ b \in Int
    BY <1>1
  <2>2. CASE a < 0 /\ b < 0
    <3>1. a \in NewPatterns(lists) /\ b \in NewPatterns(lists)
      BY <1>4, <2>2
    <3>2. rankA \in Nat /\ rankB \in Nat /\ (rankA = rankB => a = b)
      BY <1>3, <3>1
    <3>3. Value(a) = Max(all) + rankA /\ Value(b) = Max(all) + rankB
      BY <2>2
    <3> DEFINE largest == Max(all)
               valueA == Value(a)
    <3>4. /\ largest \in Int /\ rankA \in Int /\ rankB \in Int
          /\ valueA = largest + rankA /\ valueA = largest + rankB
      BY <1>2, <1>6, <3>2, <3>3
    <3> HIDE DEF Value, rankA, rankB, all, largest, valueA
    <3>5. rankA = rankB
      BY <3>4
    <3> QED  BY <3>2, <3>5
  <2>3. CASE ~(a < 0 /\ b < 0)
    <3>1. /\ IF a >= 0 THEN Value(a) = a ELSE Value(a) > Max(all)
          /\ IF b >= 0 THEN Value(b) = b ELSE Value(b) > Max(all)
          /\ Value(a) \in Nat /\ Value(b) \in Nat
      BY <1>5
    <3>2. a <= Max(all) /\ b <= Max(all)
      BY <1>2
    <3> HIDE DEF Value, all
    <3> QED  BY <1>2, <1>6, <2>1, <2>3, <3>1, <3>2
  <2> QED  BY <2>2, <2>3
<1>7. result = [i \in DOMAIN lists |-> [p \in DOMAIN lists[i] |-> Value(lists[i][p])]]
  BY DEF InstantiatePatternAtoms, RankOfPattern
<1> HIDE DEF Value, result
<1>8. \A i \in DOMAIN lists : /\ lists[i] \in Seq(Int) /\ DOMAIN lists[i] = 1..Len(lists[i])
                              /\ Len(lists[i]) \in Nat
  OBVIOUS
<1>9. \A i \in DOMAIN lists : \A p \in DOMAIN lists[i] : lists[i][p] \in all
  BY DEF AtomsOf, Range
<1> HIDE DEF all
<1>10. \A i \in DOMAIN lists : /\ result[i] \in Seq(Nat) /\ DOMAIN result[i] = DOMAIN lists[i]
                               /\ Len(result[i]) = Len(lists[i])
  <2> SUFFICES ASSUME NEW i \in DOMAIN lists
               PROVE  /\ result[i] \in Seq(Nat) /\ DOMAIN result[i] = DOMAIN lists[i]
                      /\ Len(result[i]) = Len(lists[i])
    OBVIOUS
  <2>1. result[i] = [p \in DOMAIN lists[i] |-> Value(lists[i][p])]
    BY <1>7
  <2>2. \A p \in DOMAIN lists[i] : Value(lists[i][p]) \in Nat
    BY <1>5, <1>9
  <2>3. result[i] \in [1..Len(lists[i]) -> Nat]
    BY <1>8, <2>1, <2>2
  <2> QED  BY <1>8, <2>3, IsSequence
<1>11. result \in Seq(Seq(Nat)) /\ DOMAIN result = DOMAIN lists
  <2>1. DOMAIN lists = 1..Len(lists) /\ Len(lists) \in Nat
    OBVIOUS
  <2>2. DOMAIN result = 1..Len(lists) /\ \A i \in 1..Len(lists) : result[i] \in Seq(Nat)
    BY <1>7, <1>10, <2>1
  <2>3. result \in [1..Len(lists) -> Seq(Nat)]
    BY <1>7, <2>2
  <2> QED  BY <2>1, <2>3, IsSequence
<1>12. \A i \in DOMAIN lists : \A p \in DOMAIN lists[i] : result[i][p] = Value(lists[i][p])
  BY <1>7
<1>13. ASSUME NEW i \in DOMAIN lists, NEW p \in DOMAIN lists[i]
       PROVE  IF lists[i][p] >= 0 THEN result[i][p] = lists[i][p]
              ELSE \A atom \in AtomsOf(lists) : atom < result[i][p]
  <2> DEFINE value == result[i][p]
             atom0 == lists[i][p]
  <2>1. atom0 \in all /\ value = Value(atom0)
    BY <1>9, <1>12
  <2>2. value \in Nat /\ IF atom0 >= 0 THEN value = atom0 ELSE value > Max(all)
    BY <1>5, <2>1
  <2>3. \A atom \in all : atom \in Int /\ atom <= Max(all)
    BY <1>1, <1>2
  <2> HIDE DEF value, atom0
  <2>4. IF atom0 >= 0 THEN value = atom0 ELSE \A atom \in all : atom < value
    BY <1>2, <2>2, <2>3
  <2> QED  BY <2>4 DEF value, atom0, all
<1>14. ASSUME NEW i \in DOMAIN lists, NEW j \in DOMAIN lists,
              NEW p \in DOMAIN lists[i], NEW q \in DOMAIN lists[j]
       PROVE  lists[i][p] = lists[j][q] <=> result[i][p] = result[j][q]
  <2>1. result[i][p] = Value(lists[i][p]) /\ result[j][q] = Value(lists[j][q])
    BY <1>12
  <2>2. lists[i][p] \in all /\ lists[j][q] \in all
    BY <1>9
  <2> QED  BY <1>6, <2>1, <2>2
<1>15. NamedAtPlaces(result, lists)
  BY <1>10, <1>11, <1>13, <1>14 DEF NamedAtPlaces
<1> QED  BY <1>15 DEF result

\* The lists with the connecting atom.
LEMMA AppendedAtoms ==
    ASSUME NEW lists \in Seq(Seq(Int)), ConnectingAtom \in Nat
    PROVE  /\ AppendAtomToEveryToken(lists) \in Seq(Seq(Int))
           /\ DOMAIN AppendAtomToEveryToken(lists) = DOMAIN lists
           /\ \A i \in DOMAIN lists :
                /\ DOMAIN lists[i] = 1..Len(lists[i]) /\ Len(lists[i]) \in Nat
                /\ Len(AppendAtomToEveryToken(lists)[i]) = Len(lists[i]) + 1
                /\ DOMAIN AppendAtomToEveryToken(lists)[i] = 1..(Len(lists[i]) + 1)
                /\ AppendAtomToEveryToken(lists)[i][Len(lists[i]) + 1] = ConnectingAtom
                /\ \A p \in DOMAIN lists[i] :
                     AppendAtomToEveryToken(lists)[i][p] = lists[i][p]
<1> DEFINE appended == AppendAtomToEveryToken(lists)
<1>1. appended = [i \in DOMAIN lists |-> Append(lists[i], ConnectingAtom)]
  BY DEF AppendAtomToEveryToken
<1>2. ASSUME NEW i \in DOMAIN lists
      PROVE  /\ appended[i] \in Seq(Int)
             /\ DOMAIN lists[i] = 1..Len(lists[i]) /\ Len(lists[i]) \in Nat
             /\ Len(appended[i]) = Len(lists[i]) + 1
             /\ DOMAIN appended[i] = 1..(Len(lists[i]) + 1)
             /\ appended[i][Len(lists[i]) + 1] = ConnectingAtom
             /\ \A p \in DOMAIN lists[i] : appended[i][p] = lists[i][p]
  <2>1. lists[i] \in Seq(Int) /\ appended[i] = Append(lists[i], ConnectingAtom)
    BY <1>1
  <2> HIDE DEF appended
  <2> QED  BY <2>1
<1>3. DOMAIN lists = 1..Len(lists) /\ Len(lists) \in Nat
  OBVIOUS
<1>4. appended \in [1..Len(lists) -> Seq(Int)]
  <2>1. DOMAIN appended = 1..Len(lists) /\ appended = [i \in DOMAIN appended |-> appended[i]]
    BY <1>1, <1>3
  <2> HIDE DEF appended
  <2> QED  BY <1>2, <1>3, <2>1
<1> HIDE DEF appended
<1>5. appended \in Seq(Seq(Int)) /\ DOMAIN appended = DOMAIN lists
  BY <1>3, <1>4, IsSequence
<1> QED  BY <1>2, <1>5 DEF appended

LEMMA ConnectingAtomAppended ==
    ASSUME NEW lists \in Seq(Seq(Int)), ConnectingAtom \in Nat, NEW i \in DOMAIN lists
    PROVE  /\ ConnectingAtom \in Range(AppendAtomToEveryToken(lists)[i])
           /\ ConnectingAtom \in AtomsOf(AppendAtomToEveryToken(lists))
<1> DEFINE appended == AppendAtomToEveryToken(lists)
           last == Len(lists[i]) + 1
<1>1. /\ Len(lists[i]) \in Nat /\ DOMAIN appended[i] = 1..last
      /\ appended[i][last] = ConnectingAtom /\ i \in DOMAIN appended
  BY AppendedAtoms
<1> HIDE DEF appended
<1>2. last \in 1..last
  BY <1>1
<1> HIDE DEF last
<1>3. ConnectingAtom \in Range(appended[i])
  BY <1>1, <1>2 DEF Range
<1> QED  BY <1>1, <1>3 DEF appended, AtomsOf

Comparable(first, second) ==
    first \in Outcomes /\ second \in Outcomes /\ NeedsSearch(first, second)

\* A comparison is a search as any other, and its inputs are connected.
LEMMA ComparisonIsSearch ==
    ASSUME NEW first, NEW second, Comparable(first, second), problem = SearchFor(first, second)
    PROVE  ProblemSound /\ Connected
<1> DEFINE inputs == AppendAtomToEveryToken(first)
           named == AppendAtomToEveryToken(second)
           tokens == InstantiatePatternAtoms(named)
<1>1. /\ first \in Seq(Seq(Int)) /\ second \in Seq(Seq(Int)) /\ ConnectingAtom \in Nat
      /\ Len(first) = Len(second) /\ first # <<>>
  BY OutcomesAssumption DEF Comparable, NeedsSearch
<1>2. /\ problem = [inputs |-> inputs, tokens |-> tokens, newTokens |-> {1}, apart |-> {}]
  BY DEF SearchFor
<1>3. /\ inputs \in Seq(Seq(Int)) /\ DOMAIN inputs = DOMAIN first
      /\ \A i \in DOMAIN first : ConnectingAtom \in Range(inputs[i])
  BY <1>1, AppendedAtoms, ConnectingAtomAppended
<1>4. 1 \in DOMAIN second /\ DOMAIN named = DOMAIN second /\ named \in Seq(Seq(Int))
  BY <1>1, AppendedAtoms
<1>5. ConnectingAtom \in AtomsOf(named)
  BY <1>1, <1>4, ConnectingAtomAppended
<1>6. tokens \in Seq(Seq(Nat)) /\ DOMAIN tokens = DOMAIN second
  BY <1>1, <1>4, <1>5, PatternsNamed DEF NamedAtPlaces
<1> HIDE DEF inputs, tokens
<1>7. ProblemSound
  <2>1. problem \in SearchProblem
    BY <1>2, <1>3, <1>6 DEF SearchProblem
  <2> QED  BY <1>2, <1>4, <1>6, <2>1 DEF ProblemSound, TokenIDs
<1>8. Connected
  <2> SUFFICES ASSUME NEW part \in SUBSET DOMAIN problem.inputs,
                      part \notin {{}, DOMAIN problem.inputs}
               PROVE  \E i \in part, j \in DOMAIN problem.inputs \ part : SharesAtoms(i, j)
    BY DEF Connected
  <2>1. PICK i \in part : TRUE
    OBVIOUS
  <2>2. PICK j \in DOMAIN problem.inputs : j \notin part
    OBVIOUS
  <2>3. SharesAtoms(i, j)
    BY <1>2, <1>3, <2>1, <2>2 DEF SharesAtoms
  <2> QED  BY <2>1, <2>2, <2>3
<1> QED  BY <1>7, <1>8

\* The matches of a comparison are the ways in which the first outcome maps onto the
\* second: what was added to make it a search connects the tokens, and keeps the
\* atoms of the first from being the names of patterns of the second.
LEMMA MatchIsMapping ==
    ASSUME NEW first, NEW second, Comparable(first, second), problem = SearchFor(first, second),
           NEW order
    PROVE  order \in AllMatches <=>
             order \in Arrangements(first, second) /\ Fits(first, Arranged(second, order))
<1> DEFINE inputs == AppendAtomToEveryToken(first)
           named == AppendAtomToEveryToken(second)
           tokens == InstantiatePatternAtoms(named)
<1>1. /\ first \in Seq(Seq(Int)) /\ second \in Seq(Seq(Int)) /\ ConnectingAtom \in Nat
      /\ Len(first) = Len(second) /\ first # <<>>
      /\ DOMAIN first = 1..Len(first) /\ DOMAIN second = 1..Len(first) /\ Len(first) \in Nat
  BY OutcomesAssumption DEF Comparable, NeedsSearch
<1>2. /\ problem = [inputs |-> inputs, tokens |-> tokens, newTokens |-> {1}, apart |-> {}]
  BY DEF SearchFor
<1>3. /\ DOMAIN inputs = DOMAIN first
      /\ \A i \in DOMAIN first :
           /\ DOMAIN first[i] = 1..Len(first[i]) /\ Len(first[i]) \in Nat
           /\ Len(inputs[i]) = Len(first[i]) + 1
           /\ DOMAIN inputs[i] = 1..(Len(first[i]) + 1)
           /\ inputs[i][Len(first[i]) + 1] = ConnectingAtom
           /\ \A p \in DOMAIN first[i] : inputs[i][p] = first[i][p]
  BY <1>1, AppendedAtoms
<1>4. /\ named \in Seq(Seq(Int)) /\ DOMAIN named = DOMAIN second
      /\ \A i \in DOMAIN second :
           /\ DOMAIN second[i] = 1..Len(second[i]) /\ Len(second[i]) \in Nat
           /\ Len(named[i]) = Len(second[i]) + 1
           /\ DOMAIN named[i] = 1..(Len(second[i]) + 1)
           /\ named[i][Len(second[i]) + 1] = ConnectingAtom
           /\ \A p \in DOMAIN second[i] : named[i][p] = second[i][p]
  BY <1>1, AppendedAtoms
<1>5. ConnectingAtom \in AtomsOf(named)
  <2>1. 1 \in DOMAIN second
    BY <1>1
  <2> QED  BY <1>1, <2>1, ConnectingAtomAppended
<1>6. NamedAtPlaces(tokens, named)
  BY <1>1, <1>4, <1>5, PatternsNamed
<1>7. DOMAIN tokens = DOMAIN second
  BY <1>4, <1>6 DEF NamedAtPlaces
<1>8. \A i \in DOMAIN first : \A p \in DOMAIN first[i] :
        first[i][p] \in Int /\ first[i][p] < ConnectingAtom
  <2>1. \A i \in DOMAIN first : \A p \in DOMAIN first[i] : first[i][p] \in AtomsOf(first)
    BY DEF AtomsOf, Range
  <2>2. \A i \in DOMAIN first : \A p \in DOMAIN first[i] : first[i][p] \in Int
    BY <1>1
  <2> QED  BY <2>1, <2>2, OutcomesAssumption DEF Comparable
<1>9. \A k \in DOMAIN second : \A p \in DOMAIN second[k] : second[k][p] \in Int
  BY <1>1
<1> HIDE DEF inputs, tokens, named
<1>10. /\ InputIDs = DOMAIN first /\ TokenIDs = DOMAIN second
       /\ Tuples = [DOMAIN first -> DOMAIN second]
  BY <1>2, <1>3, <1>7 DEF InputIDs, TokenIDs, Tuples
<1>11. /\ problem.inputs = inputs /\ problem.newTokens = {1}
       /\ \A i, j \in InputIDs : {order[i], order[j]} \notin problem.apart
  BY <1>2
<1>12. ASSUME order \in Arrangements(first, second)
       PROVE  \E i \in InputIDs : order[i] \in problem.newTokens
  <2>1. IsFiniteSet(DOMAIN first)
    BY <1>1, FS_Interval
  <2>2. order \in Injection(DOMAIN first, DOMAIN first)
    BY <1>1, <1>12 DEF Injection, Arrangements
  <2>3. order \in Surjection(DOMAIN first, DOMAIN first)
    BY <2>1, <2>2, FS_Injection
  <2>4. 1 \in DOMAIN first
    BY <1>1
  <2> QED  BY <1>10, <1>11, <2>3, <2>4 DEF Surjection
<1>13. ASSUME order \in Tuples
       PROVE  FitsAtPlaces(inputs, TokensAt(order)) <=>
                FitsAtPlaces(first, Arranged(second, order))
  <2> DEFINE atoms(i) == tokens[order[i]]
             goal(i) == second[order[i]]
  <2>1. /\ \A i \in DOMAIN first : TokensAt(order)[i] = atoms(i)
        /\ \A i \in DOMAIN first : Arranged(second, order)[i] = goal(i)
    BY <1>2, <1>10, <1>13 DEF TokensAt, Arranged
  <2>2. \A i \in DOMAIN first : order[i] \in DOMAIN second /\ order[i] \in DOMAIN named
    BY <1>4, <1>10, <1>13
  <2>3. \A i \in DOMAIN first : Len(inputs[i]) = Len(atoms(i)) <=> Len(first[i]) = Len(goal(i))
    <3> SUFFICES ASSUME NEW i \in DOMAIN first
                 PROVE  Len(inputs[i]) = Len(atoms(i)) <=> Len(first[i]) = Len(goal(i))
      OBVIOUS
    <3>1. Len(atoms(i)) = Len(named[order[i]])
      BY <1>6, <2>2 DEF NamedAtPlaces
    <3>2. Len(inputs[i]) = Len(first[i]) + 1 /\ Len(named[order[i]]) = Len(goal(i)) + 1
          /\ Len(first[i]) \in Nat /\ Len(goal(i)) \in Nat
      BY <1>3, <1>4, <2>2
    <3> HIDE DEF atoms, goal
    <3> QED  BY <3>1, <3>2
  <2>4. ASSUME NEW i \in DOMAIN first, Len(first[i]) = Len(goal(i))
        PROVE  /\ \A p \in DOMAIN first[i] :
                    /\ p \in DOMAIN inputs[i] /\ inputs[i][p] = first[i][p]
                    /\ p \in DOMAIN named[order[i]] /\ named[order[i]][p] = goal(i)[p]
                    /\ goal(i)[p] \in Int
               /\ \A p \in DOMAIN inputs[i] :
                    /\ p \in DOMAIN named[order[i]]
                    /\ p \notin DOMAIN first[i] =>
                         inputs[i][p] = ConnectingAtom /\ named[order[i]][p] = ConnectingAtom
    <3>1. Len(first[i]) = Len(second[order[i]]) /\ order[i] \in DOMAIN second
      BY <2>2, <2>4
    <3>2. \A p \in DOMAIN inputs[i] : p \in DOMAIN first[i] \/ p = Len(first[i]) + 1
      BY <1>3
    <3>3. \A p \in DOMAIN first[i] : p \in DOMAIN inputs[i] /\ p \in DOMAIN second[order[i]]
      BY <1>3, <1>4, <3>1
    <3> QED  BY <1>3, <1>4, <1>9, <3>1, <3>2, <3>3
  <2>5. ASSUME NEW i \in DOMAIN first, NEW p \in DOMAIN named[order[i]]
        PROVE  IF named[order[i]][p] >= 0 THEN atoms(i)[p] = named[order[i]][p]
               ELSE ConnectingAtom < atoms(i)[p]
    BY <1>5, <1>6, <2>2 DEF NamedAtPlaces
  <2>6. ASSUME NEW i \in DOMAIN first, NEW j \in DOMAIN first,
               NEW p \in DOMAIN named[order[i]], NEW q \in DOMAIN named[order[j]]
        PROVE  named[order[i]][p] = named[order[j]][q] <=> atoms(i)[p] = atoms(j)[q]
    BY <1>6, <2>2 DEF NamedAtPlaces
  <2> HIDE DEF atoms, goal
  <2>7. ASSUME \A i \in DOMAIN first : Len(first[i]) = Len(goal(i)),
               \A i, j \in DOMAIN first : \A p \in DOMAIN first[i], q \in DOMAIN first[j] :
                 /\ first[i][p] >= 0 => goal(i)[p] = first[i][p]
                 /\ first[i][p] = first[j][q] => goal(i)[p] = goal(j)[q]
        PROVE  FitsAtPlaces(inputs, TokensAt(order))
    <3>1. ASSUME NEW i \in DOMAIN first, NEW p \in DOMAIN inputs[i], inputs[i][p] >= 0
          PROVE  atoms(i)[p] = inputs[i][p]
      <4>1. p \in DOMAIN named[order[i]]
        BY <2>4, <2>7
      <4>2. named[order[i]][p] = inputs[i][p]
        BY <2>4, <2>7, <3>1
      <4> QED  BY <2>5, <3>1, <4>1, <4>2
    <3>2. ASSUME NEW i \in DOMAIN first, NEW j \in DOMAIN first,
                 NEW p \in DOMAIN inputs[i], NEW q \in DOMAIN inputs[j],
                 inputs[i][p] = inputs[j][q]
          PROVE  atoms(i)[p] = atoms(j)[q]
      <4>1. CASE p \notin DOMAIN first[i] \/ q \notin DOMAIN first[j]
        <5>1. inputs[i][p] = ConnectingAtom
          BY <2>4, <2>7, <3>2, <4>1
        <5>2. inputs[i][p] >= 0 /\ inputs[j][q] >= 0
          BY <1>1, <3>2, <5>1
        <5> QED  BY <3>1, <3>2, <5>2
      <4>2. CASE p \in DOMAIN first[i] /\ q \in DOMAIN first[j]
        <5>1. /\ named[order[i]][p] = goal(i)[p] /\ p \in DOMAIN named[order[i]]
              /\ named[order[j]][q] = goal(j)[q] /\ q \in DOMAIN named[order[j]]
              /\ first[i][p] = first[j][q]
          BY <2>4, <2>7, <3>2, <4>2
        <5>2. goal(i)[p] = goal(j)[q]
          BY <2>7, <4>2, <5>1
        <5> QED  BY <2>6, <5>1, <5>2
      <4> QED  BY <4>1, <4>2
    <3>3. \A i \in DOMAIN first : Len(inputs[i]) = Len(atoms(i))
      BY <2>3, <2>7
    <3> QED  BY <1>3, <2>1, <3>1, <3>2, <3>3 DEF FitsAtPlaces
  <2>8. ASSUME \A i \in DOMAIN first : Len(inputs[i]) = Len(atoms(i)),
               \A i, j \in DOMAIN first : \A p \in DOMAIN inputs[i], q \in DOMAIN inputs[j] :
                 /\ inputs[i][p] >= 0 => atoms(i)[p] = inputs[i][p]
                 /\ inputs[i][p] = inputs[j][q] => atoms(i)[p] = atoms(j)[q]
        PROVE  FitsAtPlaces(first, Arranged(second, order))
    <3>1. \A i \in DOMAIN first : Len(first[i]) = Len(goal(i))
      BY <2>3, <2>8
    <3>2. ASSUME NEW i \in DOMAIN first, NEW p \in DOMAIN first[i], first[i][p] >= 0
          PROVE  goal(i)[p] = first[i][p]
      <4>1. /\ p \in DOMAIN inputs[i] /\ inputs[i][p] = first[i][p]
            /\ p \in DOMAIN named[order[i]] /\ named[order[i]][p] = goal(i)[p]
            /\ goal(i)[p] \in Int
        BY <2>4, <3>1
      <4>2. atoms(i)[p] = first[i][p] /\ first[i][p] < ConnectingAtom /\ first[i][p] \in Int
        BY <1>8, <2>8, <3>2, <4>1
      <4>3. IF goal(i)[p] >= 0 THEN atoms(i)[p] = goal(i)[p] ELSE ConnectingAtom < atoms(i)[p]
        BY <2>5, <4>1
      <4> QED  BY <1>1, <4>2, <4>3
    <3>3. ASSUME NEW i \in DOMAIN first, NEW j \in DOMAIN first,
                 NEW p \in DOMAIN first[i], NEW q \in DOMAIN first[j], first[i][p] = first[j][q]
          PROVE  goal(i)[p] = goal(j)[q]
      <4>1. /\ p \in DOMAIN inputs[i] /\ inputs[i][p] = first[i][p]
            /\ p \in DOMAIN named[order[i]] /\ named[order[i]][p] = goal(i)[p]
            /\ q \in DOMAIN inputs[j] /\ inputs[j][q] = first[j][q]
            /\ q \in DOMAIN named[order[j]] /\ named[order[j]][q] = goal(j)[q]
        BY <2>4, <3>1
      <4>2. atoms(i)[p] = atoms(j)[q]
        BY <2>8, <3>3, <4>1
      <4> QED  BY <2>6, <4>1, <4>2
    <3> QED  BY <2>1, <3>1, <3>2, <3>3 DEF FitsAtPlaces
  <2>9. FitsAtPlaces(inputs, TokensAt(order)) => FitsAtPlaces(first, Arranged(second, order))
    BY <1>3, <2>1, <2>8 DEF FitsAtPlaces
  <2>10. FitsAtPlaces(first, Arranged(second, order)) => FitsAtPlaces(inputs, TokensAt(order))
    BY <2>1, <2>7 DEF FitsAtPlaces
  <2> QED  BY <2>9, <2>10
<1>14. order \in Arrangements(first, second) <=>
         order \in Tuples /\ \A i, j \in InputIDs : order[i] = order[j] => i = j
  BY <1>10 DEF Arrangements, IsInjective
<1> QED  BY <1>11, <1>12, <1>13, <1>14, FitsByPlaces, MatchParts

\* To rename patterns one to one is to replace each by an atom.
LEMMA RenamingMaps ==
    ASSUME NEW first \in Seq(Seq(Int)), NEW second, EqualUpToNames(first, second)
    PROVE  Fits(first, second)
<1>1. \A place \in Places(first) : AtomAt(first, place) \in Int
  BY PlacesMean
<1>2. ASSUME NEW place \in Places(first), NEW other \in Places(first)
      PROVE  /\ AtomAt(first, place) >= 0 => AtomAt(second, place) = AtomAt(first, place)
             /\ AtomAt(first, place) = AtomAt(first, other) =>
                  AtomAt(second, place) = AtomAt(second, other)
  <2>1. AtomAt(first, place) = AtomAt(second, place) \/ AtomAt(first, place) < 0
    BY DEF EqualUpToNames
  <2>2. AtomAt(first, place) = AtomAt(first, other) <=>
          AtomAt(second, place) = AtomAt(second, other)
    BY DEF EqualUpToNames
  <2> QED  BY <1>1, <2>1, <2>2
<1> QED  BY <1>2 DEF EqualUpToNames, Fits

\* Maps of outcomes compose, as MatchQueue assumes of its SameOutcome.
LEMMA MapsCompose ==
    ASSUME NEW a \in Seq(Seq(Int)), NEW b \in Seq(Seq(Int)), NEW c \in Seq(Seq(Int)),
           MapsOnto(a, b), MapsOnto(b, c)
    PROVE  MapsOnto(a, c)
<1>1. PICK one \in Arrangements(a, b) : Fits(a, Arranged(b, one))
  BY DEF MapsOnto
<1>2. PICK two \in Arrangements(b, c) : Fits(b, Arranged(c, two))
  BY DEF MapsOnto
<1> DEFINE both == [i \in DOMAIN a |-> two[one[i]]]
           middle == Arranged(b, one)
           last == Arranged(c, two)
           end == Arranged(c, both)
<1>3. one \in [DOMAIN a -> DOMAIN b] /\ two \in [DOMAIN b -> DOMAIN c]
  BY DEF Arrangements
<1>4. both \in Arrangements(a, c)
  <2>1. \A i, j \in DOMAIN a : one[i] = one[j] => i = j
    BY <1>3 DEF Arrangements, IsInjective
  <2>2. \A i, j \in DOMAIN b : two[i] = two[j] => i = j
    BY <1>3 DEF Arrangements, IsInjective
  <2> QED  BY <1>3, <2>1, <2>2 DEF Arrangements, IsInjective
<1>5. /\ DOMAIN middle = DOMAIN a /\ DOMAIN last = DOMAIN b /\ DOMAIN end = DOMAIN a
      /\ \A i \in DOMAIN a : middle[i] = b[one[i]] /\ end[i] = last[one[i]]
  BY <1>3 DEF Arranged
<1>6. FitsAtPlaces(a, middle) /\ FitsAtPlaces(b, last)
  BY <1>1, <1>2, FitsByPlaces
<1> HIDE DEF both, middle, last, end
<1>7. \A i \in DOMAIN a : one[i] \in DOMAIN b
  BY <1>3
<1>8. \A i \in DOMAIN a : Len(a[i]) = Len(b[one[i]]) /\ Len(a[i]) = Len(end[i])
  BY <1>5, <1>6, <1>7 DEF FitsAtPlaces
<1>9. \A i \in DOMAIN a : \A p \in DOMAIN a[i] : p \in DOMAIN b[one[i]]
  BY <1>7, <1>8
<1>10. ASSUME NEW i \in DOMAIN a, NEW j \in DOMAIN a, NEW p \in DOMAIN a[i], NEW q \in DOMAIN a[j]
       PROVE  /\ a[i][p] >= 0 => end[i][p] = a[i][p]
              /\ a[i][p] = a[j][q] => end[i][p] = end[j][q]
  <2>1. /\ middle[i] = b[one[i]] /\ middle[j] = b[one[j]]
        /\ end[i] = last[one[i]] /\ end[j] = last[one[j]]
        /\ one[i] \in DOMAIN b /\ one[j] \in DOMAIN b
        /\ p \in DOMAIN b[one[i]] /\ q \in DOMAIN b[one[j]]
    BY <1>5, <1>7, <1>9
  <2>2. /\ a[i][p] >= 0 => middle[i][p] = a[i][p]
        /\ a[i][p] = a[j][q] => middle[i][p] = middle[j][q]
    BY <1>6 DEF FitsAtPlaces
  <2>3. \A k, l \in DOMAIN b : \A r \in DOMAIN b[k], t \in DOMAIN b[l] :
          /\ b[k][r] >= 0 => last[k][r] = b[k][r]
          /\ b[k][r] = b[l][t] => last[k][r] = last[l][t]
    BY <1>6 DEF FitsAtPlaces
  <2>4. /\ b[one[i]][p] >= 0 => last[one[i]][p] = b[one[i]][p]
        /\ b[one[i]][p] = b[one[j]][q] => last[one[i]][p] = last[one[j]][q]
    BY <2>1, <2>3
  <2> QED  BY <2>1, <2>2, <2>4
<1>11. FitsAtPlaces(a, end)
  BY <1>8, <1>10 DEF FitsAtPlaces
<1> QED  BY <1>4, <1>11, FitsByPlaces DEF MapsOnto, end

\* While two outcomes are compared the search is for the one in the other.
ComparisonInvariant ==
    /\ SearchInvariant
    /\ compared # NotCompared =>
         \E first, second \in Outcomes :
           /\ Comparable(first, second) /\ compared = <<first, second>>
           /\ problem = SearchFor(first, second)

LEMMA ComparisonInvariantHolds ==
    SearchOrCompareSpec => []ComparisonInvariant
<1>1. SearchOrCompare => ComparisonInvariant
  <2>1. ASSUME Init, compared = NotCompared
        PROVE  ComparisonInvariant
    BY <2>1, InitSearch DEF ComparisonInvariant
  <2>2. ASSUME NEW first \in Outcomes, NEW second \in Outcomes, NeedsSearch(first, second),
               compared = <<first, second>>, SearchInit({SearchFor(first, second)})
        PROVE  ComparisonInvariant
    <3>1. problem = SearchFor(first, second) /\ SearchStarts
      BY <2>2 DEF SearchInit, SearchStarts
    <3>2. Comparable(first, second)
      BY <2>2 DEF Comparable
    <3>3. ProblemSound
      BY <3>1, <3>2, ComparisonIsSearch
    <3>4. SearchInvariant
      BY <3>1, <3>3, SearchStartsSound
    <3> QED  BY <2>2, <3>1, <3>2, <3>4 DEF ComparisonInvariant
  <2> QED  BY <2>1, <2>2 DEF SearchOrCompare
<1>2. ComparisonInvariant /\ [SearchStep]_vars => ComparisonInvariant'
  <2> SUFFICES ASSUME ComparisonInvariant, [SearchStep]_vars PROVE ComparisonInvariant'
    OBVIOUS
  <2>1. [Next]_searchVars /\ compared' = compared
    BY DEF SearchStep, vars
  <2>2. SearchInvariant'
    BY <2>1, NextKeeps DEF ComparisonInvariant
  <2>3. problem' = problem
    BY <2>1 DEF Next, StartWithNextInput, StartWith, AttemptNext, Attempt, Return, searchVars
  <2> QED  BY <2>1, <2>2, <2>3 DEF ComparisonInvariant
<1> QED  BY <1>1, <1>2, PTL DEF SearchOrCompareSpec

\* The search by which two outputs of events are compared never fails, and finds a
\* match exactly when the patterns of the one can be replaced, each by one atom, to
\* give the other: always when they are isomorphic, and then some
\* (HypergraphMatcher::isomorphic).
THEOREM ComparisonAlwaysExact == SearchOrCompareSpec => []ComparisonIsExact
<1>1. ComparisonInvariant => ComparisonIsExact
  <2> SUFFICES ASSUME ComparisonInvariant, ComparisonEnded
               PROVE  /\ currentError = "None"
                      /\ found # {} <=> MapsOnto(compared[1], compared[2])
                      /\ IsomorphicOutcomes(compared[1], compared[2]) => found # {}
    BY DEF ComparisonIsExact
  <2>1. PICK first \in Outcomes, second \in Outcomes :
          /\ Comparable(first, second) /\ compared = <<first, second>>
          /\ problem = SearchFor(first, second)
    BY DEF ComparisonInvariant, ComparisonEnded
  <2>2. compared[1] = first /\ compared[2] = second
    BY <2>1
  <2>3. SearchInvariant /\ SearchEnded
    BY DEF ComparisonInvariant, ComparisonEnded
  <2>4. currentError = "None"
    <3>1. Connected
      BY <2>1, ComparisonIsSearch
    <3> QED  BY <2>3, <3>1 DEF SearchInvariant, ErrorSound
  <2>5. {match.inputTokens : match \in found} = AllMatches
    BY <2>3, <2>4, InvariantIsExact DEF SearchIsExact
  <2>6. found # {} <=> MapsOnto(first, second)
    <3>1. found # {} <=> AllMatches # {}
      BY <2>5
    <3>2. AllMatches # {} <=> MapsOnto(first, second)
      BY <2>1, MatchIsMapping DEF MapsOnto
    <3> QED  BY <3>1, <3>2
  <2>7. IsomorphicOutcomes(first, second) => MapsOnto(first, second)
    <3>1. first \in Seq(Seq(Int))
      BY OutcomesAssumption
    <3> QED  BY <3>1, RenamingMaps DEF IsomorphicOutcomes, MapsOnto
  <2> QED  BY <2>2, <2>4, <2>6, <2>7
<1> QED  BY <1>1, ComparisonInvariantHolds, PTL

\* Comparisons are searches like those for matches of a rule: they find exactly
\* what fits, and never mind in which order.
THEOREM ComparisonsFindExactly == SearchOrCompareSpec => [](SearchIsExact /\ ErrorOnlyIfDisconnected)
<1>1. ComparisonInvariant => SearchIsExact /\ ErrorOnlyIfDisconnected
  BY InvariantIsExact, InvariantErrors DEF ComparisonInvariant
<1> QED  BY <1>1, ComparisonInvariantHolds, PTL
=============================================================================
