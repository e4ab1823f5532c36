--------------------------- MODULE LibraryTensors ---------------------------
(***************************************************************************)
(* The lists of integers in which the Wolfram Language and libSetReplace   *)
(* exchange rules, tokens, events and step specifications: the functions   *)
(* of WolframLanguageAPI.cpp beside their partners in                      *)
(* setSubstitutionSystem$cpp.m.  Lists start at 1, as they do there; the   *)
(* library's events, rules and tokens start at 0, one below those of the   *)
(* models.                                                                 *)
(***************************************************************************)
EXTENDS Integers, Sequences, SequencesExt

Refused == [ok |-> FALSE]

-----------------------------------------------------------------------------
(* Rules and tokens on the way to the library: lengths before elements.    *)

EncodeNestedLists(lists) ==
    <<Len(lists)>> \o FlattenSeq([i \in DOMAIN lists |-> <<Len(lists[i])>> \o lists[i]])

EncodeRules(rules) ==
    <<Len(rules)>> \o
        FlattenSeq([r \in DOMAIN rules |-> <<2>> \o EncodeNestedLists(rules[r].inputs)
                                                \o EncodeNestedLists(rules[r].outputs)])

EventSelectionCodes(rules) ==
    [r \in DOMAIN rules |-> IF rules[r].spacelike THEN 1 ELSE 0]

\* Where the length of each list is: lists[k] starts after starts[k].  A length
\* outside of the tensor, which getData refuses, puts the rest beyond its end.
StartsOfLists(tensor, index) ==
    LET start[k \in 1..(tensor[index] + 1)] ==
          IF k = 1 THEN index + 1
          ELSE IF start[k - 1] \notin DOMAIN tensor THEN Len(tensor) + 2
          ELSE start[k - 1] + 1 + tensor[start[k - 1]]
    IN  start

\* getNextHypergraph, with the index of the element after it
GetNextHypergraph(tensor, index) ==
    IF index \notin DOMAIN tensor THEN Refused
    ELSE LET count == tensor[index]
             start == StartsOfLists(tensor, index)
         IN  IF start[count + 1] > Len(tensor) + 1 THEN Refused
             ELSE [ok |-> TRUE, next |-> start[count + 1],
                   lists |-> [k \in 1..count |-> SubSeq(tensor, start[k] + 1, start[k + 1] - 1)]]

\* One more rule is read after those of the result so far.
ReadRule(tensor, selection, read) ==
    LET inputs == GetNextHypergraph(tensor, read.next + 1)
        outputs == GetNextHypergraph(tensor, inputs.next)
    IN  IF ~read.ok THEN Refused
        ELSE IF read.next \notin DOMAIN tensor THEN Refused
        ELSE IF tensor[read.next] # 2 \/ ~inputs.ok THEN Refused
        ELSE IF ~outputs.ok THEN Refused
        ELSE [ok |-> TRUE, next |-> outputs.next,
              rules |-> Append(read.rules, [inputs |-> inputs.lists, outputs |-> outputs.lists,
                                            spacelike |-> selection = 1])]

GetRules(tensor, selectionFunctions) ==
    IF tensor = <<>> THEN Refused
    ELSE IF tensor[1] # Len(selectionFunctions) THEN Refused
    ELSE LET read[r \in 0..tensor[1]] ==
               IF r = 0 THEN [ok |-> TRUE, next |-> 2, rules |-> <<>>]
               ELSE ReadRule(tensor, selectionFunctions[r], read[r - 1])
         IN  read[tensor[1]]

\* The ordering of matches: pairs of a function and a direction, in one list.
OrderingFunctions == <<"sortedExpressionIDs", "reverseSortedExpressionIDs", "expressionIDs",
                       "ruleIndex", "any">>
OrderingDirections == <<"forward", "backward">>

EncodeOrderingSpec(spec) ==
    LET Code(name, names) == (CHOOSE i \in DOMAIN names : names[i] = name) - 1
    IN  FlattenSeq([i \in DOMAIN spec |-> <<Code(spec[i].function, OrderingFunctions),
                                            Code(spec[i].direction, OrderingDirections)>>])

GetOrderingSpec(tensor) ==
    IF Len(tensor) % 2 = 1 THEN Refused
    ELSE [ok |-> TRUE, spec |-> [i \in 1..(Len(tensor) \div 2) |->
              [function |-> OrderingFunctions[tensor[2 * i - 1] + 1],
               direction |-> OrderingDirections[tensor[2 * i] + 1]]]]

\* The seed has two digits, of 16 bits in the code.
EncodeSeed(seed, base) == <<seed \div base, seed % base>>

GetSeed(tensor, base) ==
    IF Len(tensor) # 2 THEN Refused
    ELSE [ok |-> TRUE, seed |-> (base * tensor[1] + tensor[2]) % (base * base)]

-----------------------------------------------------------------------------
(* Limits: -1 stands for none, as 64-bit integers may not be passed.       *)

EncodeMaxDestroyerEvents(limit, disabled) == IF limit = disabled THEN -1 ELSE limit
GetMaxDestroyerEvents(code, disabled) == IF code = -1 THEN disabled ELSE code

StepSpecKeys == <<"maxEvents", "maxGenerationsLocal", "maxFinalAtoms",
                  "maxFinalAtomDegree", "maxFinalTokens">>

EncodeStepSpec(spec, disabled) ==
    [k \in DOMAIN StepSpecKeys |->
        IF spec[StepSpecKeys[k]] = disabled THEN -1 ELSE spec[StepSpecKeys[k]]]

GetStepSpec(tensor, disabled) ==
    LET Limit(k) == IF tensor[k] = -1 THEN disabled ELSE tensor[k]
    IN  IF Len(tensor) # 5 \/ \E k \in DOMAIN tensor : Limit(k) < 0 THEN Refused
        ELSE [ok |-> TRUE, spec |-> [maxEvents |-> Limit(1), maxGenerationsLocal |-> Limit(2),
                                     maxFinalAtoms |-> Limit(3), maxFinalAtomDegree |-> Limit(4),
                                     maxFinalTokens |-> Limit(5)]]

-----------------------------------------------------------------------------
(* Tokens and events on the way back: pointers before elements.            *)

LengthBefore(lists, i) == Len(FlattenSeq(SubSeq(lists, 1, i - 1)))

PutHypergraph(lists) ==
    LET firstAtom == 1 + (Len(lists) + 1) + 1
    IN  <<Len(lists)>>
            \o [i \in 1..(Len(lists) + 1) |-> firstAtom + LengthBefore(lists, i)]
            \o FlattenSeq(lists)

DecodeAtomLists(list) ==
    [i \in 1..list[1] |-> SubSeq(list, list[i + 1], list[i + 2] - 1)]

\* The events as the library holds them.
Inputs(events) == [e \in DOMAIN events |-> [i \in DOMAIN events[e].inputTokens |->
                                             events[e].inputTokens[i] - 1]]
Outputs(events) == [e \in DOMAIN events |-> [i \in DOMAIN events[e].outputTokens |->
                                              events[e].outputTokens[i] - 1]]
RuleOf(event) == IF event.rule = -1 THEN -1 ELSE event.rule - 1

\* Mutation: outputs are taken to start where inputs do.
PutEventsFromInputs(events) ==
    LET pointer == 1 + 4 * (Len(events) + 1) + 1
        Pointers(i) == <<pointer + LengthBefore(Inputs(events), i),
                         pointer + LengthBefore(Outputs(events), i)>>
    IN  <<Len(events)>>
            \o FlattenSeq([i \in 1..(Len(events) + 1) |->
                 IF i <= Len(events) THEN <<RuleOf(events[i])>> \o Pointers(i) \o <<events[i].generation>>
                 ELSE <<-2>> \o Pointers(i) \o <<-1>>])
            \o FlattenSeq(Inputs(events)) \o FlattenSeq(Outputs(events))

\* A last event that is none ends the inputs and outputs of the one before.
PutEvents(events) ==
    LET firstInput == 1 + 4 * (Len(events) + 1) + 1
        firstOutput == firstInput + LengthBefore(Inputs(events), Len(events) + 1)
        Pointers(i) == <<firstInput + LengthBefore(Inputs(events), i),
                         firstOutput + LengthBefore(Outputs(events), i)>>
    IN  <<Len(events)>>
            \o FlattenSeq([i \in 1..(Len(events) + 1) |->
                 IF i <= Len(events) THEN <<RuleOf(events[i])>> \o Pointers(i) \o <<events[i].generation>>
                 ELSE <<-2>> \o Pointers(i) \o <<-1>>])
            \o FlattenSeq(Inputs(events)) \o FlattenSeq(Outputs(events))

\* Rules and tokens are counted from 1 again, so that the rule of the initial
\* event becomes 0.
DecodeEvents(list) ==
    LET Field(e, k) == list[4 * (e - 1) + k + 1]
        Tokens(e, k) == LET ids == SubSeq(list, Field(e, k), Field(e + 1, k) - 1)
                        IN  [i \in DOMAIN ids |-> ids[i] + 1]
    IN  [e \in 1..list[1] |-> [rule |-> Field(e, 1) + 1,
                               inputTokens |-> Tokens(e, 2),
                               outputTokens |-> Tokens(e, 3),
                               generation |-> Field(e, 4)]]
=============================================================================
