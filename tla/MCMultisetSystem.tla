-------------------------- MODULE MCMultisetSystem --------------------------
(***************************************************************************)
(* Rules over small integers:                                              *)
(*   "Sum"    {x_, y_} :> {x + y}                                          *)
(*   "Split"  {a__, b__} /; OrderedQ[{a, b}] :> {First[{a}], Last[{b}]}    *)
(*   "Start"  {} :> {0}                                                    *)
(*   "Invert" {x_} :> {Quotient[2, x]}, with a message for 0               *)
(* so that there are matches with several results, without inputs, and     *)
(* ones that fail.                                                         *)
(***************************************************************************)
EXTENDS MultisetSystem

MCReplaceList(rule, contents) ==
    LET n == Len(contents)
    IN  CASE rule = "Sum" /\ n = 2 -> << <<contents[1] + contents[2]>> >>
          [] rule = "Split" /\ n > 1 /\ (\A i \in 1..(n - 1) : contents[i] <= contents[i + 1]) ->
               [k \in 1..(n - 1) |-> <<contents[1], contents[n]>>]
          [] rule = "Start" /\ n = 0 -> << <<0>> >>
          [] rule = "Invert" /\ n = 1 /\ contents[1] # 0 -> << <<2 \div contents[1]>> >>
          [] OTHER -> <<>>

MCInstantiationFails(rule, contents) == rule = "Invert" /\ contents = <<0>>

MCInputCountRange(rule) ==
    CASE rule = "Sum" -> <<2, 2>>
      [] rule = "Split" -> <<2, Infinity>>
      [] rule = "Start" -> <<0, 0>>
      [] rule = "Invert" -> <<1, 1>>

\* maxEvents is finite, as some of these systems never end.
LimitsWith(maxEventInputs) ==
    [maxGeneration : {0, 1, 3}, maxDestroyerEvents : {1, 2},
     minEventInputs : {0, 3}, maxEventInputs : maxEventInputs, maxEvents : {0, 6}]

MCMultisetSystems ==
    [rules : {<<"Start", "Split">>, <<"Split">>, <<>>}, init : {<<1, 2>>, <<1, 2, 3>>},
     parameters : LimitsWith({1, 3})]
    \cup [rules : {<<"Sum">>}, init : {<<1, 2>>, <<1, 2, 3>>}, parameters : LimitsWith({1, Infinity})]
    \cup [rules : {<<"Start", "Invert">>}, init : {<<1>>}, parameters : LimitsWith({1, Infinity})]

MCAtomicStateSystems ==
    [rules : {<<"Invert", "Invert">>}, state : {1, 4}, parameters : LimitsWith({Infinity})]
=============================================================================
