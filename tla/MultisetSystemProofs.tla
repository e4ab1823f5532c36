------------------------ MODULE MultisetSystemProofs ------------------------
(***************************************************************************)
(* Theorems about MultisetSystem, for all rules, initial expressions and   *)
(* limits: the tables of what was tried tell what happened, nothing        *)
(* possible is left when an evaluation is called complete, and every       *)
(* evaluation is one of the causal graph of libSetReplace.                 *)
(*                                                                         *)
(* Rules are known by what they give only.  The theorems assume of them    *)
(* that they turn lists of contents into lists of contents and match no    *)
(* list that is shorter or longer than they say.                           *)
(***************************************************************************)
EXTENDS MultisetSystem, ArithmeticLemmas

\* Contents are closed under the rules.
RulesGiveLists(Contents) ==
    \A s \in Systems :
      /\ s.init \in Seq(Contents)
      /\ \A rule \in ToSet(s.rules), contents \in Seq(Contents) :
           ReplaceList(rule, contents) \in Seq(Seq(Contents))

\* A rule matches no more and no fewer inputs than inputCountRange finds.
RulesKnowTheirInputs(Contents) ==
    \A s \in Systems : \A rule \in ToSet(s.rules), contents \in Seq(Contents) :
      ReplaceList(rule, contents) # <<>> /\ Len(contents) <= s.parameters.maxEventInputs =>
        /\ InputCountRange(rule)[1] <= Len(contents)
        /\ Len(contents) <= InputCountRange(rule)[2]

Inputs == Seq(1..Len(expressions))

EventsTyped ==
    /\ Len(eventInputs) \in Nat \ {0}
    /\ eventRuleIndices \in Seq(Nat) /\ Len(eventRuleIndices) = Len(eventInputs)
    /\ eventInputs \in Seq(Inputs)
    /\ eventOutputs \in Seq(Inputs) /\ Len(eventOutputs) = Len(eventInputs)
    /\ eventGenerations \in Seq(Nat) /\ Len(eventGenerations) = Len(eventInputs)
    /\ eventRuleIndices[1] = 0
    /\ \A e \in 2..Len(eventInputs) : eventRuleIndices[e] \in Rules

ExpressionsTyped(Contents) ==
    /\ expressions \in Seq(Contents)
    /\ expressionCreatorEvents \in Seq(1..Len(eventInputs))
    /\ Len(expressionCreatorEvents) = Len(expressions)
    /\ expressionDestroyerEventCounts \in Seq(Nat)
    /\ Len(expressionDestroyerEventCounts) = Len(expressions)

\* The destroyers that some of the expressions before n have among the events before m.
ChoiceFunctions(n, m) == UNION {[known -> 1..m] : known \in SUBSET (1..n)}

ChoicesTyped ==
    /\ destroyerChoices \in Seq(ChoiceFunctions(Len(expressions), Len(eventInputs)))
    /\ Len(destroyerChoices) = Len(eventInputs)

TablesTyped ==
    /\ DOMAIN instantiationCounts \subseteq [rule : Rules, inputs : Inputs]

SystemTyped(Contents) ==
    /\ system \in Systems
    /\ EventsTyped /\ ExpressionsTyped(Contents) /\ ChoicesTyped /\ TablesTyped
    /\ terminationReason \in {"none", "Complete", "Failure", "MaxEvents"}

DestroyersOf(expression) == {e \in DOMAIN eventInputs : expression \in ToSet(eventInputs[e])}

DestroyersCounted ==
    \A id \in DOMAIN expressions :
        expressionDestroyerEventCounts[id] = Cardinality(DestroyersOf(id))

-----------------------------------------------------------------------------
(* Numbers of inputs and the order of keys.                                *)

LEMMA SystemTypes ==
    ASSUME system \in Systems
    PROVE  /\ Infinity \in Nat
           /\ Len(system.rules) \in 0..Infinity /\ Rules = 1..Len(system.rules)
           /\ \A r \in Rules : system.rules[r] \in ToSet(system.rules)
           /\ \A limit \in {Parameters.maxGeneration, Parameters.maxDestroyerEvents,
                            Parameters.minEventInputs, Parameters.maxEventInputs,
                            Parameters.maxEvents} : limit \in 0..Infinity
           /\ \A r \in Rules : /\ InputCountRange(system.rules[r])[1] \in 0..Infinity
                               /\ InputCountRange(system.rules[r])[2] \in 0..Infinity
<1>1. /\ Infinity \in Nat
      /\ system.rules \in Seq(ToSet(system.rules)) /\ Len(system.rules) <= Infinity
      /\ system.parameters \in [maxGeneration : 0..Infinity, maxDestroyerEvents : 0..Infinity,
                                minEventInputs : 0..Infinity, maxEventInputs : 0..Infinity,
                                maxEvents : 0..Infinity]
      /\ \A rule \in ToSet(system.rules) : InputCountRange(rule) \in (0..Infinity) \X (0..Infinity)
  BY SystemsAssumption
<1>2. Len(system.rules) \in 0..Infinity /\ Rules = 1..Len(system.rules)
  BY <1>1 DEF Rules
<1>3. \A r \in Rules : system.rules[r] \in ToSet(system.rules)
  BY DEF Rules, ToSet
<1>4. \A limit \in {Parameters.maxGeneration, Parameters.maxDestroyerEvents,
                    Parameters.minEventInputs, Parameters.maxEventInputs,
                    Parameters.maxEvents} : limit \in 0..Infinity
  BY <1>1 DEF Parameters
<1>5. \A r \in Rules : /\ InputCountRange(system.rules[r])[1] \in 0..Infinity
                       /\ InputCountRange(system.rules[r])[2] \in 0..Infinity
  BY <1>1, <1>3
<1> QED  BY <1>1, <1>2, <1>3, <1>4, <1>5

\* The least and the largest element of a bounded set are what they should be.
LEMMA MinIsLeast ==
    ASSUME NEW S \in SUBSET Nat, S # {}
    PROVE  Min(S) \in S /\ \A x \in S : Min(S) <= x
<1>1. \E x \in S : \A y \in S : x <= y
  BY LeastOf
<1> QED  BY <1>1 DEF Min

LEMMA MaxIsLargest ==
    ASSUME NEW S \in SUBSET Nat, S # {}, NEW bound \in Nat, \A x \in S : x <= bound
    PROVE  Max(S) \in S /\ \A x \in S : x <= Max(S)
<1>1. \E x \in S : \A y \in S : y <= x
  BY LargestElement
<1>2. \E x \in S : \A y \in S : x >= y
  BY <1>1
<1> QED  BY <1>2 DEF Max

\* The numbers of inputs that are tried are those the parameters admit and
\* that some rule may have.
LEMMA TriedCounts ==
    ASSUME system \in Systems, Len(expressions) \in Nat
    PROVE  /\ MinEventInputs \in Nat /\ MaxEventInputs \in Nat
           /\ Parameters.minEventInputs <= MinEventInputs
           /\ MaxEventInputs <= Parameters.maxEventInputs /\ MaxEventInputs <= Len(expressions)
           /\ \A n \in Nat : \A r \in Rules :
                /\ Parameters.minEventInputs <= n
                /\ n <= Parameters.maxEventInputs /\ n <= Len(expressions)
                /\ InputCountRange(system.rules[r])[1] <= n
                /\ n <= InputCountRange(system.rules[r])[2]
                => n \in MinEventInputs..MaxEventInputs
<1> DEFINE Least == {Infinity} \cup {InputCountRange(system.rules[r])[1] : r \in Rules}
           Largest == {0} \cup {InputCountRange(system.rules[r])[2] : r \in Rules}
           AtLeast == {Parameters.minEventInputs, Min(Least)}
           AtMost == {Parameters.maxEventInputs, Len(expressions), Max(Largest)}
<1>1. /\ Infinity \in Nat /\ Least \in SUBSET Nat /\ Least # {}
      /\ Largest \in SUBSET Nat /\ Largest # {} /\ \A x \in Largest : x <= Infinity
      /\ Parameters.minEventInputs \in Nat /\ Parameters.maxEventInputs \in Nat
  <2>1. /\ Infinity \in Nat
        /\ Parameters.minEventInputs \in 0..Infinity /\ Parameters.maxEventInputs \in 0..Infinity
    BY SystemTypes
  <2>2. \A r \in Rules : /\ InputCountRange(system.rules[r])[1] \in 0..Infinity
                         /\ InputCountRange(system.rules[r])[2] \in 0..Infinity
    BY SystemTypes
  <2>3. Least \in SUBSET Nat /\ Least # {}  BY <2>1, <2>2
  <2>4. Largest \in SUBSET Nat /\ Largest # {} /\ \A x \in Largest : x <= Infinity  BY <2>1, <2>2
  <2> HIDE DEF Least, Largest
  <2> QED  BY <2>1, <2>3, <2>4
<1>2. Min(Least) \in Least /\ (\A x \in Least : Min(Least) <= x)
  <2> HIDE DEF Least
  <2> QED  BY <1>1, MinIsLeast
<1>3. Max(Largest) \in Largest /\ (\A x \in Largest : x <= Max(Largest))
  <2> HIDE DEF Largest
  <2> QED  BY <1>1, MaxIsLargest
<1>4. Min(Least) \in Nat /\ Max(Largest) \in Nat
  <2> HIDE DEF Least, Largest
  <2> QED  BY <1>1, <1>2, <1>3
<1>5. \E b \in Nat : \A x \in AtLeast : x <= b
  <2> HIDE DEF Least, Largest
  <2>1. Parameters.minEventInputs + Min(Least) \in Nat  BY <1>1, <1>4
  <2>2. \A x \in AtLeast : x <= Parameters.minEventInputs + Min(Least)  BY <1>1, <1>4
  <2> QED  BY <2>1, <2>2
<1>6. Max(AtLeast) \in AtLeast /\ \A x \in AtLeast : x <= Max(AtLeast)
  <2> HIDE DEF Least, Largest
  <2>1. AtLeast \in SUBSET Nat /\ AtLeast # {}  BY <1>1, <1>4
  <2> HIDE DEF AtLeast
  <2> QED  BY <2>1, <1>5, MaxIsLargest
<1>7. Min(AtMost) \in AtMost /\ \A x \in AtMost : Min(AtMost) <= x
  <2> HIDE DEF Least, Largest
  <2>1. AtMost \in SUBSET Nat /\ AtMost # {}  BY <1>1, <1>4
  <2> HIDE DEF AtMost
  <2> QED  BY <2>1, MinIsLeast
<1>8. MinEventInputs = Max(AtLeast) /\ MaxEventInputs = Min(AtMost)
  BY DEF MinEventInputs, MaxEventInputs
<1>9. \A r \in Rules : /\ InputCountRange(system.rules[r])[1] \in Least
                       /\ InputCountRange(system.rules[r])[2] \in Largest
  OBVIOUS
<1> HIDE DEF Least, Largest
<1>10. /\ \A r \in Rules : /\ InputCountRange(system.rules[r])[1] \in Nat
                           /\ InputCountRange(system.rules[r])[2] \in Nat
                           /\ Min(Least) <= InputCountRange(system.rules[r])[1]
                           /\ InputCountRange(system.rules[r])[2] <= Max(Largest)
  BY <1>1, <1>2, <1>3, <1>9
<1>11. /\ MinEventInputs \in Nat /\ MaxEventInputs \in Nat
       /\ Parameters.minEventInputs <= MinEventInputs
       /\ MaxEventInputs <= Parameters.maxEventInputs /\ MaxEventInputs <= Len(expressions)
       /\ MinEventInputs = Parameters.minEventInputs \/ MinEventInputs = Min(Least)
       /\ \/ MaxEventInputs = Parameters.maxEventInputs
          \/ MaxEventInputs = Len(expressions) \/ MaxEventInputs = Max(Largest)
  BY <1>1, <1>4, <1>6, <1>7, <1>8
<1>12. ASSUME NEW n \in Nat, NEW r \in Rules,
              Parameters.minEventInputs <= n,
              n <= Parameters.maxEventInputs, n <= Len(expressions),
              InputCountRange(system.rules[r])[1] <= n,
              n <= InputCountRange(system.rules[r])[2]
       PROVE  n \in MinEventInputs..MaxEventInputs
  <2>1. Min(Least) <= n /\ n <= Max(Largest)
    BY <1>4, <1>10, <1>12
  <2> QED  BY <1>1, <1>4, <1>11, <1>12, <2>1
<1> QED  BY <1>11, <1>12

LEMMA KeysTyped ==
    ASSUME system \in Systems, NEW Contents, expressions \in Seq(Contents)
    PROVE  \A key \in PossibleKeys :
             /\ key.rule \in Rules /\ key.inputs \in Inputs
             /\ \A i, j \in DOMAIN key.inputs : key.inputs[i] = key.inputs[j] => i = j
             /\ key = [rule |-> key.rule, inputs |-> key.inputs]
             /\ key \in [rule : Rules, inputs : Inputs]
<1> SUFFICES ASSUME NEW key \in PossibleKeys
             PROVE  /\ key.rule \in Rules /\ key.inputs \in Inputs
                    /\ \A i, j \in DOMAIN key.inputs : key.inputs[i] = key.inputs[j] => i = j
                    /\ key = [rule |-> key.rule, inputs |-> key.inputs]
                    /\ key \in [rule : Rules, inputs : Inputs]
  OBVIOUS
<1>1. Len(expressions) \in Nat /\ DOMAIN expressions = 1..Len(expressions)
  OBVIOUS
<1>2. PICK k \in MinEventInputs..MaxEventInputs : key.inputs \in InjectiveTuples(k)
  BY DEF PossibleKeys
<1>3. key.rule \in Rules /\ key = [rule |-> key.rule, inputs |-> key.inputs]
  BY DEF PossibleKeys
<1>4. k \in Nat  BY <1>1, TriedCounts
<1>5. key.inputs \in [1..k -> 1..Len(expressions)] /\ IsInjective(key.inputs)
  BY <1>1, <1>2 DEF InjectiveTuples
<1>6. key.inputs \in Inputs
  BY <1>4, <1>5 DEF Inputs
<1> QED  BY <1>3, <1>5, <1>6 DEF IsInjective

\* Of two keys not both are tried before the other.
LEMMA TriedOneByOne ==
    ASSUME NEW n \in Nat, NEW a, NEW b, a.inputs \in Seq(1..n), b.inputs \in Seq(1..n),
           a.rule \in Nat, b.rule \in Nat, TriedBefore(a, b)
    PROVE  ~TriedBefore(b, a)
<1> DEFINE s == a.inputs
           t == b.inputs
           S == ToSet(s)
           T == ToSet(t)
<1>1. /\ Len(s) \in Nat /\ Len(t) \in Nat /\ DOMAIN s = 1..Len(s) /\ DOMAIN t = 1..Len(t)
      /\ \A i \in 1..Len(s) : s[i] \in Nat
      /\ \A i \in 1..Len(t) : t[i] \in Nat
  OBVIOUS
<1>2. S \subseteq Nat /\ T \subseteq Nat
  BY <1>1 DEF ToSet
<1>3. ~(ListedBefore(S, T) /\ ListedBefore(T, S)) /\ ~ListedBefore(S, S) /\ ~ListedBefore(T, T)
  <2> HIDE DEF S, T
  <2> QED  BY <1>2 DEF ListedBefore
<1>4. ASSUME Len(s) = Len(t), LexicographicallyBefore(s, t), LexicographicallyBefore(t, s)
      PROVE  FALSE
  <2>1. PICK i \in 1..Len(s) : s[i] < t[i] /\ \A j \in 1..(i - 1) : s[j] = t[j]
    BY <1>1, <1>4 DEF LexicographicallyBefore
  <2>2. PICK k \in 1..Len(s) : t[k] < s[k] /\ \A j \in 1..(k - 1) : t[j] = s[j]
    BY <1>1, <1>4 DEF LexicographicallyBefore
  <2>3. s[i] \in Nat /\ t[i] \in Nat /\ s[k] \in Nat /\ t[k] \in Nat
    BY <1>1, <1>4
  <2> HIDE DEF s, t
  <2>4. CASE i < k
    <3>1. i \in 1..(k - 1)  BY <2>4
    <3> QED  BY <2>1, <2>2, <2>3, <3>1
  <2>5. CASE k < i
    <3>1. k \in 1..(i - 1)  BY <2>5
    <3> QED  BY <2>1, <2>2, <2>3, <3>1
  <2>6. CASE k = i
    BY <2>1, <2>2, <2>3, <2>6
  <2> QED  BY <2>4, <2>5, <2>6
<1>5. s = t => ~LexicographicallyBefore(s, t) /\ ~LexicographicallyBefore(t, s)
  <2> HIDE DEF S, T
  <2> QED  BY <1>1, <1>4
<1>6. \/ Len(s) < Len(t)
      \/ /\ Len(s) = Len(t)
         /\ \/ ListedBefore(S, T)
            \/ S = T /\ LexicographicallyBefore(s, t)
            \/ s = t /\ a.rule < b.rule
  BY DEF TriedBefore
<1>7. TriedBefore(b, a) =>
        \/ Len(t) < Len(s)
        \/ /\ Len(t) = Len(s)
           /\ \/ ListedBefore(T, S)
              \/ T = S /\ LexicographicallyBefore(t, s)
              \/ t = s /\ b.rule < a.rule
  BY DEF TriedBefore
<1>8. s = t => S = T  OBVIOUS
<1>9. a.rule < b.rule => ~(b.rule < a.rule)
  OBVIOUS
<1>10. \A m, k \in Nat : m < k => ~(k < m) /\ k # m
  OBVIOUS
<1>11. Len(s) \in Nat /\ Len(t) \in Nat
  BY <1>1
<1> HIDE DEF s, t, S, T
<1>12. CASE Len(s) < Len(t)
  <2>1. ~(Len(t) < Len(s)) /\ Len(t) # Len(s)  BY <1>10, <1>11, <1>12, Zenon
  <2> QED  BY <1>7, <2>1, Zenon
<1>13. CASE Len(s) = Len(t) /\ ListedBefore(S, T)
  BY <1>1, <1>3, <1>7, <1>8, <1>13
<1>14. CASE Len(s) = Len(t) /\ S = T /\ LexicographicallyBefore(s, t)
  <2>1. ~(Len(t) < Len(s))  BY <1>1, <1>14
  <2> QED  BY <1>3, <1>4, <1>5, <1>7, <1>14, <2>1, Zenon
<1>15. CASE Len(s) = Len(t) /\ s = t /\ a.rule < b.rule
  <2>1. ~(Len(t) < Len(s))  BY <1>1, <1>15
  <2> QED  BY <1>3, <1>5, <1>7, <1>8, <1>9, <1>15, <2>1, Zenon
<1> QED  BY <1>6, <1>12, <1>13, <1>14, <1>15, Zenon

-----------------------------------------------------------------------------
(* Sequences that grow.                                                    *)

LEMMA Joined ==
    ASSUME NEW S, NEW s \in Seq(S), NEW t \in Seq(S)
    PROVE  /\ s \o t \in Seq(S) /\ Len(s \o t) = Len(s) + Len(t) /\ Len(s \o t) \in Nat
           /\ DOMAIN (s \o t) = 1..(Len(s) + Len(t))
           /\ \A i \in 1..Len(s) : (s \o t)[i] = s[i]
           /\ \A i \in 1..Len(t) : (s \o t)[Len(s) + i] = t[i]
OBVIOUS

LEMMA Lengthened ==
    ASSUME NEW S, NEW s \in Seq(S), NEW x \in S
    PROVE  /\ Append(s, x) \in Seq(S) /\ Len(Append(s, x)) = Len(s) + 1
           /\ DOMAIN Append(s, x) = 1..(Len(s) + 1)
           /\ \A i \in 1..Len(s) : Append(s, x)[i] = s[i]
           /\ Append(s, x)[Len(s) + 1] = x
OBVIOUS

LEMMA ListOf ==
    ASSUME NEW S, NEW n \in Nat, NEW f \in [1..n -> S]
    PROVE  f \in Seq(S) /\ Len(f) = n /\ DOMAIN f = 1..n
OBVIOUS

LEMMA LargerSeq ==
    ASSUME NEW S, NEW T, S \subseteq T, NEW s \in Seq(S)
    PROVE  s \in Seq(T)
OBVIOUS

-----------------------------------------------------------------------------
(* What is remembered of a key when it is tried.                           *)

\* What the rule gives for the contents of inputs.
LEMMA ResultsTyped ==
    ASSUME NEW Contents, RulesGiveLists(Contents), system \in Systems,
           expressions \in Seq(Contents), NEW key \in [rule : Rules, inputs : Inputs]
    PROVE  /\ ReplacedBy(key) \in Seq(Seq(Contents))
           /\ Len(ReplacedBy(key)) \in Nat
           /\ InputContents(key) \in Seq(Contents) /\ Len(InputContents(key)) = Len(key.inputs)
           /\ system.rules[key.rule] \in ToSet(system.rules)
<1>1. key.rule \in Rules /\ key.inputs \in Inputs
  OBVIOUS
<1>2. /\ Len(key.inputs) \in Nat /\ DOMAIN key.inputs = 1..Len(key.inputs)
      /\ \A i \in 1..Len(key.inputs) : key.inputs[i] \in 1..Len(expressions)
  BY <1>1 DEF Inputs
<1>3. \A i \in 1..Len(expressions) : expressions[i] \in Contents
  OBVIOUS
<1>4. InputContents(key) \in [1..Len(key.inputs) -> Contents]
  BY <1>2, <1>3 DEF InputContents
<1>5. InputContents(key) \in Seq(Contents) /\ Len(InputContents(key)) = Len(key.inputs)
  BY <1>2, <1>4, ListOf
<1>6. system.rules[key.rule] \in ToSet(system.rules)
  BY <1>1, SystemTypes
<1>7. ReplacedBy(key) \in Seq(Seq(Contents))
  BY <1>5, <1>6 DEF ReplacedBy, RulesGiveLists
<1> QED  BY <1>5, <1>6, <1>7

LEMMA EventsOfFinite ==
    ASSUME Len(eventInputs) \in Nat, DOMAIN eventInputs = 1..Len(eventInputs), NEW key
    PROVE  /\ EventsOf(key) \subseteq 1..Len(eventInputs)
           /\ IsFiniteSet(EventsOf(key)) /\ Cardinality(EventsOf(key)) \in Nat
<1>1. EventsOf(key) \subseteq 1..Len(eventInputs)
  BY DEF EventsOf
<1>2. IsFiniteSet(1..Len(eventInputs))
  <2>1. 1 \in Int /\ Len(eventInputs) \in Int  OBVIOUS
  <2> QED  BY <2>1, FS_Interval
<1> QED  BY <1>1, <1>2, FS_Subset, FS_CardinalityType

\* A match that is tried has no events, and was never found impossible, unless
\* its results are stored.
LEMMA NeverTried ==
    ASSUME NEW Contents, SystemTyped(Contents), TablesAreExact,
           NEW key \in TriedKeys, ~Stored(key)
    PROVE  /\ key \notin DOMAIN instantiationCounts
           /\ EventsOf(key) = {} /\ InstantiationCount(key) = 0
<1>1. key \notin DOMAIN instantiationCounts
  BY DEF TriedKeys, TablesAreExact, Stored, InstantiationCount
<1>2. /\ key.rule \in Rules /\ key = [rule |-> key.rule, inputs |-> key.inputs]
  BY KeysTyped DEF TriedKeys, SystemTyped, ExpressionsTyped
<1>3. ASSUME NEW e \in EventsOf(key) PROVE FALSE
  <2>1. /\ e \in 1..Len(eventInputs) /\ eventRuleIndices[e] = key.rule /\ eventInputs[e] = key.inputs
    BY DEF EventsOf, SystemTyped, EventsTyped
  <2>2. e # 1
    <3>1. eventRuleIndices[1] = 0 /\ system \in Systems  BY DEF SystemTyped, EventsTyped
    <3>2. Rules = 1..Len(system.rules)  BY <3>1, SystemTypes
    <3> QED  BY <1>2, <2>1, <3>1, <3>2
  <2>3. e \in 2..Len(eventInputs)  BY <2>1, <2>2
  <2>4. [rule |-> eventRuleIndices[e], inputs |-> eventInputs[e]] \in DOMAIN instantiationCounts
    BY <2>3 DEF TablesAreExact
  <2> QED  BY <1>1, <1>2, <2>1, <2>4
<1> QED  BY <1>1, <1>3 DEF InstantiationCount

\* The next result of a match that is possible.
LEMMA NextResult ==
    ASSUME NEW Contents, RulesGiveLists(Contents), SystemTyped(Contents), TablesAreExact,
           NEW key \in TriedKeys, CanInstantiate(key)
    PROVE  /\ Stored(key) => instantiations[key] = ReplacedBy(key)
           /\ InstantiationCount(key) = Cardinality(EventsOf(key))
           /\ InstantiationCount(key) \in Nat
           /\ InstantiationCount(key) + 1 \in 1..Len(ReplacedBy(key))
<1> DEFINE used == Cardinality(EventsOf(key))
           results == ReplacedBy(key)
<1>1. results \in Seq(Seq(Contents)) /\ Len(results) \in Nat
  BY ResultsTyped, KeysTyped DEF SystemTyped, ExpressionsTyped, TriedKeys
<1>2. CASE Stored(key)
  <2>1. key \in DOMAIN instantiationCounts /\ instantiationCounts[key] # All
    BY <1>2 DEF Stored, TablesAreExact
  <2>2. instantiationCounts[key] = used /\ used \in 1..(Len(results) - 1)
    BY <2>1 DEF TablesAreExact, CountIsExact
  <2>3. instantiations[key] = results
    BY <1>2 DEF Stored, TablesAreExact
  <2>4. InstantiationCount(key) = used
    BY <2>1, <2>2 DEF InstantiationCount
  <2> HIDE DEF used, results
  <2>5. used \in Nat /\ used + 1 \in 1..Len(results)
    BY <1>1, <2>2
  <2> QED  BY <2>3, <2>4, <2>5 DEF used, results
<1>3. CASE ~Stored(key)
  <2>1. EventsOf(key) = {} /\ InstantiationCount(key) = 0
    BY <1>3, NeverTried
  <2>2. used = 0  BY <2>1, FS_EmptySet
  <2>3. results # <<>>  BY <1>3 DEF CanInstantiate
  <2>4. Len(results) > 0
    <3> HIDE DEF results
    <3> QED  BY <1>1, <2>3
  <2> HIDE DEF used, results
  <2>5. 0 + 1 \in 1..Len(results)  BY <1>1, <2>4
  <2> QED  BY <1>3, <2>1, <2>2, <2>5 DEF used, results
<1> QED  BY <1>2, <1>3

\* The keys that are found impossible on the way to an event are no ends.
LEMMA TriedBeforeFirst ==
    ASSUME NEW Contents, SystemTyped(Contents), NEW key \in FirstEnds, NEW other \in TriedKeys,
           TriedBefore(other, key)
    PROVE  other \notin Ends
<1>1. key \in PossibleKeys /\ other \in PossibleKeys
  BY DEF FirstEnds, Ends, TriedKeys
<1>2. /\ key.inputs \in Seq(1..Len(expressions)) /\ other.inputs \in Seq(1..Len(expressions))
      /\ key.rule \in Rules /\ other.rule \in Rules
  BY <1>1, KeysTyped DEF SystemTyped, ExpressionsTyped, Inputs
<1>3. key.rule \in Nat /\ other.rule \in Nat
  <2>1. Rules = 1..Len(system.rules) /\ Len(system.rules) \in Nat
    BY SystemTypes DEF SystemTyped
  <2> QED  BY <1>2, <2>1
<1>4. Len(expressions) \in Nat
  BY DEF SystemTyped, ExpressionsTyped
<1>5. ~TriedBefore(key, other)
  BY <1>2, <1>3, <1>4, TriedOneByOne
<1>6. other # key
  BY <1>5
<1> QED  BY <1>5, <1>6 DEF FirstEnds

-----------------------------------------------------------------------------
(* What an event does.                                                     *)

Outputs(key) == ReplacedBy(key)[InstantiationCount(key) + 1]
NewEvent == Len(eventInputs) + 1

\* The part of an event that is about events and expressions.
EventEffect(Contents, key) ==
    /\ key \in TriedKeys /\ CanInstantiate(key) /\ key \in [rule : Rules, inputs : Inputs]
    /\ Outputs(key) \in Seq(Contents)
    /\ system' = system /\ terminationReason' = "none"
    /\ eventRuleIndices' = Append(eventRuleIndices, key.rule)
    /\ eventInputs' = Append(eventInputs, key.inputs)
    /\ eventOutputs' = Append(eventOutputs, [i \in DOMAIN Outputs(key) |-> Len(expressions) + i])
    /\ expressions' = expressions \o Outputs(key)
    /\ expressionCreatorEvents' = expressionCreatorEvents \o [i \in DOMAIN Outputs(key) |-> NewEvent]
    /\ expressionDestroyerEventCounts' =
         [id \in DOMAIN expressionDestroyerEventCounts |->
            expressionDestroyerEventCounts[id] + (IF id \in ToSet(key.inputs) THEN 1 ELSE 0)]
         \o [i \in DOMAIN Outputs(key) |-> 0]
    /\ eventGenerations' =
         Append(eventGenerations,
                Max({eventGenerations[expressionCreatorEvents[id]] : id \in ToSet(key.inputs)}
                    \cup {-1}) + 1)
    /\ destroyerChoices' = Append(destroyerChoices, NewDestroyerChoices(key.inputs, NewEvent))

\* The part of it that is about the tables.
TablesEffect(key) ==
    LET impossible == {other \in TriedKeys : TriedBefore(other, key)}
        count == InstantiationCount(key) + 1
        last == count = Len(ReplacedBy(key))
    IN  /\ \A other \in impossible : other \notin Ends
        /\ key \notin impossible
        /\ DOMAIN instantiationCounts' = DOMAIN instantiationCounts \cup impossible \cup {key}
        /\ instantiationCounts'[key] = IF last THEN All ELSE count
        /\ \A other \in impossible : instantiationCounts'[other] = All
        /\ \A other \in DOMAIN instantiationCounts \ (impossible \cup {key}) :
             instantiationCounts'[other] = instantiationCounts[other]
        /\ DOMAIN instantiations' =
             IF last THEN DOMAIN instantiations \ {key} ELSE DOMAIN instantiations \cup {key}
        /\ \A other \in DOMAIN instantiations' :
             instantiations'[other] = IF other = key THEN ReplacedBy(key) ELSE instantiations[other]

LEMMA EffectOfEvent ==
    ASSUME NEW Contents, RulesGiveLists(Contents), SystemTyped(Contents), TablesAreExact,
           NEW key \in FirstEnds, EvaluateSingleEvent(key)
    PROVE  EventEffect(Contents, key) /\ TablesEffect(key)
<1> DEFINE results == IF Stored(key) THEN instantiations[key] ELSE ReplacedBy(key)
           impossible == {other \in TriedKeys : TriedBefore(other, key)}
<1>1. key \in TriedKeys /\ CanInstantiate(key)
  BY DEF FirstEnds, Ends, EvaluateSingleEvent
<1>2. key \in [rule : Rules, inputs : Inputs]
  BY <1>1, KeysTyped DEF TriedKeys, SystemTyped, ExpressionsTyped
<1>3. results = ReplacedBy(key) /\ InstantiationCount(key) + 1 \in 1..Len(ReplacedBy(key))
  BY <1>1, NextResult
<1>4. ReplacedBy(key) \in Seq(Seq(Contents))
  BY <1>2, ResultsTyped DEF SystemTyped, ExpressionsTyped
<1>5. Outputs(key) \in Seq(Contents)
  BY <1>3, <1>4 DEF Outputs
<1>6. results[InstantiationCount(key) + 1] = Outputs(key)
  BY <1>3 DEF Outputs
<1>7. EventEffect(Contents, key)
  <2>1. /\ system' = system /\ terminationReason' = "none"
        /\ eventRuleIndices' = Append(eventRuleIndices, key.rule)
        /\ eventInputs' = Append(eventInputs, key.inputs)
        /\ eventOutputs' = Append(eventOutputs,
             [i \in DOMAIN results[InstantiationCount(key) + 1] |-> Len(expressions) + i])
        /\ expressions' = expressions \o results[InstantiationCount(key) + 1]
        /\ expressionCreatorEvents' = expressionCreatorEvents
             \o [i \in DOMAIN results[InstantiationCount(key) + 1] |-> NewEvent]
        /\ expressionDestroyerEventCounts' =
             [id \in DOMAIN expressionDestroyerEventCounts |->
                expressionDestroyerEventCounts[id] + (IF id \in ToSet(key.inputs) THEN 1 ELSE 0)]
             \o [i \in DOMAIN results[InstantiationCount(key) + 1] |-> 0]
        /\ eventGenerations' =
             Append(eventGenerations,
                    Max({eventGenerations[expressionCreatorEvents[id]] : id \in ToSet(key.inputs)}
                        \cup {-1}) + 1)
        /\ destroyerChoices' = Append(destroyerChoices, NewDestroyerChoices(key.inputs, NewEvent))
    BY DEF EvaluateSingleEvent, NewEvent
  <2> HIDE DEF results
  <2> QED  BY <1>1, <1>2, <1>5, <1>6, <2>1, Zenon DEF EventEffect
<1>8. \A other \in impossible : other \notin Ends
  BY TriedBeforeFirst
<1>9. key \notin impossible
  BY <1>1, <1>8 DEF FirstEnds
<1>10. /\ instantiationCounts' =
             [other \in DOMAIN CountsAfter(impossible) \cup {key} |->
                IF other = key THEN NextCount(key, results) ELSE CountsAfter(impossible)[other]]
       /\ instantiations' = StoredAfter(key, results)
  BY DEF EvaluateSingleEvent
<1>11. NextCount(key, results) =
         IF InstantiationCount(key) + 1 = Len(ReplacedBy(key)) THEN All ELSE InstantiationCount(key) + 1
  BY <1>3 DEF NextCount
<1> DEFINE last == InstantiationCount(key) + 1 = Len(ReplacedBy(key))
<1>12. (NextCount(key, results) = All) <=> last
  <2>1. InstantiationCount(key) + 1 \in Nat  BY <1>1, NextResult
  <2> QED  BY <1>11, <2>1, AllAssumption
<1>13. /\ DOMAIN CountsAfter(impossible) = DOMAIN instantiationCounts \cup impossible
       /\ \A other \in impossible : CountsAfter(impossible)[other] = All
       /\ \A other \in DOMAIN instantiationCounts \ impossible :
            CountsAfter(impossible)[other] = instantiationCounts[other]
  BY DEF CountsAfter
<1>14. /\ DOMAIN instantiations' =
            IF last THEN DOMAIN instantiations \ {key} ELSE DOMAIN instantiations \cup {key}
       /\ \A other \in DOMAIN instantiations' :
            instantiations'[other] = IF other = key THEN results ELSE instantiations[other]
  <2>1. instantiations' =
          [other \in IF last THEN DOMAIN instantiations \ {key} ELSE DOMAIN instantiations \cup {key} |->
            IF other = key THEN results ELSE instantiations[other]]
    <3> HIDE DEF results, last
    <3> QED  BY <1>10, <1>12, Zenon DEF StoredAfter
  <2> HIDE DEF results, last
  <2> QED  BY <2>1
<1>15. TablesEffect(key)
  <2>1. /\ DOMAIN instantiationCounts' = DOMAIN instantiationCounts \cup impossible \cup {key}
        /\ instantiationCounts'[key] = NextCount(key, results)
        /\ \A other \in impossible : instantiationCounts'[other] = All
        /\ \A other \in DOMAIN instantiationCounts \ (impossible \cup {key}) :
             instantiationCounts'[other] = instantiationCounts[other]
    <3> HIDE DEF impossible, results
    <3> QED  BY <1>9, <1>10, <1>13
  <2> HIDE DEF results
  <2> QED  BY <1>3, <1>8, <1>9, <1>11, <1>14, <2>1 DEF TablesEffect
<1> QED  BY <1>7, <1>15

-----------------------------------------------------------------------------
(* An event keeps the types.                                               *)

OldAndNew(old, new, x, m) ==
    /\ Len(new) = m + 1 /\ DOMAIN new = 1..(m + 1)
    /\ \A e \in 1..m : new[e] = old[e]
    /\ new[m + 1] = x

\* An event adds itself and its outputs, and leaves what was there.
LEMMA EventAdds ==
    ASSUME NEW Contents, SystemTyped(Contents), NEW key, EventEffect(Contents, key)
    PROVE  LET m == Len(eventInputs)
               n == Len(expressions)
               k == Len(Outputs(key))
           IN  /\ m \in Nat \ {0} /\ n \in Nat /\ k \in Nat /\ DOMAIN Outputs(key) = 1..k
               /\ OldAndNew(eventRuleIndices, eventRuleIndices', key.rule, m)
               /\ OldAndNew(eventInputs, eventInputs', key.inputs, m)
               /\ OldAndNew(eventOutputs, eventOutputs', [i \in 1..k |-> n + i], m)
               /\ OldAndNew(eventGenerations, eventGenerations', eventGenerations'[m + 1], m)
               /\ OldAndNew(destroyerChoices, destroyerChoices',
                            NewDestroyerChoices(key.inputs, m + 1), m)
               /\ expressions' \in Seq(Contents)
               /\ Len(expressions') = n + k /\ DOMAIN expressions' = 1..(n + k)
               /\ \A i \in 1..n : expressions'[i] = expressions[i]
               /\ \A i \in 1..k : expressions'[n + i] = Outputs(key)[i]
               /\ Len(expressionCreatorEvents') = n + k
               /\ \A i \in 1..n : expressionCreatorEvents'[i] = expressionCreatorEvents[i]
               /\ \A i \in 1..k : expressionCreatorEvents'[n + i] = m + 1
               /\ expressionCreatorEvents' \in Seq(1..(m + 1))
               /\ Len(expressionDestroyerEventCounts') = n + k
               /\ expressionDestroyerEventCounts' \in Seq(Nat)
               /\ \A i \in 1..n : expressionDestroyerEventCounts'[i] =
                    expressionDestroyerEventCounts[i] + (IF i \in ToSet(key.inputs) THEN 1 ELSE 0)
               /\ \A i \in 1..k : expressionDestroyerEventCounts'[n + i] = 0
<1> DEFINE m == Len(eventInputs)
           n == Len(expressions)
           outputs == Outputs(key)
           k == Len(outputs)
           counts == [id \in DOMAIN expressionDestroyerEventCounts |->
                        expressionDestroyerEventCounts[id] + (IF id \in ToSet(key.inputs) THEN 1 ELSE 0)]
<1>1. m \in Nat \ {0} /\ n \in Nat /\ k \in Nat /\ DOMAIN outputs = 1..k
  BY DEF SystemTyped, EventsTyped, ExpressionsTyped, EventEffect
<1>2. /\ OldAndNew(eventRuleIndices, eventRuleIndices', key.rule, m)
      /\ OldAndNew(eventInputs, eventInputs', key.inputs, m)
  <2>1. /\ eventRuleIndices' = Append(eventRuleIndices, key.rule)
        /\ eventInputs' = Append(eventInputs, key.inputs)
        /\ key.rule \in Rules /\ key.inputs \in Inputs
    BY DEF EventEffect
  <2>2. key.rule \in Nat
    <3>1. Rules = 1..Len(system.rules) /\ Len(system.rules) \in Nat
      BY SystemTypes DEF SystemTyped
    <3> QED  BY <2>1, <3>1
  <2>3. /\ eventRuleIndices \in Seq(Nat) /\ Len(eventRuleIndices) = m /\ eventInputs \in Seq(Inputs)
    BY DEF SystemTyped, EventsTyped
  <2> HIDE DEF m
  <2>4. OldAndNew(eventRuleIndices, eventRuleIndices', key.rule, m)
    BY <2>1, <2>2, <2>3, Lengthened DEF OldAndNew
  <2>5. OldAndNew(eventInputs, eventInputs', key.inputs, m)
    BY <2>1, <2>3, Lengthened DEF OldAndNew, m
  <2> QED  BY <2>4, <2>5
<1>3. OldAndNew(eventOutputs, eventOutputs', [i \in 1..k |-> n + i], m)
  <2>1. eventOutputs' = Append(eventOutputs, [i \in 1..k |-> n + i])
    BY <1>1 DEF EventEffect
  <2>2. eventOutputs \in Seq(Inputs) /\ Len(eventOutputs) = m
    BY DEF SystemTyped, EventsTyped
  <2>3. eventOutputs \in Seq(Inputs \cup {[i \in 1..k |-> n + i]})
    BY <2>2, LargerSeq
  <2> HIDE DEF m, k, n
  <2> QED  BY <2>1, <2>2, <2>3, Lengthened DEF OldAndNew
<1>4. OldAndNew(eventGenerations, eventGenerations', eventGenerations'[m + 1], m)
  <2>1. PICK g : eventGenerations' = Append(eventGenerations, g)
    BY DEF EventEffect
  <2>2. eventGenerations \in Seq(Nat \cup {g}) /\ Len(eventGenerations) = m
    BY LargerSeq DEF SystemTyped, EventsTyped
  <2> HIDE DEF m
  <2> QED  BY <2>1, <2>2, Lengthened DEF OldAndNew
<1>5. OldAndNew(destroyerChoices, destroyerChoices', NewDestroyerChoices(key.inputs, m + 1), m)
  <2> DEFINE new == NewDestroyerChoices(key.inputs, m + 1)
             S == ChoiceFunctions(n, m)
  <2>1. destroyerChoices' = Append(destroyerChoices, new)
    BY DEF EventEffect, NewEvent
  <2>2. destroyerChoices \in Seq(S) /\ Len(destroyerChoices) = m
    BY DEF SystemTyped, ChoicesTyped
  <2> HIDE DEF m, new, S
  <2>3. destroyerChoices \in Seq(S \cup {new})
    BY <2>2, LargerSeq
  <2>4. OldAndNew(destroyerChoices, destroyerChoices', new, m)
    BY <2>1, <2>2, <2>3, Lengthened DEF OldAndNew
  <2> QED  BY <2>4 DEF new
<1>6. /\ expressions' \in Seq(Contents)
      /\ Len(expressions') = n + k /\ DOMAIN expressions' = 1..(n + k)
      /\ \A i \in 1..n : expressions'[i] = expressions[i]
      /\ \A i \in 1..k : expressions'[n + i] = outputs[i]
  <2>1. expressions' = expressions \o outputs /\ outputs \in Seq(Contents)
    BY DEF EventEffect
  <2>2. expressions \in Seq(Contents)
    BY DEF SystemTyped, ExpressionsTyped
  <2> HIDE DEF outputs
  <2> QED  BY <2>1, <2>2, Joined
<1>7. /\ Len(expressionCreatorEvents') = n + k
      /\ \A i \in 1..n : expressionCreatorEvents'[i] = expressionCreatorEvents[i]
      /\ \A i \in 1..k : expressionCreatorEvents'[n + i] = m + 1
      /\ expressionCreatorEvents' \in Seq(1..(m + 1))
  <2> DEFINE new == [i \in 1..k |-> m + 1]
  <2>1. expressionCreatorEvents' = expressionCreatorEvents \o new
    BY <1>1 DEF EventEffect, NewEvent
  <2>2. expressionCreatorEvents \in Seq(1..m) /\ Len(expressionCreatorEvents) = n
    BY DEF SystemTyped, ExpressionsTyped
  <2> HIDE DEF m, n, k
  <2>3. expressionCreatorEvents \in Seq(1..(m + 1))
    <3>1. 1..m \subseteq 1..(m + 1)  BY <1>1
    <3> QED  BY <2>2, <3>1, LargerSeq
  <2>4. new \in [1..k -> 1..(m + 1)] /\ \A i \in 1..k : new[i] = m + 1
    BY <1>1
  <2> HIDE DEF new
  <2>5. new \in Seq(1..(m + 1)) /\ Len(new) = k
    BY <1>1, <2>4, ListOf
  <2> DEFINE S == 1..(m + 1)
  <2>6. expressionCreatorEvents \in Seq(S) /\ new \in Seq(S)
    BY <2>3, <2>5
  <2> HIDE DEF S
  <2>7. /\ Len(expressionCreatorEvents \o new) = n + k /\ expressionCreatorEvents \o new \in Seq(S)
        /\ \A i \in 1..n : (expressionCreatorEvents \o new)[i] = expressionCreatorEvents[i]
        /\ \A i \in 1..k : (expressionCreatorEvents \o new)[n + i] = new[i]
    <3> DEFINE old == expressionCreatorEvents
    <3>1. /\ old \o new \in Seq(S) /\ Len(old \o new) = Len(old) + Len(new)
          /\ \A i \in 1..Len(old) : (old \o new)[i] = old[i]
          /\ \A i \in 1..Len(new) : (old \o new)[Len(old) + i] = new[i]
      BY <2>6, Joined
    <3> QED  BY <2>2, <2>5, <3>1, Zenon
  <2>8. \A i \in 1..k : (expressionCreatorEvents \o new)[n + i] = m + 1
    BY <2>4, <2>7
  <2> QED  BY <2>1, <2>7, <2>8, Zenon DEF S
<1>8. /\ Len(expressionDestroyerEventCounts') = n + k
      /\ expressionDestroyerEventCounts' \in Seq(Nat)
      /\ \A i \in 1..n : expressionDestroyerEventCounts'[i] =
           expressionDestroyerEventCounts[i] + (IF i \in ToSet(key.inputs) THEN 1 ELSE 0)
      /\ \A i \in 1..k : expressionDestroyerEventCounts'[n + i] = 0
  <2> DEFINE new == [i \in 1..k |-> 0]
  <2>1. expressionDestroyerEventCounts' = counts \o new
    BY <1>1 DEF EventEffect
  <2>2. /\ expressionDestroyerEventCounts \in Seq(Nat) /\ Len(expressionDestroyerEventCounts) = n
        /\ DOMAIN expressionDestroyerEventCounts = 1..n
        /\ \A i \in 1..n : expressionDestroyerEventCounts[i] \in Nat
    BY DEF SystemTyped, ExpressionsTyped
  <2>3. counts \in [1..n -> Nat]
    BY <2>2
  <2>4. new \in [1..k -> Nat] /\ \A i \in 1..k : new[i] = 0
    OBVIOUS
  <2>5. \A i \in 1..n : counts[i] =
          expressionDestroyerEventCounts[i] + (IF i \in ToSet(key.inputs) THEN 1 ELSE 0)
    BY <2>2
  <2> HIDE DEF m, n, k, counts, new
  <2>6. counts \in Seq(Nat) /\ Len(counts) = n /\ new \in Seq(Nat) /\ Len(new) = k
    BY <1>1, <2>3, <2>4, ListOf
  <2>7. /\ Len(counts \o new) = n + k /\ counts \o new \in Seq(Nat)
        /\ \A i \in 1..n : (counts \o new)[i] = counts[i]
        /\ \A i \in 1..k : (counts \o new)[n + i] = new[i]
    <3> DEFINE S == Nat
    <3>1. n \in Nat /\ k \in Nat  BY <1>1
    <3>2. counts \in Seq(S) /\ new \in Seq(S) /\ Len(counts) = n /\ Len(new) = k  BY <2>6
    <3> HIDE DEF S
    <3>3. /\ Len(counts \o new) = n + k /\ counts \o new \in Seq(S)
          /\ \A i \in 1..n : (counts \o new)[i] = counts[i]
          /\ \A i \in 1..k : (counts \o new)[n + i] = new[i]
      BY <3>1, <3>2
    <3> QED  BY <3>3 DEF S
  <2> QED  BY <2>1, <2>4, <2>5, <2>7
<1> QED  BY <1>1, <1>2, <1>3, <1>4, <1>5, <1>6, <1>7, <1>8, Zenon

LEMMA MoreInputs ==
    ASSUME NEW m \in Nat, NEW n \in Nat, m <= n
    PROVE  1..m \subseteq 1..n /\ Seq(1..m) \subseteq Seq(1..n)
<1>1. 1..m \subseteq 1..n
  OBVIOUS
<1> DEFINE S == 1..m
           T == 1..n
<1>2. S \subseteq T  BY <1>1
<1> HIDE DEF S, T
<1>3. \A s \in Seq(S) : s \in Seq(T)
  BY <1>2, LargerSeq
<1> QED  BY <1>2, <1>3 DEF S, T

\* The generation after those of some events.
LEMMA GenerationAfter ==
    ASSUME NEW S \in SUBSET Nat, NEW bound \in Nat, \A x \in S : x <= bound
    PROVE  /\ Max(S \cup {-1}) + 1 \in Nat
           /\ S = {} => Max(S \cup {-1}) + 1 = 0
           /\ S # {} => Max(S \cup {-1}) \in S /\ \A x \in S : x <= Max(S \cup {-1})
<1>1. CASE S = {}
  <2>1. S \cup {-1} = {-1}  BY <1>1
  <2>2. Max({-1}) = -1  BY DEF Max
  <2> QED  BY <1>1, <2>1, <2>2
<1>2. CASE S # {}
  <2>1. PICK m \in S : \A x \in S : x <= m
    BY <1>2, LargestElement
  <2>2. m \in S \cup {-1} /\ \A x \in S \cup {-1} : m >= x
    BY <2>1
  <2>3. Max(S \cup {-1}) \in S \cup {-1} /\ \A x \in S \cup {-1} : Max(S \cup {-1}) >= x
    <3> DEFINE T == S \cup {-1}
    <3> HIDE DEF T
    <3>1. m \in T /\ \A x \in T : m >= x  BY <2>2 DEF T
    <3>2. Max(T) \in T /\ \A x \in T : Max(T) >= x  BY <3>1 DEF Max
    <3> QED  BY <3>2 DEF T
  <2> DEFINE largest == Max(S \cup {-1})
  <2>4. largest \in S \cup {-1} /\ (\A x \in S : largest >= x) /\ largest >= m
    BY <2>2, <2>3
  <2> HIDE DEF largest
  <2>5. largest # -1  BY <2>1, <2>4
  <2>6. largest \in S /\ largest + 1 \in Nat /\ \A x \in S : x <= largest
    BY <2>4, <2>5
  <2> QED  BY <1>2, <2>6 DEF largest
<1> QED  BY <1>1, <1>2

\* The choices of an event are destroyers of inputs and of what came before them.
LEMMA NewChoicesTyped ==
    ASSUME NEW Contents, SystemTyped(Contents), NEW inputs \in Inputs
    PROVE  NewDestroyerChoices(inputs, NewEvent) \in ChoiceFunctions(Len(expressions), NewEvent)
<1> DEFINE ChoicesOf(i) == destroyerChoices[expressionCreatorEvents[inputs[i]]]
           Deciding(expression) ==
             {i \in DOMAIN inputs : inputs[i] = expression \/ expression \in DOMAIN ChoicesOf(i)}
           known == ToSet(inputs) \cup UNION {DOMAIN ChoicesOf(i) : i \in DOMAIN inputs}
           Choice(expression) ==
             IF expression \in DOMAIN ChoicesOf(Max(Deciding(expression)))
             THEN ChoicesOf(Max(Deciding(expression)))[expression] ELSE NewEvent
           n == Len(expressions)
           m == Len(eventInputs)
<1>1. /\ n \in Nat /\ m \in Nat /\ NewEvent = m + 1
      /\ DOMAIN inputs = 1..Len(inputs) /\ Len(inputs) \in Nat
      /\ \A i \in DOMAIN inputs : inputs[i] \in 1..n
  <2>1. n \in Nat /\ m \in Nat /\ NewEvent = m + 1
    BY DEF SystemTyped, EventsTyped, ExpressionsTyped, NewEvent
  <2>2. inputs \in Seq(1..n)  BY DEF Inputs
  <2> HIDE DEF n
  <2> QED  BY <2>1, <2>2
<1>2. \A i \in DOMAIN inputs : ChoicesOf(i) \in ChoiceFunctions(n, m)
  <2>1. /\ destroyerChoices \in Seq(ChoiceFunctions(n, m)) /\ Len(destroyerChoices) = m
        /\ \A id \in 1..n : expressionCreatorEvents[id] \in 1..m
    BY DEF SystemTyped, ChoicesTyped, ExpressionsTyped
  <2>2. \A e \in 1..m : destroyerChoices[e] \in ChoiceFunctions(n, m)
    BY <2>1
  <2> QED  BY <1>1, <2>1, <2>2
<1>3. \A i \in DOMAIN inputs :
        DOMAIN ChoicesOf(i) \subseteq 1..n /\ \A x \in DOMAIN ChoicesOf(i) : ChoicesOf(i)[x] \in 1..m
  BY <1>2 DEF ChoiceFunctions
<1>4. known \subseteq 1..n
  BY <1>1, <1>3 DEF ToSet
<1>5. ASSUME NEW expression \in known
      PROVE  Choice(expression) \in 1..NewEvent
  <2>1. Deciding(expression) \subseteq 1..Len(inputs) /\ Deciding(expression) # {}
    BY <1>1, <1>5 DEF ToSet
  <2>2. Max(Deciding(expression)) \in Deciding(expression)
    <3> DEFINE S == Deciding(expression)
    <3>1. S \in SUBSET Nat /\ S # {} /\ (\A x \in S : x <= Len(inputs)) /\ Len(inputs) \in Nat
      BY <1>1, <2>1
    <3> HIDE DEF S
    <3>2. Max(S) \in S  BY <3>1, MaxIsLargest
    <3> QED  BY <3>2 DEF S
  <2>3. PICK last \in DOMAIN inputs : last = Max(Deciding(expression))
    BY <2>2
  <2>4. Choice(expression) =
          IF expression \in DOMAIN ChoicesOf(last) THEN ChoicesOf(last)[expression] ELSE NewEvent
    BY <2>3
  <2> HIDE DEF ChoicesOf, Choice
  <2>5. expression \in DOMAIN ChoicesOf(last) => ChoicesOf(last)[expression] \in 1..m
    BY <1>3
  <2> QED  BY <1>1, <2>4, <2>5
<1>6. NewDestroyerChoices(inputs, NewEvent) = [expression \in known |-> Choice(expression)]
  BY DEF NewDestroyerChoices
<1>7. [expression \in known |-> Choice(expression)] \in [known -> 1..NewEvent]
  <2> HIDE DEF known, Choice
  <2> QED  BY <1>5
<1> HIDE DEF known, Choice
<1> QED  BY <1>4, <1>6, <1>7 DEF ChoiceFunctions

LEMMA InitTyped ==
    ASSUME NEW Contents, RulesGiveLists(Contents), Init
    PROVE  SystemTyped(Contents)
<1> DEFINE n == Len(system.init)
<1>1. system \in Systems /\ system.init \in Seq(Contents)
  BY DEF Init, RulesGiveLists
<1>2. n \in Nat /\ DOMAIN system.init = 1..n
  BY <1>1
<1>3. /\ expressions = system.init /\ eventRuleIndices = <<0>> /\ eventInputs = << <<>> >>
      /\ eventOutputs = << [i \in 1..n |-> i] >> /\ eventGenerations = <<0>>
      /\ expressionCreatorEvents = [i \in 1..n |-> 1]
      /\ expressionDestroyerEventCounts = [i \in 1..n |-> 0]
      /\ destroyerChoices = <<NoEntries>> /\ instantiationCounts = NoEntries
      /\ terminationReason = "none"
  BY <1>2 DEF Init
<1>4. Len(expressions) = n  BY <1>3
<1> HIDE DEF n
<1>5. <<>> \in Inputs /\ [i \in 1..n |-> i] \in Inputs
  <2>1. [i \in 1..n |-> i] \in [1..n -> 1..n]  OBVIOUS
  <2>2. [i \in 1..n |-> i] \in Seq(1..n)  BY <1>2, <2>1, ListOf
  <2>3. <<>> \in Seq(1..n)  OBVIOUS
  <2> QED  BY <1>4, <2>2, <2>3 DEF Inputs
<1>6. EventsTyped
  <2>1. eventInputs \in Seq(Inputs) /\ Len(eventInputs) = 1
    BY <1>3, <1>5
  <2>2. eventOutputs \in Seq(Inputs) /\ Len(eventOutputs) = 1
    BY <1>3, <1>5
  <2>3. /\ eventRuleIndices \in Seq(Nat) /\ Len(eventRuleIndices) = 1 /\ eventRuleIndices[1] = 0
        /\ eventGenerations \in Seq(Nat) /\ Len(eventGenerations) = 1
    BY <1>3
  <2> QED  BY <2>1, <2>2, <2>3 DEF EventsTyped
<1>7. ExpressionsTyped(Contents)
  <2>1. expressionCreatorEvents \in [1..n -> 1..1] /\ expressionDestroyerEventCounts \in [1..n -> Nat]
    BY <1>3
  <2>2. /\ expressionCreatorEvents \in Seq(1..1) /\ Len(expressionCreatorEvents) = n
        /\ expressionDestroyerEventCounts \in Seq(Nat) /\ Len(expressionDestroyerEventCounts) = n
    BY <1>2, <2>1, ListOf
  <2>3. Len(eventInputs) = 1  BY <1>3
  <2> QED  BY <1>1, <1>3, <1>4, <2>2, <2>3 DEF ExpressionsTyped
<1>8. ChoicesTyped
  <2>1. NoEntries \in [{} -> 1..1]  BY DEF NoEntries
  <2>2. NoEntries \in ChoiceFunctions(n, 1)  BY <2>1 DEF ChoiceFunctions
  <2>3. Len(eventInputs) = 1  BY <1>3
  <2>4. destroyerChoices \in Seq(ChoiceFunctions(n, 1)) /\ Len(destroyerChoices) = 1
    BY <1>3, <2>2
  <2> QED  BY <1>4, <2>3, <2>4 DEF ChoicesTyped
<1>9. TablesTyped
  BY <1>3 DEF TablesTyped, NoEntries
<1> QED  BY <1>1, <1>3, <1>6, <1>7, <1>8, <1>9 DEF SystemTyped

LEMMA EventKeepsTypes ==
    ASSUME NEW Contents, SystemTyped(Contents), NEW key, EventEffect(Contents, key), TablesEffect(key)
    PROVE  SystemTyped(Contents)'
<1> DEFINE m == Len(eventInputs)
           n == Len(expressions)
           k == Len(Outputs(key))
<1>1. /\ m \in Nat \ {0} /\ n \in Nat /\ k \in Nat
      /\ Len(expressions') = n + k /\ Len(eventInputs') = m + 1
  BY EventAdds DEF OldAndNew
<1>2. key.rule \in Rules /\ key.inputs \in Inputs
  BY DEF EventEffect
<1>3. Rules' = Rules /\ Rules = 1..Len(system.rules) /\ Len(system.rules) \in Nat
  <2>1. system' = system  BY DEF EventEffect
  <2> QED  BY <2>1, SystemTypes DEF Rules, SystemTyped
<1>4. Inputs \subseteq Inputs'
  <2>1. Inputs' = Seq(1..(n + k))  BY <1>1 DEF Inputs
  <2>2. n + k \in Nat /\ n <= n + k  BY <1>1
  <2>3. Seq(1..n) \subseteq Seq(1..(n + k))
    <3> HIDE DEF n, k
    <3> QED  BY <1>1, <2>2, MoreInputs
  <2> QED  BY <2>1, <2>3 DEF Inputs
<1>5. EventsTyped'
  <2>1. eventInputs' \in Seq(Inputs')
    <3>1. eventInputs \in Seq(Inputs')  BY <1>4, LargerSeq DEF SystemTyped, EventsTyped
    <3>2. key.inputs \in Inputs'  BY <1>2, <1>4
    <3>3. eventInputs' = Append(eventInputs, key.inputs)  BY DEF EventEffect
    <3> QED  BY <3>1, <3>2, <3>3, Lengthened
  <2>2. eventOutputs' \in Seq(Inputs')
    <3>1. eventOutputs \in Seq(Inputs')  BY <1>4, LargerSeq DEF SystemTyped, EventsTyped
    <3> DEFINE created == [i \in 1..k |-> n + i]
    <3>2. created \in Inputs'
      <4>1. created \in [1..k -> 1..(n + k)]
        <5> HIDE DEF n, k
        <5> QED  BY <1>1
      <4>2. created \in Seq(1..(n + k))
        <5> HIDE DEF n, k, created
        <5> QED  BY <1>1, <4>1, ListOf
      <4> QED  BY <1>1, <4>2 DEF Inputs
    <3>3. eventOutputs' = Append(eventOutputs, created)
      <4>1. DOMAIN Outputs(key) = 1..k  BY EventAdds
      <4> QED  BY <4>1 DEF EventEffect
    <3> HIDE DEF created
    <3> QED  BY <3>1, <3>2, <3>3, Lengthened
  <2>3. eventRuleIndices' \in Seq(Nat)
    <3>1. eventRuleIndices \in Seq(Nat) /\ key.rule \in Nat
      BY <1>2, <1>3 DEF SystemTyped, EventsTyped
    <3>2. eventRuleIndices' = Append(eventRuleIndices, key.rule)  BY DEF EventEffect
    <3> QED  BY <3>1, <3>2, Lengthened
  <2>4. eventGenerations' \in Seq(Nat)
    <3> DEFINE before == {eventGenerations[expressionCreatorEvents[id]] : id \in ToSet(key.inputs)}
    <3>1. eventGenerations \in Seq(Nat) /\ Len(eventGenerations) = m
      BY DEF SystemTyped, EventsTyped
    <3>2. \A id \in ToSet(key.inputs) : expressionCreatorEvents[id] \in 1..m
      <4>1. \A id \in ToSet(key.inputs) : id \in 1..n
        BY <1>2 DEF ToSet, Inputs
      <4>2. \A id \in 1..n : expressionCreatorEvents[id] \in 1..m
        BY DEF SystemTyped, ExpressionsTyped
      <4> QED  BY <4>1, <4>2
    <3>3. \A e \in 1..m : eventGenerations[e] \in Nat  BY <3>1
    <3>4. PICK b \in Nat : \A e \in 1..m : eventGenerations[e] <= b
      <4>1. eventGenerations \in [1..m -> Int]  BY <3>1
      <4> HIDE DEF m
      <4> QED  BY <1>1, <4>1, NumbersBounded
    <3>5. before \in SUBSET Nat /\ \A x \in before : x <= b
      BY <3>2, <3>3, <3>4
    <3>6. Max(before \cup {-1}) + 1 \in Nat
      <4> HIDE DEF before
      <4> QED  BY <3>5, GenerationAfter
    <3>7. eventGenerations' = Append(eventGenerations, Max(before \cup {-1}) + 1)
      BY DEF EventEffect
    <3> HIDE DEF before
    <3> QED  BY <3>1, <3>6, <3>7, Lengthened
  <2>5. /\ Len(eventRuleIndices') = m + 1 /\ Len(eventOutputs') = m + 1
        /\ Len(eventGenerations') = m + 1
        /\ \A e \in 1..m : eventRuleIndices'[e] = eventRuleIndices[e]
        /\ eventRuleIndices'[m + 1] = key.rule
    BY EventAdds DEF OldAndNew
  <2>6. eventRuleIndices'[1] = 0 /\ \A e \in 2..(m + 1) : eventRuleIndices'[e] \in Rules'
    <3>1. eventRuleIndices[1] = 0 /\ \A e \in 2..m : eventRuleIndices[e] \in Rules
      BY DEF SystemTyped, EventsTyped
    <3>2. 1 \in 1..m
      <4> HIDE DEF m
      <4> QED  BY <1>1
    <3>3. ASSUME NEW e \in 2..(m + 1) PROVE eventRuleIndices'[e] \in Rules
      <4>1. e = m + 1 \/ (e \in 2..m /\ e \in 1..m)
        <5> HIDE DEF m
        <5> QED  BY <1>1
      <4> HIDE DEF m
      <4> QED  BY <1>2, <2>5, <3>1, <4>1, Zenon
    <3> QED  BY <1>3, <2>5, <3>1, <3>2, <3>3
  <2> QED  BY <1>1, <2>1, <2>2, <2>3, <2>4, <2>5, <2>6 DEF EventsTyped
<1>6. ExpressionsTyped(Contents)'
  <2>1. /\ expressions' \in Seq(Contents)
        /\ Len(expressionCreatorEvents') = n + k /\ expressionCreatorEvents' \in Seq(1..(m + 1))
        /\ Len(expressionDestroyerEventCounts') = n + k
        /\ expressionDestroyerEventCounts' \in Seq(Nat)
    BY EventAdds
  <2> QED  BY <1>1, <2>1 DEF ExpressionsTyped
<1>7. ChoicesTyped'
  <2> DEFINE new == NewDestroyerChoices(key.inputs, NewEvent)
             S == ChoiceFunctions(n + k, m + 1)
  <2>1. ASSUME NEW f \in ChoiceFunctions(n, m) \cup ChoiceFunctions(n, m + 1) PROVE f \in S
    <3>1. 1..n \subseteq 1..(n + k) /\ 1..m \subseteq 1..(m + 1)
      <4> HIDE DEF n, m, k
      <4> QED  BY <1>1
    <3>2. PICK known \in SUBSET (1..n) : f \in [known -> 1..m] \cup [known -> 1..(m + 1)]
      BY DEF ChoiceFunctions
    <3>3. f \in [known -> 1..(m + 1)]
      <4> HIDE DEF m, n, k
      <4> QED  BY <3>1, <3>2
    <3> QED  BY <3>1, <3>2, <3>3 DEF ChoiceFunctions
  <2>2. destroyerChoices \in Seq(S)
    <3>1. ChoiceFunctions(n, m) \subseteq S  BY <2>1
    <3> HIDE DEF S
    <3> QED  BY <3>1, LargerSeq DEF SystemTyped, ChoicesTyped
  <2>3. new \in S
    <3>1. NewEvent = m + 1  BY DEF NewEvent
    <3> QED  BY <1>2, <2>1, <3>1, NewChoicesTyped
  <2>4. destroyerChoices' = Append(destroyerChoices, new)
    BY DEF EventEffect
  <2>5. destroyerChoices' \in Seq(S)
    <3> HIDE DEF S, new
    <3> QED  BY <2>2, <2>3, <2>4, Lengthened
  <2>6. Len(destroyerChoices') = m + 1
    BY EventAdds DEF OldAndNew
  <2> QED  BY <1>1, <2>5, <2>6 DEF ChoicesTyped, ChoiceFunctions
<1>8. TablesTyped'
  <2>1. \A other \in TriedKeys : other \in [rule : Rules, inputs : Inputs]
    BY KeysTyped DEF TriedKeys, SystemTyped, ExpressionsTyped
  <2>2. DOMAIN instantiationCounts' \subseteq [rule : Rules, inputs : Inputs]
    BY <2>1 DEF TablesEffect, EventEffect, SystemTyped, TablesTyped
  <2>3. [rule : Rules, inputs : Inputs] \subseteq [rule : Rules', inputs : Inputs']
    BY <1>3, <1>4
  <2> QED  BY <2>2, <2>3 DEF TablesTyped
<1> QED  BY <1>5, <1>6, <1>7, <1>8 DEF SystemTyped, EventEffect

-----------------------------------------------------------------------------
(* The tables tell what happened.                                          *)

\* An event leaves what is known of keys of expressions that are there already,
\* but for the events of its own key.
LEMMA OldKeysKept ==
    ASSUME NEW Contents, SystemTyped(Contents), NEW key, EventEffect(Contents, key),
           NEW other \in [rule : Rules, inputs : Inputs]
    PROVE  /\ ReplacedBy(other)' = ReplacedBy(other)
           /\ SpacelikeExpressionsQ(other.inputs)' <=> SpacelikeExpressionsQ(other.inputs)
           /\ EventsOf(other)' =
                IF other = key THEN EventsOf(other) \cup {NewEvent} ELSE EventsOf(other)
<1> DEFINE m == Len(eventInputs)
           n == Len(expressions)
           k == Len(Outputs(key))
<1>1. /\ m \in Nat \ {0} /\ n \in Nat /\ DOMAIN other.inputs = 1..Len(other.inputs)
      /\ \A i \in DOMAIN other.inputs : other.inputs[i] \in 1..n
  <2>1. other.inputs \in Seq(1..n)  BY DEF Inputs
  <2>2. m \in Nat \ {0} /\ n \in Nat  BY EventAdds
  <2> HIDE DEF n
  <2> QED  BY <2>1, <2>2
<1>2. /\ \A i \in 1..n : expressions'[i] = expressions[i]
      /\ \A i \in 1..n : expressionCreatorEvents'[i] = expressionCreatorEvents[i]
      /\ \A e \in 1..m : destroyerChoices'[e] = destroyerChoices[e]
      /\ system' = system
  BY EventAdds DEF OldAndNew, EventEffect
<1>3. \A i \in 1..n : expressionCreatorEvents[i] \in 1..m
  BY DEF SystemTyped, ExpressionsTyped
<1>4. ReplacedBy(other)' = ReplacedBy(other)
  <2>1. InputContents(other)' = InputContents(other)
    BY <1>1, <1>2 DEF InputContents
  <2> QED  BY <1>2, <2>1 DEF ReplacedBy
<1>5. SpacelikeExpressionsQ(other.inputs)' <=> SpacelikeExpressionsQ(other.inputs)
  <2>1. ASSUME NEW a \in 1..n, NEW b \in 1..n
        PROVE  ExpressionsSeparation(a, b)' = ExpressionsSeparation(a, b)
    <3>1. destroyerChoices'[expressionCreatorEvents'[a]] = destroyerChoices[expressionCreatorEvents[a]]
      BY <1>2, <1>3
    <3>2. destroyerChoices'[expressionCreatorEvents'[b]] = destroyerChoices[expressionCreatorEvents[b]]
      BY <1>2, <1>3
    <3> QED  BY <3>1, <3>2, Zenon DEF ExpressionsSeparation
  <2>2. \A i, j \in DOMAIN other.inputs :
          ExpressionsSeparation(other.inputs[i], other.inputs[j])'
            = ExpressionsSeparation(other.inputs[i], other.inputs[j])
    BY <1>1, <2>1, Zenon
  <2>3. SpacelikeExpressionsQ(other.inputs)' <=>
          \A i, j \in DOMAIN other.inputs :
            i < j => ExpressionsSeparation(other.inputs[i], other.inputs[j])' = "Spacelike"
    BY DEF SpacelikeExpressionsQ
  <2> QED  BY <2>2, <2>3, Zenon DEF SpacelikeExpressionsQ
<1>6. EventsOf(other)' = IF other = key THEN EventsOf(other) \cup {NewEvent} ELSE EventsOf(other)
  <2>1. /\ DOMAIN eventInputs' = 1..(m + 1) /\ NewEvent = m + 1 /\ DOMAIN eventInputs = 1..m
        /\ \A e \in 1..m : eventInputs'[e] = eventInputs[e] /\ eventRuleIndices'[e] = eventRuleIndices[e]
        /\ eventInputs'[m + 1] = key.inputs /\ eventRuleIndices'[m + 1] = key.rule
    <3>1. DOMAIN eventInputs = 1..m  BY DEF SystemTyped, EventsTyped
    <3> QED  BY <3>1, EventAdds DEF OldAndNew, NewEvent
  <2>2. EventsOf(other)' =
          {e \in 1..(m + 1) : eventRuleIndices'[e] = other.rule /\ eventInputs'[e] = other.inputs}
    BY <2>1 DEF EventsOf
  <2>3. EventsOf(other) = {e \in 1..m : eventRuleIndices[e] = other.rule /\ eventInputs[e] = other.inputs}
    BY <2>1 DEF EventsOf
  <2>4. other = key <=> (key.rule = other.rule /\ key.inputs = other.inputs)
    <3>1. /\ key = [rule |-> key.rule, inputs |-> key.inputs]
          /\ other = [rule |-> other.rule, inputs |-> other.inputs]
      BY DEF EventEffect
    <3> QED  BY <3>1
  <2>5. \A e : e \in 1..(m + 1) <=> e \in 1..m \/ e = m + 1
    <3> HIDE DEF m
    <3> QED  BY <1>1
  <2> HIDE DEF m
  <2>6. ASSUME NEW e
        PROVE  e \in EventsOf(other)' <=> e \in EventsOf(other) \/ (other = key /\ e = NewEvent)
    <3>1. m + 1 \notin 1..m  BY <1>1
    <3>2. CASE e \in 1..m  BY <2>1, <2>2, <2>3, <2>5, <3>1, <3>2, Zenon
    <3>3. CASE e = m + 1  BY <2>1, <2>2, <2>3, <2>4, <2>5, <3>1, <3>3, Zenon
    <3>4. CASE e \notin 1..m /\ e # m + 1  BY <2>1, <2>2, <2>3, <2>5, <3>4, Zenon
    <3> QED  BY <3>2, <3>3, <3>4
  <2> QED  BY <2>6
<1> QED  BY <1>4, <1>5, <1>6

LEMMA CreatedKept ==
    ASSUME NEW Contents, SystemTyped(Contents), NEW key, EventEffect(Contents, key)
    PROVE  /\ \A e \in 1..Len(eventInputs) : CreatedContents(e)' = CreatedContents(e)
           /\ \A e : e = NewEvent => CreatedContents(e)' = Outputs(key)
<1> DEFINE m == Len(eventInputs)
           n == Len(expressions)
           k == Len(Outputs(key))
           created == [i \in 1..k |-> n + i]
<1>1. /\ m \in Nat \ {0} /\ n \in Nat /\ k \in Nat /\ DOMAIN Outputs(key) = 1..k
      /\ \A e \in 1..m : eventOutputs'[e] = eventOutputs[e]
      /\ eventOutputs'[m + 1] = created
      /\ \A i \in 1..n : expressions'[i] = expressions[i]
      /\ \A i \in 1..k : expressions'[n + i] = Outputs(key)[i]
  BY EventAdds DEF OldAndNew
<1>2. ASSUME NEW e \in 1..m PROVE CreatedContents(e)' = CreatedContents(e)
  <2>1. eventOutputs[e] \in Seq(1..n)
    BY DEF SystemTyped, EventsTyped, Inputs
  <2>2. \A i \in DOMAIN eventOutputs[e] : eventOutputs[e][i] \in 1..n
    <3> DEFINE S == 1..n
    <3>1. eventOutputs[e] \in Seq(S)  BY <2>1
    <3> HIDE DEF S
    <3>2. \A i \in DOMAIN eventOutputs[e] : eventOutputs[e][i] \in S  BY <3>1
    <3> QED  BY <3>2 DEF S
  <2>3. CreatedContents(e)' = [i \in DOMAIN eventOutputs'[e] |-> expressions'[eventOutputs'[e][i]]]
    BY DEF CreatedContents
  <2>4. CreatedContents(e) = [i \in DOMAIN eventOutputs[e] |-> expressions[eventOutputs[e][i]]]
    BY DEF CreatedContents
  <2> QED  BY <1>1, <2>2, <2>3, <2>4
<1>3. ASSUME NEW e, e = m + 1 PROVE CreatedContents(e)' = Outputs(key)
  <2>1. CreatedContents(e)' =
          [i \in DOMAIN eventOutputs'[m + 1] |-> expressions'[eventOutputs'[m + 1][i]]]
    BY <1>3 DEF CreatedContents
  <2>2. DOMAIN created = 1..k /\ \A i \in 1..k : created[i] = n + i
    OBVIOUS
  <2> HIDE DEF created
  <2>3. CreatedContents(e)' = [i \in 1..k |-> Outputs(key)[i]]
    BY <1>1, <2>1, <2>2
  <2>4. Outputs(key) = [i \in 1..k |-> Outputs(key)[i]]
    BY <1>1 DEF EventEffect
  <2> QED  BY <2>3, <2>4
<1> QED  BY <1>2, <1>3 DEF NewEvent

\* A match that was tried and is no end has no events, and can have none.
LEMMA PassedKeys ==
    ASSUME NEW Contents, RulesGiveLists(Contents), SystemTyped(Contents), TablesAreExact,
           NEW key \in TriedKeys, key \notin Ends
    PROVE  /\ ~Stored(key) /\ EventsOf(key) = {} /\ Cardinality(EventsOf(key)) = 0
           /\ Len(ReplacedBy(key)) = 0 \/ ~SpacelikeExpressionsQ(key.inputs)
<1>1. ~CanInstantiate(key)
  BY DEF Ends
<1>2. ~Stored(key) /\ (ReplacedBy(key) = <<>> \/ ~SpacelikeExpressionsQ(key.inputs))
  BY <1>1 DEF CanInstantiate
<1>3. EventsOf(key) = {}
  BY <1>2, NeverTried
<1> QED  BY <1>2, <1>3, FS_EmptySet

LEMMA EventKeepsTables ==
    ASSUME NEW Contents, RulesGiveLists(Contents), SystemTyped(Contents), TablesAreExact,
           NEW key, EventEffect(Contents, key), TablesEffect(key)
    PROVE  TablesAreExact'
<1> DEFINE m == Len(eventInputs)
           impossible == {other \in TriedKeys : TriedBefore(other, key)}
           Keys == [rule : Rules, inputs : Inputs]
           count == InstantiationCount(key) + 1
           results == ReplacedBy(key)
           last == count = Len(results)
<1>1. /\ m \in Nat \ {0} /\ DOMAIN eventInputs = 1..m /\ NewEvent = m + 1
      /\ OldAndNew(eventRuleIndices, eventRuleIndices', key.rule, m)
      /\ OldAndNew(eventInputs, eventInputs', key.inputs, m)
  <2>1. m \in Nat \ {0} /\ DOMAIN eventInputs = 1..m /\ NewEvent = m + 1
    BY DEF SystemTyped, EventsTyped, NewEvent
  <2> QED  BY <2>1, EventAdds
<1>2. key \in TriedKeys /\ CanInstantiate(key) /\ key \in Keys
      /\ key = [rule |-> key.rule, inputs |-> key.inputs]
  BY DEF EventEffect
<1>3. /\ \A other \in impossible : other \notin Ends
      /\ key \notin impossible
      /\ DOMAIN instantiationCounts' = DOMAIN instantiationCounts \cup impossible \cup {key}
      /\ instantiationCounts'[key] = IF last THEN All ELSE count
      /\ \A other \in impossible : instantiationCounts'[other] = All
      /\ \A other \in DOMAIN instantiationCounts \ (impossible \cup {key}) :
           instantiationCounts'[other] = instantiationCounts[other]
      /\ DOMAIN instantiations' =
           IF last THEN DOMAIN instantiations \ {key} ELSE DOMAIN instantiations \cup {key}
      /\ \A other \in DOMAIN instantiations' :
           instantiations'[other] = IF other = key THEN results ELSE instantiations[other]
  BY DEF TablesEffect
<1>4. DOMAIN instantiationCounts \subseteq Keys /\ impossible \subseteq Keys
  BY KeysTyped DEF SystemTyped, TablesTyped, TriedKeys, ExpressionsTyped
<1>5. /\ count \in 1..Len(results) /\ InstantiationCount(key) = Cardinality(EventsOf(key))
      /\ InstantiationCount(key) \in Nat /\ Len(results) \in Nat /\ DOMAIN results = 1..Len(results)
      /\ Outputs(key) = results[count]
  <2>1. results \in Seq(Seq(Contents)) /\ Len(results) \in Nat
    BY <1>2, ResultsTyped DEF SystemTyped, ExpressionsTyped
  <2> QED  BY <1>2, <2>1, NextResult DEF Outputs
<1>6. \A other : EventsOf(other) \subseteq 1..m /\ IsFiniteSet(EventsOf(other))
  BY <1>1, EventsOfFinite
<1>7. \A e \in 1..m : e \in Nat /\ e <= m + 1 /\ e # m + 1 /\ ~(m + 1 <= e)
  <2> HIDE DEF m
  <2> QED  BY <1>1
<1>8. ASSUME NEW e \in 2..(m + 1)
      PROVE  [rule |-> eventRuleIndices'[e], inputs |-> eventInputs'[e]] \in DOMAIN instantiationCounts'
  <2>1. e = m + 1 \/ (e \in 2..m /\ e \in 1..m)
    <3> HIDE DEF m
    <3> QED  BY <1>1
  <2>2. CASE e = m + 1
    BY <1>1, <1>2, <1>3, <2>2 DEF OldAndNew
  <2>3. CASE e \in 2..m /\ e \in 1..m
    <3>1. [rule |-> eventRuleIndices[e], inputs |-> eventInputs[e]] \in DOMAIN instantiationCounts
      BY <2>3 DEF TablesAreExact
    <3>2. eventRuleIndices'[e] = eventRuleIndices[e] /\ eventInputs'[e] = eventInputs[e]
      BY <1>1, <2>3 DEF OldAndNew
    <3> QED  BY <1>3, <3>1, <3>2
  <2> QED  BY <2>1, <2>2, <2>3
<1>9. ASSUME NEW other \in DOMAIN instantiationCounts', other # key
      PROVE  CountIsExact(other)'
  <2>1. other \in Keys /\ (other \in impossible \/ other \in DOMAIN instantiationCounts \ (impossible \cup {key}))
    BY <1>3, <1>4, <1>9
  <2>2. /\ ReplacedBy(other)' = ReplacedBy(other)
        /\ SpacelikeExpressionsQ(other.inputs)' <=> SpacelikeExpressionsQ(other.inputs)
        /\ EventsOf(other)' = EventsOf(other)
    BY <1>9, <2>1, OldKeysKept
  <2>3. \A e \in EventsOf(other) : CreatedContents(e)' = CreatedContents(e)
    BY <1>6, CreatedKept
  <2>4. \A e : EventNumber(other, e)' = EventNumber(other, e)
    BY <2>2 DEF EventNumber
  <2>5. CASE other \in impossible
    <3>1. /\ EventsOf(other) = {} /\ Cardinality(EventsOf(other)) = 0
          /\ Len(ReplacedBy(other)) = 0 \/ ~SpacelikeExpressionsQ(other.inputs)
      BY <1>3, <2>5, PassedKeys
    <3>2. instantiationCounts'[other] = All  BY <1>3, <2>5
    <3> QED  BY <2>2, <3>1, <3>2 DEF CountIsExact
  <2>6. CASE other \in DOMAIN instantiationCounts \ (impossible \cup {key})
    <3>1. CountIsExact(other)  BY <2>6 DEF TablesAreExact
    <3>2. instantiationCounts'[other] = instantiationCounts[other]  BY <1>3, <2>6
    <3> QED  BY <2>2, <2>3, <2>4, <3>1, <3>2 DEF CountIsExact
  <2> QED  BY <2>1, <2>5, <2>6
<1>10. CountIsExact(key)'
  <2> DEFINE of == EventsOf(key)
  <2>1. /\ ReplacedBy(key)' = results
        /\ EventsOf(key)' = of \cup {m + 1}
    BY <1>1, <1>2, OldKeysKept
  <2>2. of \subseteq 1..m /\ IsFiniteSet(of) /\ Cardinality(of) \in Nat
    BY <1>1, EventsOfFinite
  <2>3. Cardinality(of \cup {m + 1}) = Cardinality(of) + 1
    <3>1. m + 1 \notin of  BY <1>7, <2>2
    <3> HIDE DEF of, m
    <3> QED  BY <2>2, <3>1, FS_AddElement
  <2>4. Cardinality(of) + 1 = count
    BY <1>5
  <2>5. ASSUME NEW e \in of
        PROVE  EventNumber(key, e)' \in 1..Len(results) /\ CreatedContents(e)' = results[EventNumber(key, e)']
    <3>1. EventNumber(key, e)' = EventNumber(key, e)
      <4>1. e \in 1..m  BY <2>2
      <4>2. {x \in of \cup {m + 1} : x <= e} = {x \in of : x <= e}
        <5>1. ~(m + 1 <= e)  BY <1>7, <4>1
        <5> HIDE DEF of, m
        <5> QED  BY <5>1
      <4> QED  BY <2>1, <4>2 DEF EventNumber
    <3>2. CreatedContents(e)' = CreatedContents(e)
      BY <2>2, CreatedKept
    <3>3. key \in DOMAIN instantiationCounts
      <4>1. of # {}  BY <2>5
      <4>2. Stored(key)  BY <1>2, <4>1, NeverTried
      <4> QED  BY <4>2 DEF Stored, TablesAreExact
    <3>4. CountIsExact(key)  BY <3>3 DEF TablesAreExact
    <3>5. EventNumber(key, e) \in DOMAIN results /\ CreatedContents(e) = results[EventNumber(key, e)]
      BY <2>5, <3>4 DEF CountIsExact
    <3> QED  BY <1>5, <3>1, <3>2, <3>5
  <2>6. ASSUME NEW e, e = m + 1
        PROVE  EventNumber(key, e)' \in 1..Len(results) /\ CreatedContents(e)' = results[EventNumber(key, e)']
    <3>1. {x \in of \cup {m + 1} : x <= e} = of \cup {m + 1}
      <4>1. \A x \in of : x <= e  BY <1>7, <2>2, <2>6
      <4>2. m + 1 <= e  BY <1>1, <2>6
      <4> HIDE DEF of, m
      <4> QED  BY <4>1, <4>2
    <3>2. EventNumber(key, e)' = Cardinality(of \cup {m + 1})
      BY <2>1, <3>1 DEF EventNumber
    <3>3. EventNumber(key, e)' = count
      BY <2>3, <2>4, <3>2
    <3>4. CreatedContents(e)' = Outputs(key)
      BY <1>1, <2>6, CreatedKept
    <3> QED  BY <1>5, <3>3, <3>4
  <2>7. instantiationCounts'[key] = IF last THEN All ELSE count
    BY <1>3
  <2>8. Cardinality(EventsOf(key)') = count
    BY <2>1, <2>3, <2>4
  <2>9. \A e \in EventsOf(key)' :
          EventNumber(key, e)' \in DOMAIN results /\ CreatedContents(e)' = results[EventNumber(key, e)']
    BY <1>5, <2>1, <2>5, <2>6
  <2>10. \/ instantiationCounts'[key] = count /\ count \in 1..(Len(results) - 1)
         \/ instantiationCounts'[key] = All /\ count = Len(results)
    <3>1. count \in 1..Len(results) /\ Len(results) \in Nat  BY <1>5
    <3> HIDE DEF results, count
    <3>2. count = Len(results) \/ count \in 1..(Len(results) - 1)  BY <3>1
    <3> QED  BY <2>7, <3>2
  <2>11. CountIsExact(key)' <=>
           /\ \A e \in EventsOf(key)' :
                EventNumber(key, e)' \in DOMAIN ReplacedBy(key)'
                /\ CreatedContents(e)' = ReplacedBy(key)'[EventNumber(key, e)']
           /\ \/ /\ instantiationCounts'[key] = Cardinality(EventsOf(key)')
                 /\ Cardinality(EventsOf(key)') \in 1..(Len(ReplacedBy(key)') - 1)
              \/ instantiationCounts'[key] = All /\ Cardinality(EventsOf(key)') = Len(ReplacedBy(key)')
              \/ instantiationCounts'[key] = All /\ ~SpacelikeExpressionsQ(key.inputs)'
    BY DEF CountIsExact
  <2> HIDE DEF results, count
  <2> QED  BY <2>1, <2>8, <2>9, <2>10, <2>11
<1>11. DOMAIN instantiations' =
         {other \in DOMAIN instantiationCounts' : instantiationCounts'[other] # All}
  <2>1. DOMAIN instantiations = {other \in DOMAIN instantiationCounts : instantiationCounts[other] # All}
    BY DEF TablesAreExact
  <2>2. \A other \in impossible : other \notin DOMAIN instantiations
    BY <1>3, PassedKeys DEF Stored
  <2>3. count # All
    <3>1. count \in Nat  BY <1>5
    <3> QED  BY <3>1, AllAssumption
  <2> HIDE DEF impossible, last, count
  <2> QED  BY <1>3, <2>1, <2>2, <2>3
<1>12. ASSUME NEW other \in DOMAIN instantiations'
       PROVE  instantiations'[other] = ReplacedBy(other)'
  <2>1. CASE other = key
    <3>1. ReplacedBy(key)' = results  BY <1>2, OldKeysKept
    <3> QED  BY <1>3, <2>1, <3>1
  <2>2. CASE other # key
    <3>1. other \in DOMAIN instantiations  BY <1>3, <2>2
    <3>2. other \in Keys  BY <1>4, <3>1 DEF TablesAreExact
    <3>3. instantiations[other] = ReplacedBy(other)  BY <3>1 DEF TablesAreExact
    <3>4. ReplacedBy(other)' = ReplacedBy(other)  BY <3>2, OldKeysKept
    <3> QED  BY <1>3, <2>2, <3>3, <3>4
  <2> QED  BY <2>1, <2>2
<1>13. Len(eventInputs') = m + 1
  BY <1>1 DEF OldAndNew
<1>14. \A other \in DOMAIN instantiationCounts' : CountIsExact(other)'
  BY <1>9, <1>10
<1> HIDE DEF m, impossible, Keys, count, results, last
<1> QED  BY <1>8, <1>11, <1>12, <1>13, <1>14 DEF TablesAreExact

LEMMA InitTables ==
    ASSUME Init
    PROVE  TablesAreExact
<1>1. /\ Len(eventInputs) = 1 /\ DOMAIN instantiationCounts = {} /\ DOMAIN instantiations = {}
  BY DEF Init, NoEntries
<1>2. 2..Len(eventInputs) = {}
  BY <1>1
<1> QED  BY <1>1, <1>2 DEF TablesAreExact

\* Nothing that the tables are about changes with the tables alone.
LEMMA OnlyTablesChange ==
    ASSUME UNCHANGED <<system, eventVars, instantiations>>
    PROVE  /\ \A key : /\ ReplacedBy(key)' = ReplacedBy(key) /\ EventsOf(key)' = EventsOf(key)
                       /\ SpacelikeExpressionsQ(key.inputs)' <=> SpacelikeExpressionsQ(key.inputs)
           /\ \A key, e : EventNumber(key, e)' = EventNumber(key, e)
           /\ \A e : CreatedContents(e)' = CreatedContents(e)
           /\ \A key : CountIsExact(key)' <=>
                LET used == Cardinality(EventsOf(key))
                    results == ReplacedBy(key)
                IN  /\ \A e \in EventsOf(key) :
                         /\ EventNumber(key, e) \in DOMAIN results
                         /\ CreatedContents(e) = results[EventNumber(key, e)]
                    /\ \/ instantiationCounts'[key] = used /\ used \in 1..(Len(results) - 1)
                       \/ instantiationCounts'[key] = All /\ used = Len(results)
                       \/ instantiationCounts'[key] = All /\ ~SpacelikeExpressionsQ(key.inputs)
<1>1. /\ system' = system /\ expressions' = expressions /\ eventRuleIndices' = eventRuleIndices
      /\ eventInputs' = eventInputs /\ eventOutputs' = eventOutputs
      /\ expressionCreatorEvents' = expressionCreatorEvents /\ destroyerChoices' = destroyerChoices
  BY DEF eventVars
<1>2. \A key : ReplacedBy(key)' = ReplacedBy(key)
  BY <1>1 DEF ReplacedBy, InputContents
<1>3. \A key : EventsOf(key)' = EventsOf(key)
  BY <1>1 DEF EventsOf
<1>4. \A inputs : SpacelikeExpressionsQ(inputs)' <=> SpacelikeExpressionsQ(inputs)
  BY <1>1 DEF SpacelikeExpressionsQ, ExpressionsSeparation
<1>5. \A key, e : EventNumber(key, e)' = EventNumber(key, e)
  BY <1>3 DEF EventNumber
<1>6. \A e : CreatedContents(e)' = CreatedContents(e)
  BY <1>1 DEF CreatedContents
<1>7. \A key : CountIsExact(key)' <=>
                LET used == Cardinality(EventsOf(key))
                    results == ReplacedBy(key)
                IN  /\ \A e \in EventsOf(key) :
                         /\ EventNumber(key, e) \in DOMAIN results
                         /\ CreatedContents(e) = results[EventNumber(key, e)]
                    /\ \/ instantiationCounts'[key] = used /\ used \in 1..(Len(results) - 1)
                       \/ instantiationCounts'[key] = All /\ used = Len(results)
                       \/ instantiationCounts'[key] = All /\ ~SpacelikeExpressionsQ(key.inputs)
  BY <1>2, <1>3, <1>4, <1>5, <1>6 DEF CountIsExact
<1> QED  BY <1>2, <1>3, <1>4, <1>5, <1>6, <1>7

LEMMA CompletionKeepsTables ==
    ASSUME NEW Contents, RulesGiveLists(Contents), SystemTyped(Contents), TablesAreExact,
           ThrowComplete
    PROVE  TablesAreExact'
<1>1. /\ Ends = {} /\ instantiationCounts' = CountsAfter(TriedKeys)
      /\ UNCHANGED <<system, eventVars, instantiations>>
  BY DEF ThrowComplete, Stop
<1>2. /\ DOMAIN instantiationCounts' = DOMAIN instantiationCounts \cup TriedKeys
      /\ \A key \in TriedKeys : instantiationCounts'[key] = All
      /\ \A key \in DOMAIN instantiationCounts \ TriedKeys :
           instantiationCounts'[key] = instantiationCounts[key]
  BY <1>1 DEF CountsAfter
<1>3. \A key \in TriedKeys :
        /\ ~Stored(key) /\ EventsOf(key) = {} /\ Cardinality(EventsOf(key)) = 0
        /\ Len(ReplacedBy(key)) = 0 \/ ~SpacelikeExpressionsQ(key.inputs)
  BY <1>1, PassedKeys
<1>4. ASSUME NEW key \in DOMAIN instantiationCounts' PROVE CountIsExact(key)'
  <2>1. CASE key \in TriedKeys
    BY <1>1, <1>2, <1>3, <2>1, OnlyTablesChange
  <2>2. CASE key \notin TriedKeys
    <3>1. CountIsExact(key) /\ instantiationCounts'[key] = instantiationCounts[key]
      BY <1>2, <2>2 DEF TablesAreExact
    <3> QED  BY <1>1, <3>1, OnlyTablesChange DEF CountIsExact
  <2> QED  BY <2>1, <2>2
<1>5. eventRuleIndices' = eventRuleIndices /\ eventInputs' = eventInputs /\ instantiations' = instantiations
  BY <1>1 DEF eventVars
<1>6. \A e \in 2..Len(eventInputs') :
        [rule |-> eventRuleIndices'[e], inputs |-> eventInputs'[e]] \in DOMAIN instantiationCounts'
  BY <1>2, <1>5 DEF TablesAreExact
<1>7. DOMAIN instantiations' =
        {key \in DOMAIN instantiationCounts' : instantiationCounts'[key] # All}
  BY <1>2, <1>3, <1>5 DEF TablesAreExact, Stored
<1>8. \A key \in DOMAIN instantiations' : instantiations'[key] = ReplacedBy(key)'
  BY <1>1, <1>5, OnlyTablesChange DEF TablesAreExact
<1> QED  BY <1>4, <1>6, <1>7, <1>8 DEF TablesAreExact

-----------------------------------------------------------------------------
(* Nothing is left when an evaluation completes.                           *)

LEMMA EventCountsDestroyers ==
    ASSUME NEW Contents, SystemTyped(Contents), DestroyersCounted,
           NEW key, EventEffect(Contents, key)
    PROVE  DestroyersCounted'
<1> DEFINE m == Len(eventInputs)
           n == Len(expressions)
           k == Len(Outputs(key))
           inputs == ToSet(key.inputs)
<1>1. /\ m \in Nat \ {0} /\ n \in Nat /\ k \in Nat
      /\ DOMAIN eventInputs' = 1..(m + 1) /\ eventInputs'[m + 1] = key.inputs
      /\ \A e \in 1..m : eventInputs'[e] = eventInputs[e]
      /\ DOMAIN expressions' = 1..(n + k)
      /\ \A i \in 1..n : expressionDestroyerEventCounts'[i] =
           expressionDestroyerEventCounts[i] + (IF i \in inputs THEN 1 ELSE 0)
      /\ \A i \in 1..k : expressionDestroyerEventCounts'[n + i] = 0
  BY EventAdds DEF OldAndNew
<1>2. DOMAIN eventInputs = 1..m /\ DOMAIN expressions = 1..n
  BY DEF SystemTyped, EventsTyped, ExpressionsTyped
<1>3. \A e \in 1..m : ToSet(eventInputs[e]) \subseteq 1..n
  <2>1. \A e \in 1..m : eventInputs[e] \in Seq(1..n)
    BY DEF SystemTyped, EventsTyped, Inputs
  <2> QED  BY <2>1 DEF ToSet
<1>4. inputs \subseteq 1..n
  <2>1. key.inputs \in Seq(1..n)  BY DEF EventEffect, Inputs
  <2> QED  BY <2>1 DEF ToSet
<1>5. \A e : e \in 1..(m + 1) <=> (e \in 1..m \/ e = m + 1)
  <2> HIDE DEF m
  <2> QED  BY <1>1
<1>6. m + 1 \notin 1..m /\ IsFiniteSet(1..m)
  <2>1. m + 1 \notin 1..m /\ 1 \in Int /\ m \in Int  BY <1>1
  <2> HIDE DEF m
  <2> QED  BY <2>1, FS_Interval
<1>7. \A id : DestroyersOf(id)' = {e \in 1..(m + 1) : id \in ToSet(eventInputs'[e])}
  BY <1>1 DEF DestroyersOf
<1>8. \A id : DestroyersOf(id) = {e \in 1..m : id \in ToSet(eventInputs[e])}
  BY <1>2 DEF DestroyersOf
<1>9. \A id : DestroyersOf(id)' =
        IF id \in inputs THEN DestroyersOf(id) \cup {m + 1} ELSE DestroyersOf(id)
  <2> SUFFICES ASSUME NEW id, NEW e
               PROVE  e \in DestroyersOf(id)' <=> (e \in DestroyersOf(id) \/ (id \in inputs /\ e = m + 1))
    <3> HIDE DEF m, inputs
    <3> QED  OBVIOUS
  <2> HIDE DEF m
  <2>1. CASE e \in 1..m  BY <1>1, <1>5, <1>6, <1>7, <1>8, <2>1, Zenon
  <2>2. CASE e = m + 1  BY <1>1, <1>5, <1>6, <1>7, <1>8, <2>2, Zenon
  <2>3. CASE e \notin 1..m /\ e # m + 1  BY <1>5, <1>7, <1>8, <2>3, Zenon
  <2> QED  BY <2>1, <2>2, <2>3
<1>10. ASSUME NEW id \in 1..n
       PROVE  expressionDestroyerEventCounts'[id] = Cardinality(DestroyersOf(id)')
  <2>1. expressionDestroyerEventCounts[id] = Cardinality(DestroyersOf(id))
    BY <1>2 DEF DestroyersCounted
  <2>2. DestroyersOf(id) \subseteq 1..m  BY <1>8
  <2>3. IsFiniteSet(DestroyersOf(id)) /\ m + 1 \notin DestroyersOf(id)
    BY <1>6, <2>2, FS_Subset
  <2>4. /\ Cardinality(DestroyersOf(id) \cup {m + 1}) = Cardinality(DestroyersOf(id)) + 1
        /\ Cardinality(DestroyersOf(id)) \in Nat
    <3> HIDE DEF m
    <3> QED  BY <2>3, FS_AddElement, FS_CardinalityType
  <2>5. CASE id \in inputs
    BY <1>1, <1>9, <2>1, <2>4, <2>5
  <2>6. CASE id \notin inputs
    <3>1. Cardinality(DestroyersOf(id)) + 0 = Cardinality(DestroyersOf(id))  BY <2>4
    <3> QED  BY <1>1, <1>9, <2>1, <2>6, <3>1
  <2> QED  BY <2>5, <2>6
<1>11. ASSUME NEW i \in 1..k, NEW id, id = n + i
       PROVE  expressionDestroyerEventCounts'[id] = Cardinality(DestroyersOf(id)')
  <2>1. id \notin 1..n
    <3> HIDE DEF n, k
    <3> QED  BY <1>1, <1>11
  <2>2. id \notin inputs  BY <1>4, <2>1
  <2>3. DestroyersOf(id) = {}
    <3> HIDE DEF n, m
    <3> QED  BY <1>3, <1>8, <2>1
  <2>4. DestroyersOf(id)' = {}  BY <1>9, <2>2, <2>3
  <2>5. expressionDestroyerEventCounts'[id] = 0  BY <1>1, <1>11
  <2> QED  BY <2>4, <2>5, FS_EmptySet
<1>12. \A id \in 1..(n + k) : id \in 1..n \/ \E i \in 1..k : id = n + i
  <2> SUFFICES ASSUME NEW id \in 1..(n + k), id \notin 1..n PROVE \E i \in 1..k : id = n + i
    OBVIOUS
  <2> HIDE DEF n, k
  <2>1. id - n \in 1..k /\ id = n + (id - n)  BY <1>1
  <2> QED  BY <2>1
<1>13. DestroyersCounted' <=> \A id \in DOMAIN expressions' :
         expressionDestroyerEventCounts'[id] = Cardinality(DestroyersOf(id)')
  BY DEF DestroyersCounted
<1>14. ASSUME NEW id \in DOMAIN expressions'
       PROVE  expressionDestroyerEventCounts'[id] = Cardinality(DestroyersOf(id)')
  <2>1. id \in 1..n \/ \E i \in 1..k : id = n + i  BY <1>1, <1>12
  <2>2. CASE id \in 1..n  BY <1>10, <2>2
  <2>3. CASE id \notin 1..n
    <3>1. PICK i \in 1..k : id = n + i  BY <2>1, <2>3
    <3> QED  BY <1>11, <3>1
  <2> QED  BY <2>2, <2>3
<1> QED  BY <1>13, <1>14

LEMMA InitCountsDestroyers ==
    ASSUME NEW Contents, RulesGiveLists(Contents), Init
    PROVE  DestroyersCounted
<1>1. eventInputs = << <<>> >> /\ system.init \in Seq(Contents) /\ expressions = system.init
      /\ expressionDestroyerEventCounts = [i \in DOMAIN system.init |-> 0]
  BY DEF Init, RulesGiveLists
<1>2. ToSet(<<>>) = {}
  BY DEF ToSet
<1>3. \A id : DestroyersOf(id) = {}
  <2>1. DOMAIN eventInputs = 1..1 /\ eventInputs[1] = <<>>  BY <1>1
  <2>2. \A e \in DOMAIN eventInputs : eventInputs[e] = <<>>  BY <2>1
  <2> QED  BY <1>2, <2>2 DEF DestroyersOf
<1> QED  BY <1>1, <1>3, FS_EmptySet DEF DestroyersCounted

\* If the search ends nowhere there is nothing to find.
LEMMA NothingFound ==
    ASSUME NEW Contents, RulesGiveLists(Contents), RulesKnowTheirInputs(Contents),
           SystemTyped(Contents), TablesAreExact, DestroyersCounted, Ends = {},
           NEW n \in Parameters.minEventInputs..Min({Parameters.maxEventInputs, Len(expressions)}),
           NEW key \in [rule : Rules, inputs : InjectiveTuples(n)]
    PROVE  ~NextInstantiationPossible(key)
<1> SUFFICES ASSUME NextInstantiationPossible(key) PROVE FALSE
  OBVIOUS
<1> DEFINE used == Cardinality(EventsOf(key))
           results == ReplacedBy(key)
<1>1. /\ system \in Systems /\ expressions \in Seq(Contents)
      /\ Len(expressions) \in Nat /\ DOMAIN expressions = 1..Len(expressions)
  BY DEF SystemTyped, ExpressionsTyped
<1>2. /\ Parameters.minEventInputs \in Nat /\ Parameters.maxEventInputs \in Nat
      /\ \A r \in Rules : InputCountRange(system.rules[r])[1] \in Nat
  BY <1>1, SystemTypes
<1>3. n \in Nat /\ Parameters.minEventInputs <= n /\ n <= Parameters.maxEventInputs
      /\ n <= Len(expressions)
  <2> DEFINE AtMost == {Parameters.maxEventInputs, Len(expressions)}
  <2>1. AtMost \in SUBSET Nat /\ AtMost # {}  BY <1>1, <1>2
  <2> HIDE DEF AtMost
  <2>2. Min(AtMost) \in AtMost /\ \A x \in AtMost : Min(AtMost) <= x
    BY <2>1, MinIsLeast
  <2> USE DEF AtMost
  <2>3. /\ Min(AtMost) \in Nat
        /\ Min(AtMost) <= Parameters.maxEventInputs /\ Min(AtMost) <= Len(expressions)
    BY <1>1, <1>2, <2>2
  <2>4. n \in Parameters.minEventInputs..Min(AtMost)  OBVIOUS
  <2> HIDE DEF AtMost
  <2> QED  BY <1>1, <1>2, <2>3, <2>4
<1>4. /\ key.rule \in Rules /\ key.inputs \in InjectiveTuples(n)
      /\ key.inputs \in Inputs /\ Len(key.inputs) = n /\ key \in [rule : Rules, inputs : Inputs]
  <2>1. key.rule \in Rules /\ key.inputs \in InjectiveTuples(n)  OBVIOUS
  <2>2. key.inputs \in [1..n -> 1..Len(expressions)]  BY <1>1, <2>1 DEF InjectiveTuples
  <2>3. key.inputs \in Seq(1..Len(expressions)) /\ Len(key.inputs) = n
    <3> DEFINE S == 1..Len(expressions)
    <3>1. key.inputs \in [1..n -> S]  BY <2>2
    <3> HIDE DEF S
    <3>2. key.inputs \in Seq(S) /\ Len(key.inputs) = n  BY <1>3, <3>1, ListOf
    <3> QED  BY <3>2 DEF S
  <2>4. key \in [rule : Rules, inputs : Inputs]  BY <2>3 DEF Inputs
  <2> QED  BY <2>1, <2>3, <2>4 DEF Inputs
<1>5. /\ results \in Seq(Seq(Contents)) /\ Len(results) \in Nat
      /\ InputContents(key) \in Seq(Contents) /\ Len(InputContents(key)) = n
      /\ system.rules[key.rule] \in ToSet(system.rules)
  BY <1>1, <1>4, ResultsTyped
<1>6. used \in Nat /\ used < Len(results) /\ SpacelikeExpressionsQ(key.inputs)
  <2>1. Len(eventInputs) \in Nat /\ DOMAIN eventInputs = 1..Len(eventInputs)
    BY DEF SystemTyped, EventsTyped
  <2>2. used \in Nat  BY <2>1, EventsOfFinite
  <2> QED  BY <2>2 DEF NextInstantiationPossible
<1>7. results # <<>>
  <2> HIDE DEF used, results
  <2>1. results = <<>> => Len(results) = 0  OBVIOUS
  <2> QED  BY <1>6, <2>1
<1>8. key \in PossibleKeys
  <2>1. n <= system.parameters.maxEventInputs  BY <1>3 DEF Parameters
  <2>2. /\ InputCountRange(system.rules[key.rule])[1] <= n
        /\ n <= InputCountRange(system.rules[key.rule])[2]
    BY <1>1, <1>5, <1>7, <2>1 DEF RulesKnowTheirInputs, ReplacedBy
  <2>3. n \in MinEventInputs..MaxEventInputs
    BY <1>1, <1>3, <1>4, <2>2, TriedCounts
  <2> QED  BY <1>4, <2>3 DEF PossibleKeys
<1>9. ASSUME NEW i \in DOMAIN key.inputs
      PROVE  /\ expressionDestroyerEventCounts[key.inputs[i]] < Parameters.maxDestroyerEvents
             /\ eventGenerations[expressionCreatorEvents[key.inputs[i]]] < Parameters.maxGeneration
  <2>1. key.inputs[i] \in DOMAIN expressions
    <3>1. key.inputs \in [1..n -> DOMAIN expressions]  BY <1>4 DEF InjectiveTuples
    <3> QED  BY <3>1
  <2>2. expressionDestroyerEventCounts[key.inputs[i]] = Cardinality(DestroyersOf(key.inputs[i]))
    BY <2>1 DEF DestroyersCounted
  <2> QED  BY <2>2 DEF NextInstantiationPossible, DestroyersOf
<1>10. CASE InstantiationCount(key) = All
  <2>1. key \in DOMAIN instantiationCounts /\ instantiationCounts[key] = All
    BY <1>10, AllAssumption DEF InstantiationCount
  <2>2. \/ instantiationCounts[key] = used
        \/ used = Len(results)
        \/ ~SpacelikeExpressionsQ(key.inputs)
    BY <2>1 DEF TablesAreExact, CountIsExact
  <2>3. All # used  BY <1>6, AllAssumption
  <2> HIDE DEF used, results
  <2> QED  BY <1>5, <1>6, <2>1, <2>2, <2>3
<1>11. CASE InstantiationCount(key) # All
  <2>1. key \in TriedKeys  BY <1>8, <1>9, <1>11 DEF TriedKeys
  <2>2. CanInstantiate(key)  BY <1>6, <1>7 DEF CanInstantiate
  <2> QED  BY <2>1, <2>2 DEF Ends
<1> QED  BY <1>10, <1>11

\* Results are stored of matches whose inputs are spacelike separated, which is
\* why this need not be looked at again.
StoredAreSpacelike == \A key \in DOMAIN instantiations : SpacelikeExpressionsQ(key.inputs)

\* What the theorems rest on: the types, and that nothing is remembered wrongly.
MultisetSound(Contents) ==
    /\ SystemTyped(Contents) /\ TablesAreExact /\ DestroyersCounted
    /\ StoredAreSpacelike /\ CompleteMeansExhausted

LEMMA EventKeepsStored ==
    ASSUME NEW Contents, SystemTyped(Contents), TablesAreExact, StoredAreSpacelike,
           NEW key, EventEffect(Contents, key), TablesEffect(key)
    PROVE  StoredAreSpacelike'
<1>1. SpacelikeExpressionsQ(key.inputs)
  BY DEF EventEffect, CanInstantiate, StoredAreSpacelike, Stored
<1>2. ASSUME NEW other \in DOMAIN instantiations' PROVE SpacelikeExpressionsQ(other.inputs)'
  <2>1. other = key \/ other \in DOMAIN instantiations
    BY DEF TablesEffect
  <2>2. other \in [rule : Rules, inputs : Inputs]
    BY <2>1 DEF EventEffect, SystemTyped, TablesTyped, TablesAreExact
  <2>3. SpacelikeExpressionsQ(other.inputs)
    BY <1>1, <2>1 DEF StoredAreSpacelike
  <2> QED  BY <2>2, <2>3, OldKeysKept
<1> QED  BY <1>2 DEF StoredAreSpacelike

LEMMA InitSound ==
    ASSUME NEW Contents, RulesGiveLists(Contents), Init
    PROVE  MultisetSound(Contents)
<1>1. DOMAIN instantiations = {} /\ terminationReason = "none"
  BY DEF Init, NoEntries
<1> QED  BY <1>1, InitTyped, InitTables, InitCountsDestroyers
         DEF MultisetSound, StoredAreSpacelike, CompleteMeansExhausted

LEMMA EventKeepsSound ==
    ASSUME NEW Contents, RulesGiveLists(Contents), MultisetSound(Contents),
           NEW key \in FirstEnds, EvaluateSingleEvent(key)
    PROVE  MultisetSound(Contents)'
<1>1. EventEffect(Contents, key) /\ TablesEffect(key)
  BY EffectOfEvent DEF MultisetSound
<1>2. SystemTyped(Contents)'  BY <1>1, EventKeepsTypes DEF MultisetSound
<1>3. TablesAreExact'  BY <1>1, EventKeepsTables DEF MultisetSound
<1>4. DestroyersCounted'  BY <1>1, EventCountsDestroyers DEF MultisetSound
<1>5. StoredAreSpacelike'  BY <1>1, EventKeepsStored DEF MultisetSound
<1>6. CompleteMeansExhausted'  BY <1>1 DEF EventEffect, CompleteMeansExhausted
<1> QED  BY <1>2, <1>3, <1>4, <1>5, <1>6 DEF MultisetSound

\* A step that is no event changes no more than the counts.
LEMMA QuietKeepsSound ==
    ASSUME NEW Contents, MultisetSound(Contents), UNCHANGED <<system, eventVars, instantiations>>,
           TablesAreExact', DOMAIN instantiationCounts' \subseteq [rule : Rules, inputs : Inputs],
           terminationReason' \in {"none", "Complete", "Failure", "MaxEvents"},
           terminationReason' = "Complete" =>
             \A n \in Parameters.minEventInputs..Min({Parameters.maxEventInputs, Len(expressions)}) :
               \A key \in [rule : Rules, inputs : InjectiveTuples(n)] : ~NextInstantiationPossible(key)
    PROVE  MultisetSound(Contents)'
<1>1. /\ system' = system /\ expressions' = expressions /\ eventRuleIndices' = eventRuleIndices
      /\ eventInputs' = eventInputs /\ eventOutputs' = eventOutputs
      /\ eventGenerations' = eventGenerations
      /\ expressionCreatorEvents' = expressionCreatorEvents
      /\ expressionDestroyerEventCounts' = expressionDestroyerEventCounts
      /\ destroyerChoices' = destroyerChoices
      /\ instantiations' = instantiations
  BY DEF eventVars
<1>2. Parameters' = Parameters /\ Rules' = Rules /\ Inputs' = Inputs
  BY <1>1 DEF Parameters, Rules, Inputs
<1>3. SystemTyped(Contents)'
  BY <1>1, <1>2 DEF MultisetSound, SystemTyped, EventsTyped, ExpressionsTyped, ChoicesTyped, TablesTyped
<1>4. DestroyersCounted'
  BY <1>1 DEF MultisetSound, DestroyersCounted, DestroyersOf
<1>5. \A inputs : SpacelikeExpressionsQ(inputs)' <=> SpacelikeExpressionsQ(inputs)
  BY <1>1 DEF SpacelikeExpressionsQ, ExpressionsSeparation
<1>6. StoredAreSpacelike'
  BY <1>1, <1>5 DEF MultisetSound, StoredAreSpacelike
<1>7. \A n : InjectiveTuples(n)' = InjectiveTuples(n)
  BY <1>1 DEF InjectiveTuples
<1>8. \A key : NextInstantiationPossible(key)' <=> NextInstantiationPossible(key)
  <2>1. \A key : ReplacedBy(key)' = ReplacedBy(key) /\ EventsOf(key)' = EventsOf(key)
    BY <1>1 DEF ReplacedBy, InputContents, EventsOf
  <2> QED  BY <1>1, <1>2, <1>5, <2>1 DEF NextInstantiationPossible
<1>9. CompleteMeansExhausted'
  <2>1. CASE terminationReason' = "Complete"
    <3>1. CompleteMeansExhausted' <=>
            (terminationReason' = "Complete" =>
              \A n \in Parameters'.minEventInputs..Min({Parameters'.maxEventInputs, Len(expressions')}) :
                \A key \in [rule : Rules', inputs : InjectiveTuples(n)'] : ~NextInstantiationPossible(key)')
      BY DEF CompleteMeansExhausted
    <3> QED  BY <1>1, <1>2, <1>7, <1>8, <2>1, <3>1
  <2>2. CASE terminationReason' # "Complete"
    BY <2>2 DEF CompleteMeansExhausted
  <2> QED  BY <2>1, <2>2
<1> QED  BY <1>3, <1>4, <1>6, <1>9 DEF MultisetSound

LEMMA StepSound ==
    ASSUME NEW Contents, RulesGiveLists(Contents), RulesKnowTheirInputs(Contents),
           MultisetSound(Contents), [Next]_vars
    PROVE  MultisetSound(Contents)'
<1>1. CASE \E key \in FirstEnds : EvaluateSingleEvent(key)
  BY <1>1, EventKeepsSound
<1>2. CASE ThrowComplete
  <2>1. TablesAreExact'  BY <1>2, CompletionKeepsTables DEF MultisetSound
  <2>2. \A n \in Parameters.minEventInputs..Min({Parameters.maxEventInputs, Len(expressions)}) :
          \A key \in [rule : Rules, inputs : InjectiveTuples(n)] : ~NextInstantiationPossible(key)
    <3>1. Ends = {}  BY <1>2 DEF ThrowComplete
    <3> QED  BY <3>1, NothingFound DEF MultisetSound
  <2>3. DOMAIN instantiationCounts' \subseteq [rule : Rules, inputs : Inputs]
    <3>1. DOMAIN instantiationCounts' = DOMAIN instantiationCounts \cup TriedKeys
      BY <1>2 DEF ThrowComplete, CountsAfter
    <3>2. TriedKeys \subseteq [rule : Rules, inputs : Inputs]
      BY KeysTyped DEF TriedKeys, MultisetSound, SystemTyped, ExpressionsTyped
    <3> QED  BY <3>1, <3>2 DEF MultisetSound, SystemTyped, TablesTyped
  <2>4. /\ UNCHANGED <<system, eventVars, instantiations>> /\ terminationReason' = "Complete"
    BY <1>2 DEF ThrowComplete, Stop
  <2> QED  BY <2>1, <2>2, <2>3, <2>4, QuietKeepsSound
<1>3. CASE ThrowFailure \/ StopAtMaxEvents \/ Terminated \/ UNCHANGED vars
  <2>1. /\ instantiationCounts' = instantiationCounts
        /\ UNCHANGED <<system, eventVars, instantiations>>
        /\ terminationReason' \in {"Failure", "MaxEvents", terminationReason}
    BY <1>3 DEF ThrowFailure, StopAtMaxEvents, Terminated, Stop, vars
  <2>2. eventRuleIndices' = eventRuleIndices /\ eventInputs' = eventInputs /\ instantiations' = instantiations
    BY <2>1 DEF eventVars
  <2>3. TablesAreExact'
    <3>1. \A key \in DOMAIN instantiationCounts' : CountIsExact(key)'
      BY <2>1, OnlyTablesChange DEF MultisetSound, TablesAreExact, CountIsExact
    <3>2. \A key \in DOMAIN instantiations' : instantiations'[key] = ReplacedBy(key)'
      BY <2>1, <2>2, OnlyTablesChange DEF MultisetSound, TablesAreExact
    <3> QED  BY <2>1, <2>2, <3>1, <3>2 DEF MultisetSound, TablesAreExact
  <2>4. DOMAIN instantiationCounts' \subseteq [rule : Rules, inputs : Inputs]
    BY <2>1 DEF MultisetSound, SystemTyped, TablesTyped
  <2>5. terminationReason' \in {"none", "Complete", "Failure", "MaxEvents"}
    BY <2>1 DEF MultisetSound, SystemTyped
  <2>6. terminationReason' = "Complete" =>
          \A n \in Parameters.minEventInputs..Min({Parameters.maxEventInputs, Len(expressions)}) :
            \A key \in [rule : Rules, inputs : InjectiveTuples(n)] : ~NextInstantiationPossible(key)
    BY <2>1 DEF MultisetSound, CompleteMeansExhausted
  <2> QED  BY <2>1, <2>3, <2>4, <2>5, <2>6, QuietKeepsSound
<1> QED  BY <1>1, <1>2, <1>3 DEF Next

LEMMA MultisetStaysSound ==
    ASSUME NEW Contents, RulesGiveLists(Contents), RulesKnowTheirInputs(Contents)
    PROVE  Spec => []MultisetSound(Contents)
<1>1. Init => MultisetSound(Contents)  BY InitSound
<1>2. MultisetSound(Contents) /\ [Next]_vars => MultisetSound(Contents)'  BY StepSound
<1> QED  BY <1>1, <1>2, PTL DEF Spec

\* The counts of the events of a match, All for those that have no more, and the
\* stored results are what happened: createInstantiationsIfPossible and
\* createEvent keep the two tables right, whatever the rules give.
THEOREM TablesAlwaysExact ==
    ASSUME NEW Contents, RulesGiveLists(Contents), RulesKnowTheirInputs(Contents)
    PROVE  Spec => []TablesAreExact
<1>1. MultisetSound(Contents) => TablesAreExact  BY DEF MultisetSound
<1> QED  BY <1>1, MultisetStaysSound, PTL

\* When findMatch finds nothing and the evaluation is called complete, nothing the
\* parameters admit is left to be done, although findMatch skips what it remembers
\* to be impossible and the numbers of inputs no rule can have.
THEOREM CompleteIsExhausted ==
    ASSUME NEW Contents, RulesGiveLists(Contents), RulesKnowTheirInputs(Contents)
    PROVE  Spec => []CompleteMeansExhausted
<1>1. MultisetSound(Contents) => CompleteMeansExhausted  BY DEF MultisetSound
<1> QED  BY <1>1, MultisetStaysSound, PTL

-----------------------------------------------------------------------------
(* The evaluation is one of the causal graph.                              *)

\* What the graph is told of the numbers of inputs and outputs is right.
EventsBounded(Contents) ==
    \A s \in Systems : \A rule \in ToSet(s.rules), contents \in Seq(Contents) :
      /\ \A r \in DOMAIN ReplaceList(rule, contents) : Len(ReplaceList(rule, contents)[r]) <= MaxOutputs
      /\ ReplaceList(rule, contents) # <<>> /\ Len(contents) <= s.parameters.maxEventInputs =>
           Len(contents) <= MaxInputs

\* What an event depends on was destroyed before: it was created before.
ChoicesArePast ==
    \A e \in 1..Len(eventInputs) : \A id \in DOMAIN destroyerChoices[e] :
        expressionCreatorEvents[id] < e

LEMMA ChoicesStayPast ==
    ASSUME NEW Contents, SystemTyped(Contents), ChoicesArePast,
           NEW key, EventEffect(Contents, key)
    PROVE  ChoicesArePast'
<1> DEFINE m == Len(eventInputs)
           n == Len(expressions)
           new == NewDestroyerChoices(key.inputs, m + 1)
<1>1. /\ m \in Nat \ {0} /\ n \in Nat /\ Len(eventInputs') = m + 1
      /\ \A e \in 1..m : destroyerChoices'[e] = destroyerChoices[e]
      /\ destroyerChoices'[m + 1] = new
      /\ \A id \in 1..n : expressionCreatorEvents'[id] = expressionCreatorEvents[id]
  BY EventAdds DEF OldAndNew
<1>2. \A id \in 1..n : expressionCreatorEvents[id] \in 1..m
  BY DEF SystemTyped, ExpressionsTyped
<1>3. DOMAIN new \subseteq 1..n
  <2>1. key.inputs \in Inputs  BY DEF EventEffect
  <2>2. new \in ChoiceFunctions(n, m + 1)  BY <2>1, NewChoicesTyped DEF NewEvent
  <2> HIDE DEF new, n, m
  <2> QED  BY <2>2 DEF ChoiceFunctions
<1>4. \A e \in 1..m : DOMAIN destroyerChoices[e] \subseteq 1..n
  <2>1. \A e \in 1..m : destroyerChoices[e] \in ChoiceFunctions(n, m)
    BY DEF SystemTyped, ChoicesTyped
  <2> HIDE DEF n, m
  <2> QED  BY <2>1 DEF ChoiceFunctions
<1>5. ASSUME NEW e \in 1..(m + 1), NEW id \in DOMAIN destroyerChoices'[e]
      PROVE  expressionCreatorEvents'[id] < e
  <2>1. e \in 1..m \/ e = m + 1
    <3> HIDE DEF m
    <3> QED  BY <1>1
  <2>2. CASE e \in 1..m
    BY <1>1, <1>4, <2>2 DEF ChoicesArePast
  <2>3. CASE e = m + 1
    <3>1. id \in 1..n  BY <1>1, <1>3, <2>3
    <3>2. expressionCreatorEvents'[id] \in 1..m  BY <1>1, <1>2, <3>1
    <3> HIDE DEF m
    <3> QED  BY <1>1, <2>3, <3>2
  <2> QED  BY <2>1, <2>2, <2>3
<1> QED  BY <1>1, <1>5 DEF ChoicesArePast

\* The inputs of a match require no destroyers of each other, or of themselves,
\* and none that contradict each other.
LEMMA InputsAgree ==
    ASSUME NEW Contents, SystemTyped(Contents), ChoicesArePast, NEW inputs \in Inputs,
           SpacelikeExpressionsQ(inputs), NEW i \in DOMAIN inputs, NEW j \in DOMAIN inputs
    PROVE  LET choices == destroyerChoices[expressionCreatorEvents[inputs[i]]]
               others == destroyerChoices[expressionCreatorEvents[inputs[j]]]
           IN  /\ inputs[j] \notin DOMAIN choices /\ inputs[i] \notin DOMAIN others
               /\ \A id \in DOMAIN choices \cap DOMAIN others : choices[id] = others[id]
               /\ i # j => ExpressionsSeparation(inputs[i], inputs[j]) = "Spacelike"
<1> DEFINE choices == destroyerChoices[expressionCreatorEvents[inputs[i]]]
           others == destroyerChoices[expressionCreatorEvents[inputs[j]]]
           Goal == /\ inputs[j] \notin DOMAIN choices /\ inputs[i] \notin DOMAIN others
                   /\ \A id \in DOMAIN choices \cap DOMAIN others : choices[id] = others[id]
                   /\ i # j => ExpressionsSeparation(inputs[i], inputs[j]) = "Spacelike"
           n == Len(expressions)
<1>1. i \in Nat /\ j \in Nat /\ inputs[i] \in 1..n /\ inputs[j] \in 1..n
  <2> DEFINE S == 1..n
  <2>1. inputs \in Seq(S)  BY DEF Inputs
  <2> HIDE DEF S
  <2>2. i \in Nat /\ j \in Nat /\ inputs[i] \in S /\ inputs[j] \in S  BY <2>1
  <2> QED  BY <2>2 DEF S
<1>2. CASE i = j
  <2>1. expressionCreatorEvents[inputs[i]] \in 1..Len(eventInputs)
    BY <1>1 DEF SystemTyped, ExpressionsTyped
  <2>2. Len(eventInputs) \in Nat  BY DEF SystemTyped, EventsTyped
  <2>3. inputs[i] \notin DOMAIN choices
    <3> SUFFICES ASSUME inputs[i] \in DOMAIN choices PROVE FALSE
      OBVIOUS
    <3>1. expressionCreatorEvents[inputs[i]] < expressionCreatorEvents[inputs[i]]
      BY <2>1 DEF ChoicesArePast
    <3> QED  BY <2>1, <2>2, <3>1
  <2> QED  BY <1>2, <2>3
<1>3. \A a, b : ExpressionsSeparation(a, b) = "Spacelike" =>
        /\ a # b
        /\ b \notin DOMAIN destroyerChoices[expressionCreatorEvents[a]]
        /\ a \notin DOMAIN destroyerChoices[expressionCreatorEvents[b]]
        /\ \A id \in DOMAIN destroyerChoices[expressionCreatorEvents[a]]
                       \cap DOMAIN destroyerChoices[expressionCreatorEvents[b]] :
             destroyerChoices[expressionCreatorEvents[a]][id]
               = destroyerChoices[expressionCreatorEvents[b]][id]
  BY DEF ExpressionsSeparation
<1>4. \A a, b : /\ a # b
                /\ b \notin DOMAIN destroyerChoices[expressionCreatorEvents[a]]
                /\ a \notin DOMAIN destroyerChoices[expressionCreatorEvents[b]]
                /\ \A id \in DOMAIN destroyerChoices[expressionCreatorEvents[a]]
                               \cap DOMAIN destroyerChoices[expressionCreatorEvents[b]] :
                     destroyerChoices[expressionCreatorEvents[a]][id]
                       = destroyerChoices[expressionCreatorEvents[b]][id]
                => ExpressionsSeparation(a, b) = "Spacelike"
  BY DEF ExpressionsSeparation
<1>5. CASE i < j
  <2>1. ExpressionsSeparation(inputs[i], inputs[j]) = "Spacelike"
    BY <1>5 DEF SpacelikeExpressionsQ
  <2> QED  BY <1>3, <2>1
<1>6. CASE j < i
  <2>1. ExpressionsSeparation(inputs[j], inputs[i]) = "Spacelike"
    BY <1>6 DEF SpacelikeExpressionsQ
  <2>2. /\ inputs[i] # inputs[j]
        /\ inputs[j] \notin DOMAIN choices /\ inputs[i] \notin DOMAIN others
        /\ \A id \in DOMAIN choices \cap DOMAIN others : choices[id] = others[id]
    BY <1>3, <2>1
  <2>3. ExpressionsSeparation(inputs[i], inputs[j]) = "Spacelike"
    BY <1>4, <2>2
  <2> QED  BY <2>2, <2>3
<1>7. i = j \/ i < j \/ j < i  BY <1>1
<1> QED  BY <1>2, <1>5, <1>6, <1>7

LEMMA ChoicesMerge ==
    ASSUME NEW Contents, SystemTyped(Contents), ChoicesArePast, NEW inputs \in Inputs,
           SpacelikeExpressionsQ(inputs), NEW event
    PROVE  /\ ~Graph!InconsistentPrerequisites(inputs)
           /\ NewDestroyerChoices(inputs, event) = Graph!MergedChoices(inputs, event)
<1> DEFINE ChoicesOf(i) == destroyerChoices[expressionCreatorEvents[inputs[i]]]
           Deciding(expression) ==
             {i \in DOMAIN inputs : inputs[i] = expression \/ expression \in DOMAIN ChoicesOf(i)}
           known == ToSet(inputs) \cup UNION {DOMAIN ChoicesOf(i) : i \in DOMAIN inputs}
           Choice(expression) ==
             IF expression \in DOMAIN ChoicesOf(Max(Deciding(expression)))
             THEN ChoicesOf(Max(Deciding(expression)))[expression] ELSE event
           Carrier(expression) ==
             CHOOSE id \in ToSet(inputs) : expression \in DOMAIN Graph!PrerequisiteChoices(id)
           Merged(expression) ==
             IF expression \in ToSet(inputs) THEN event
             ELSE Graph!PrerequisiteChoices(Carrier(expression))[expression]
<1>1. Len(inputs) \in Nat /\ DOMAIN inputs = 1..Len(inputs)
  BY DEF Inputs
<1>2. ASSUME NEW i \in DOMAIN inputs, NEW j \in DOMAIN inputs
      PROVE  /\ inputs[i] \notin DOMAIN ChoicesOf(j)
             /\ \A id \in DOMAIN ChoicesOf(i) \cap DOMAIN ChoicesOf(j) :
                  ChoicesOf(i)[id] = ChoicesOf(j)[id]
  BY InputsAgree
<1>3. \A i \in DOMAIN inputs : Graph!PrerequisiteChoices(inputs[i]) = ChoicesOf(i)
  BY DEF Graph!PrerequisiteChoices
<1>4. ~Graph!InconsistentPrerequisites(inputs)
  <2> HIDE DEF ChoicesOf
  <2> QED  BY <1>2, <1>3 DEF Graph!InconsistentPrerequisites, Graph!BranchlikeByChoices
<1>5. known = ToSet(inputs) \cup UNION {DOMAIN Graph!PrerequisiteChoices(id) : id \in ToSet(inputs)}
  <2>1. UNION {DOMAIN ChoicesOf(i) : i \in DOMAIN inputs}
          = UNION {DOMAIN Graph!PrerequisiteChoices(id) : id \in ToSet(inputs)}
    <3> HIDE DEF ChoicesOf
    <3> QED  BY <1>3 DEF ToSet
  <2> QED  BY <2>1
<1>6. ASSUME NEW expression \in known
      PROVE  Choice(expression) = Merged(expression)
  <2>1. Deciding(expression) \subseteq 1..Len(inputs) /\ Deciding(expression) # {}
    BY <1>1, <1>6 DEF ToSet
  <2>2. Max(Deciding(expression)) \in Deciding(expression)
    <3> DEFINE S == Deciding(expression)
    <3>1. S \in SUBSET Nat /\ S # {} /\ (\A x \in S : x <= Len(inputs)) /\ Len(inputs) \in Nat
      BY <1>1, <2>1
    <3> HIDE DEF S
    <3>2. Max(S) \in S  BY <3>1, MaxIsLargest
    <3> QED  BY <3>2 DEF S
  <2>3. PICK last \in DOMAIN inputs : last = Max(Deciding(expression))
    BY <2>2
  <2>4. Choice(expression) =
          IF expression \in DOMAIN ChoicesOf(last) THEN ChoicesOf(last)[expression] ELSE event
    BY <2>3
  <2>5. inputs[last] = expression \/ expression \in DOMAIN ChoicesOf(last)
    BY <2>2, <2>3
  <2> HIDE DEF ChoicesOf, Choice
  <2>6. CASE expression \in ToSet(inputs)
    <3>1. PICK i \in DOMAIN inputs : expression = inputs[i]  BY <2>6 DEF ToSet
    <3>2. expression \notin DOMAIN ChoicesOf(last)  BY <1>2, <3>1
    <3> QED  BY <2>4, <2>6, <3>2
  <2>7. CASE expression \notin ToSet(inputs)
    <3>1. inputs[last] # expression  BY <2>7 DEF ToSet
    <3>2. expression \in DOMAIN ChoicesOf(last)  BY <2>5, <3>1
    <3>3. inputs[last] \in ToSet(inputs) /\ expression \in DOMAIN Graph!PrerequisiteChoices(inputs[last])
      BY <1>3, <3>2 DEF ToSet
    <3>4. /\ Carrier(expression) \in ToSet(inputs)
          /\ expression \in DOMAIN Graph!PrerequisiteChoices(Carrier(expression))
      BY <3>3
    <3>5. PICK i \in DOMAIN inputs : Carrier(expression) = inputs[i]
      <4> HIDE DEF Carrier
      <4> QED  BY <3>4 DEF ToSet
    <3>6. expression \in DOMAIN ChoicesOf(i)
          /\ Graph!PrerequisiteChoices(Carrier(expression)) = ChoicesOf(i)
      <4> HIDE DEF Carrier
      <4> QED  BY <1>3, <3>4, <3>5
    <3>7. ChoicesOf(i)[expression] = ChoicesOf(last)[expression]
      BY <1>2, <3>2, <3>6
    <3> HIDE DEF Carrier
    <3> QED  BY <2>4, <2>7, <3>2, <3>6, <3>7
  <2> QED  BY <2>6, <2>7
<1>7. NewDestroyerChoices(inputs, event) = [expression \in known |-> Choice(expression)]
  BY DEF NewDestroyerChoices
<1>8. Graph!Range(inputs) = ToSet(inputs)
  BY DEF Graph!Range, ToSet
<1>9. Graph!MergedChoices(inputs, event) = [expression \in known |-> Merged(expression)]
  BY <1>5, <1>8 DEF Graph!MergedChoices
<1> HIDE DEF known, Choice, Merged
<1> QED  BY <1>4, <1>6, <1>7, <1>9

\* The events as the graph has them.
GraphEvents ==
    [e \in DOMAIN eventInputs |->
        [rule |-> IF eventRuleIndices[e] = 0 THEN -1 ELSE eventRuleIndices[e],
         inputTokens |-> eventInputs[e], outputTokens |-> eventOutputs[e],
         generation |-> eventGenerations[e]]]

\* The generation of an event, for the evaluation and for the graph.
LEMMA SameGeneration ==
    ASSUME NEW Contents, SystemTyped(Contents), NEW inputs \in Inputs
    PROVE  LET before == {eventGenerations[expressionCreatorEvents[id]] : id \in ToSet(inputs)}
           IN  /\ Max(before \cup {-1}) + 1 = Graph!NewEventGeneration(inputs)
               /\ Max(before \cup {-1}) + 1 \in Nat
<1> DEFINE before == {eventGenerations[expressionCreatorEvents[id]] : id \in ToSet(inputs)}
           m == Len(eventInputs)
           n == Len(expressions)
<1>1. m \in Nat /\ DOMAIN eventInputs = 1..m /\ eventGenerations \in Seq(Nat) /\ Len(eventGenerations) = m
  BY DEF SystemTyped, EventsTyped
<1>2. \A id \in ToSet(inputs) : expressionCreatorEvents[id] \in 1..m
  <2>1. \A id \in ToSet(inputs) : id \in 1..n
    BY DEF ToSet, Inputs
  <2>2. \A id \in 1..n : expressionCreatorEvents[id] \in 1..m
    BY DEF SystemTyped, ExpressionsTyped
  <2> QED  BY <2>1, <2>2
<1>3. \A id \in ToSet(inputs) :
        Graph!TokenGeneration(id) = eventGenerations[expressionCreatorEvents[id]]
  BY <1>1, <1>2 DEF Graph!TokenGeneration
<1>4. before = {Graph!TokenGeneration(id) : id \in Graph!Range(inputs)}
  <2>1. Graph!Range(inputs) = ToSet(inputs)  BY DEF Graph!Range, ToSet
  <2> QED  BY <1>3, <2>1
<1>5. PICK b \in Nat : \A e \in 1..m : eventGenerations[e] <= b
  <2>1. eventGenerations \in [1..m -> Int]  BY <1>1
  <2> HIDE DEF m
  <2> QED  BY <1>1, <2>1, NumbersBounded
<1>6. before \in SUBSET Nat /\ \A x \in before : x <= b
  BY <1>1, <1>2, <1>5
<1>7. /\ Max(before \cup {-1}) + 1 \in Nat
      /\ before = {} => Max(before \cup {-1}) + 1 = 0
      /\ before # {} => Max(before \cup {-1}) \in before /\ \A x \in before : x <= Max(before \cup {-1})
  <2> HIDE DEF before
  <2> QED  BY <1>6, GenerationAfter
<1>8. Graph!NewEventGeneration(inputs) =
        IF inputs = <<>> THEN 0
        ELSE 1 + (CHOOSE g \in before : \A h \in before : h <= g)
  <2> DEFINE generations == {Graph!TokenGeneration(id) : id \in Graph!Range(inputs)}
  <2>1. Graph!NewEventGeneration(inputs) =
          IF inputs = <<>> THEN 0
          ELSE 1 + (CHOOSE g \in generations : \A h \in generations : h <= g)
    BY DEF Graph!NewEventGeneration
  <2>2. generations = before  BY <1>4
  <2> HIDE DEF generations, before
  <2> QED  BY <2>1, <2>2
<1>9. inputs = <<>> <=> before = {}
  <2>1. inputs \in Seq(1..n)  BY DEF Inputs
  <2>2. inputs = <<>> => ToSet(inputs) = {}  BY DEF ToSet
  <2>3. inputs # <<>> => inputs[1] \in ToSet(inputs)
    <3> DEFINE S == 1..n
    <3>1. inputs \in Seq(S)  BY <2>1
    <3> HIDE DEF S
    <3>2. inputs # <<>> => 1 \in DOMAIN inputs  BY <3>1
    <3> QED  BY <3>2 DEF ToSet
  <2> QED  BY <2>2, <2>3
<1>10. CASE before = {}
  BY <1>7, <1>8, <1>9, <1>10
<1>11. CASE before # {}
  <2> DEFINE largest == Max(before \cup {-1})
             chosen == CHOOSE g \in before : \A h \in before : h <= g
  <2>1. largest \in before /\ \A h \in before : h <= largest  BY <1>7, <1>11
  <2>2. chosen \in before /\ \A h \in before : h <= chosen
    <3> HIDE DEF before, largest
    <3> QED  BY <2>1
  <2>3. Graph!NewEventGeneration(inputs) = 1 + chosen
    BY <1>8, <1>9, <1>11
  <2>4. largest \in Nat /\ chosen \in Nat /\ largest <= chosen /\ chosen <= largest
    <3> HIDE DEF before, largest, chosen
    <3> QED  BY <1>6, <2>1, <2>2
  <2>5. largest + 1 = 1 + chosen
    <3> HIDE DEF before, largest, chosen
    <3> QED  BY <2>4
  <2> QED  BY <1>7, <2>3, <2>5
<1> QED  BY <1>10, <1>11

\* An event of the evaluation is one of the graph.
LEMMA EventIsGraphStep ==
    ASSUME NEW Contents, RulesGiveLists(Contents), RulesKnowTheirInputs(Contents),
           EventsBounded(Contents), MultisetSound(Contents), ChoicesArePast,
           NEW key \in FirstEnds, EvaluateSingleEvent(key)
    PROVE  Graph!Next
<1> DEFINE m == Len(eventInputs)
           n == Len(expressions)
           k == Len(Outputs(key))
           inputs == key.inputs
<1>1. /\ SystemTyped(Contents) /\ TablesAreExact /\ StoredAreSpacelike
      /\ EventEffect(Contents, key) /\ TablesEffect(key)
  BY EffectOfEvent DEF MultisetSound
<1>2. /\ key \in TriedKeys /\ CanInstantiate(key) /\ key \in [rule : Rules, inputs : Inputs]
      /\ key \in PossibleKeys /\ key.rule \in Rules /\ inputs \in Inputs
      /\ system \in Systems /\ expressions \in Seq(Contents) /\ system' = system
  BY <1>1 DEF EventEffect, TriedKeys, SystemTyped, ExpressionsTyped
<1>3. SpacelikeExpressionsQ(inputs)
  BY <1>1, <1>2 DEF CanInstantiate, StoredAreSpacelike, Stored
<1>4. /\ m \in Nat \ {0} /\ n \in Nat /\ k \in Nat /\ DOMAIN Outputs(key) = 1..k
      /\ OldAndNew(eventRuleIndices, eventRuleIndices', key.rule, m)
      /\ OldAndNew(eventInputs, eventInputs', key.inputs, m)
      /\ OldAndNew(eventOutputs, eventOutputs', [i \in 1..k |-> n + i], m)
      /\ OldAndNew(eventGenerations, eventGenerations', eventGenerations'[m + 1], m)
      /\ DOMAIN eventInputs = 1..m
      /\ Len(expressionCreatorEvents) = n /\ DOMAIN expressionCreatorEvents = 1..n
      /\ Len(expressionDestroyerEventCounts) = n /\ DOMAIN expressionDestroyerEventCounts = 1..n
  <2>1. /\ DOMAIN eventInputs = 1..m
        /\ Len(expressionCreatorEvents) = n /\ DOMAIN expressionCreatorEvents = 1..n
        /\ Len(expressionDestroyerEventCounts) = n /\ DOMAIN expressionDestroyerEventCounts = 1..n
    BY <1>1 DEF SystemTyped, EventsTyped, ExpressionsTyped
  <2> QED  BY <1>1, <2>1, EventAdds
<1>5. Len(inputs) \in Nat /\ DOMAIN inputs = 1..Len(inputs) /\ \A i \in DOMAIN inputs : inputs[i] \in 1..n
  <2> DEFINE S == 1..n
  <2>1. inputs \in Seq(S)  BY <1>2 DEF Inputs
  <2> HIDE DEF S
  <2>2. Len(inputs) \in Nat /\ DOMAIN inputs = 1..Len(inputs) /\ \A i \in DOMAIN inputs : inputs[i] \in S
    BY <2>1
  <2> QED  BY <2>2 DEF S
<1>6. /\ Infinity \in Nat
      /\ Parameters.maxEvents \in {s.parameters.maxEvents : s \in Systems}
      /\ Parameters.maxDestroyerEvents \in {s.parameters.maxDestroyerEvents : s \in Systems}
      /\ Len(system.rules) \in {Len(s.rules) : s \in Systems}
      /\ \A s \in Systems : /\ s.parameters.maxEvents \in 0..Infinity
                            /\ s.parameters.maxDestroyerEvents \in 0..Infinity
                            /\ Len(s.rules) \in 0..Infinity
  <2>1. \A s \in Systems :
          /\ s.rules \in Seq(ToSet(s.rules)) /\ Len(s.rules) <= Infinity
          /\ s.parameters \in [maxGeneration : 0..Infinity, maxDestroyerEvents : 0..Infinity,
                               minEventInputs : 0..Infinity, maxEventInputs : 0..Infinity,
                               maxEvents : 0..Infinity]
    BY SystemsAssumption
  <2>2. Infinity \in Nat  BY SystemsAssumption
  <2> QED  BY <1>2, <2>1, <2>2 DEF Parameters
<1>7. ASSUME NEW S \in SUBSET (0..Infinity), NEW x \in S
      PROVE  Max(S) \in Nat /\ x <= Max(S) /\ x \in Nat
  <2>1. S \in SUBSET Nat /\ \A y \in S : y <= Infinity  BY <1>6
  <2> QED  BY <1>6, <2>1, MaxIsLargest
<1>8. Graph!EventsCount < Max({s.parameters.maxEvents : s \in Systems})
  <2> DEFINE S == {s.parameters.maxEvents : s \in Systems}
  <2>1. Max(S) \in Nat /\ Parameters.maxEvents <= Max(S) /\ Parameters.maxEvents \in Nat
    <3>1. S \in SUBSET (0..Infinity) /\ Parameters.maxEvents \in S  BY <1>6
    <3> HIDE DEF S
    <3> QED  BY <1>7, <3>1
  <2>2. Graph!EventsCount = m - 1
    <3>1. Len(GraphEvents) = m
      <4>1. DOMAIN GraphEvents = 1..m  BY <1>4 DEF GraphEvents
      <4> QED  BY <1>4, <4>1 DEF GraphEvents
    <3> QED  BY <3>1 DEF Graph!EventsCount, GraphEvents
  <2>3. m - 1 < Parameters.maxEvents  BY DEF EvaluateSingleEvent, EventsCount
  <2> HIDE DEF S, m
  <2>4. m - 1 < Max(S)  BY <1>4, <2>1, <2>3
  <2> QED  BY <2>2, <2>4 DEF S
<1>9. key.rule \in 1..Max({Len(s.rules) : s \in Systems})
  <2> DEFINE S == {Len(s.rules) : s \in Systems}
  <2>1. Max(S) \in Nat /\ Len(system.rules) <= Max(S) /\ Len(system.rules) \in Nat
    <3>1. S \in SUBSET (0..Infinity) /\ Len(system.rules) \in S  BY <1>6
    <3> HIDE DEF S
    <3> QED  BY <1>7, <3>1
  <2>2. key.rule \in 1..Len(system.rules)  BY <1>2, SystemTypes
  <2> HIDE DEF S
  <2>3. key.rule \in 1..Max(S)  BY <2>1, <2>2
  <2> QED  BY <2>3 DEF S
<1>10. \A limit : limit = Max({s.parameters.maxDestroyerEvents : s \in Systems}) =>
         \A id \in ToSet(inputs) : expressionDestroyerEventCounts[id] < limit
  <2> DEFINE S == {s.parameters.maxDestroyerEvents : s \in Systems}
  <2>1. Max(S) \in Nat /\ Parameters.maxDestroyerEvents <= Max(S) /\ Parameters.maxDestroyerEvents \in Nat
    <3>1. S \in SUBSET (0..Infinity) /\ Parameters.maxDestroyerEvents \in S  BY <1>6
    <3> HIDE DEF S
    <3> QED  BY <1>7, <3>1
  <2>2. \A id \in ToSet(inputs) : /\ expressionDestroyerEventCounts[id] < Parameters.maxDestroyerEvents
                                  /\ expressionDestroyerEventCounts[id] \in Nat
    <3>1. \A id \in ToSet(inputs) : expressionDestroyerEventCounts[id] < Parameters.maxDestroyerEvents
      BY <1>2 DEF TriedKeys, ToSet
    <3>2. \A id \in 1..n : expressionDestroyerEventCounts[id] \in Nat
      BY <1>1 DEF SystemTyped, ExpressionsTyped
    <3>3. ToSet(inputs) \subseteq 1..n  BY <1>5 DEF ToSet
    <3> QED  BY <3>1, <3>2, <3>3
  <2> HIDE DEF S
  <2>3. \A id \in ToSet(inputs) : expressionDestroyerEventCounts[id] < Max(S)  BY <2>1, <2>2
  <2> QED  BY <2>3 DEF S
<1>11. Len(inputs) \in 0..MaxInputs /\ k \in 0..MaxOutputs
  <2>1. /\ ReplacedBy(key) \in Seq(Seq(Contents)) /\ InputContents(key) \in Seq(Contents)
        /\ Len(InputContents(key)) = Len(inputs) /\ system.rules[key.rule] \in ToSet(system.rules)
    BY <1>2, ResultsTyped
  <2>2. InstantiationCount(key) + 1 \in 1..Len(ReplacedBy(key))
    BY <1>1, <1>2, NextResult
  <2>3. ReplacedBy(key) # <<>> /\ InstantiationCount(key) + 1 \in DOMAIN ReplacedBy(key)
    BY <2>1, <2>2
  <2>4. Len(inputs) <= system.parameters.maxEventInputs
    <3>1. PICK j \in MinEventInputs..MaxEventInputs : inputs \in InjectiveTuples(j)
      BY <1>2 DEF PossibleKeys
    <3>2. /\ MinEventInputs \in Nat /\ MaxEventInputs \in Nat
          /\ MaxEventInputs <= Parameters.maxEventInputs /\ Parameters.maxEventInputs \in Nat
      BY <1>2, <1>4, TriedCounts, SystemTypes
    <3>3. DOMAIN inputs = 1..j  BY <3>1 DEF InjectiveTuples
    <3>4. Len(inputs) = j  BY <1>5, <3>2, <3>3
    <3> QED  BY <3>2, <3>4 DEF Parameters
  <2>5. Len(inputs) <= MaxInputs /\ k <= MaxOutputs
    BY <1>2, <2>1, <2>3, <2>4 DEF EventsBounded, ReplacedBy, Outputs
  <2> QED  BY <1>4, <1>5, <2>5
<1>12. inputs \in UNION {[1..j -> Graph!AllTokenIDs] : j \in 0..MaxInputs}
  <2>1. Graph!AllTokenIDs = 1..n  BY <1>4 DEF Graph!AllTokenIDs
  <2>2. inputs \in [1..Len(inputs) -> 1..n]
    <3> DEFINE S == 1..n
    <3>1. inputs \in Seq(S)  BY <1>2 DEF Inputs
    <3> HIDE DEF S
    <3>2. inputs \in [1..Len(inputs) -> S]  BY <3>1
    <3> QED  BY <3>2 DEF S
  <2> QED  BY <1>11, <2>1, <2>2
<1>13. Graph!CanInstantiate(key.rule, inputs)
  <2>1. Graph!IsInjectiveTuple(inputs)
    BY <1>2, KeysTyped DEF Graph!IsInjectiveTuple
  <2>2. \A id \in Graph!Range(inputs) :
          expressionDestroyerEventCounts[id] < Max({s.parameters.maxDestroyerEvents : s \in Systems})
    <3>1. Graph!Range(inputs) = ToSet(inputs)  BY DEF Graph!Range, ToSet
    <3> QED  BY <1>10, <3>1
  <2>3. \A i, j \in DOMAIN inputs : i # j => Graph!TokenSeparation(inputs[i], inputs[j]) = "Spacelike"
    <3> SUFFICES ASSUME NEW i \in DOMAIN inputs, NEW j \in DOMAIN inputs, i # j
                 PROVE  Graph!TokenSeparation(inputs[i], inputs[j]) = "Spacelike"
      OBVIOUS
    <3>1. inputs[i] # inputs[j]  BY <1>2, KeysTyped
    <3>2. /\ inputs[j] \notin DOMAIN destroyerChoices[expressionCreatorEvents[inputs[i]]]
          /\ inputs[i] \notin DOMAIN destroyerChoices[expressionCreatorEvents[inputs[j]]]
          /\ \A id \in DOMAIN destroyerChoices[expressionCreatorEvents[inputs[i]]]
                         \cap DOMAIN destroyerChoices[expressionCreatorEvents[inputs[j]]] :
               destroyerChoices[expressionCreatorEvents[inputs[i]]][id]
                 = destroyerChoices[expressionCreatorEvents[inputs[j]]][id]
      BY <1>1, <1>2, <1>3, InputsAgree
    <3>3. ~Graph!TimelikeByChoices(inputs[i], inputs[j])
      BY <3>2 DEF Graph!TimelikeByChoices, Graph!PrerequisiteChoices
    <3>4. ~Graph!BranchlikeByChoices(inputs[i], inputs[j])
      BY <3>2 DEF Graph!BranchlikeByChoices, Graph!PrerequisiteChoices
    <3> QED  BY <3>1, <3>3, <3>4 DEF Graph!TokenSeparation
  <2> QED  BY <2>1, <2>2, <2>3 DEF Graph!CanInstantiate
<1> DEFINE generation == Graph!NewEventGeneration(inputs)
           record == [rule |-> key.rule, inputTokens |-> inputs,
                      outputTokens |-> [i \in 1..k |-> n + i], generation |-> generation]
<1>14. generation \in Nat /\ eventGenerations' = Append(eventGenerations, generation)
  <2> DEFINE before == {eventGenerations[expressionCreatorEvents[id]] : id \in ToSet(inputs)}
  <2>1. eventGenerations' = Append(eventGenerations, Max(before \cup {-1}) + 1)
    BY <1>1 DEF EventEffect
  <2>2. Max(before \cup {-1}) + 1 = generation /\ Max(before \cup {-1}) + 1 \in Nat
    BY <1>1, <1>2, SameGeneration
  <2> HIDE DEF before, generation
  <2> QED  BY <2>1, <2>2
<1>15. /\ eventGenerations \in Seq(Nat) /\ Len(eventGenerations) = m
       /\ eventGenerations'[m + 1] = generation
  <2>1. eventGenerations \in Seq(Nat) /\ Len(eventGenerations) = m
    BY <1>1 DEF SystemTyped, EventsTyped
  <2> HIDE DEF generation, m
  <2>2. eventGenerations'[m + 1] = generation
    BY <1>14, <2>1, Lengthened
  <2> QED  BY <2>1, <2>2
<1>16. GraphEvents \in Seq({GraphEvents[e] : e \in 1..m} \cup {record}) /\ Len(GraphEvents) = m
  <2>1. DOMAIN GraphEvents = 1..m /\ GraphEvents = [e \in DOMAIN GraphEvents |-> GraphEvents[e]]
    BY <1>4 DEF GraphEvents
  <2> DEFINE S == {GraphEvents[e] : e \in 1..m} \cup {record}
  <2>2. GraphEvents \in [1..m -> S]
    <3> HIDE DEF record, m
    <3> QED  BY <2>1
  <2> HIDE DEF S, m
  <2>3. GraphEvents \in Seq(S) /\ Len(GraphEvents) = m  BY <1>4, <2>2, ListOf
  <2> QED  BY <2>3 DEF S
<1>17. GraphEvents' = Append(GraphEvents, record)
  <2> DEFINE S == {GraphEvents[e] : e \in 1..m} \cup {record}
             longer == Append(GraphEvents, record)
  <2>1. /\ longer \in Seq(S) /\ DOMAIN longer = 1..(m + 1)
        /\ \A e \in 1..m : longer[e] = GraphEvents[e]
        /\ longer[m + 1] = record
    <3>1. GraphEvents \in Seq(S) /\ record \in S  BY <1>16
    <3> HIDE DEF S, record, m
    <3> QED  BY <1>16, <3>1, Lengthened
  <2>2. longer = [e \in 1..(m + 1) |-> longer[e]]
    <3>1. longer = [e \in DOMAIN longer |-> longer[e]]
      <4> HIDE DEF longer, S
      <4> QED  BY <2>1
    <3> HIDE DEF longer
    <3> QED  BY <2>1, <3>1
  <2>3. GraphEvents' =
          [e \in 1..(m + 1) |->
            [rule |-> IF eventRuleIndices'[e] = 0 THEN -1 ELSE eventRuleIndices'[e],
             inputTokens |-> eventInputs'[e], outputTokens |-> eventOutputs'[e],
             generation |-> eventGenerations'[e]]]
    BY <1>4 DEF GraphEvents, OldAndNew
  <2>4. \A e \in 1..m : longer[e] =
          [rule |-> IF eventRuleIndices'[e] = 0 THEN -1 ELSE eventRuleIndices'[e],
           inputTokens |-> eventInputs'[e], outputTokens |-> eventOutputs'[e],
           generation |-> eventGenerations'[e]]
    <3>1. \A e \in 1..m : GraphEvents[e] =
            [rule |-> IF eventRuleIndices[e] = 0 THEN -1 ELSE eventRuleIndices[e],
             inputTokens |-> eventInputs[e], outputTokens |-> eventOutputs[e],
             generation |-> eventGenerations[e]]
      BY <1>4 DEF GraphEvents
    <3>2. \A e \in 1..m : /\ eventRuleIndices'[e] = eventRuleIndices[e]
                          /\ eventInputs'[e] = eventInputs[e]
                          /\ eventOutputs'[e] = eventOutputs[e]
                          /\ eventGenerations'[e] = eventGenerations[e]
      BY <1>4 DEF OldAndNew
    <3> HIDE DEF longer
    <3> QED  BY <2>1, <3>1, <3>2
  <2>5. longer[m + 1] =
          [rule |-> IF eventRuleIndices'[m + 1] = 0 THEN -1 ELSE eventRuleIndices'[m + 1],
           inputTokens |-> eventInputs'[m + 1], outputTokens |-> eventOutputs'[m + 1],
           generation |-> eventGenerations'[m + 1]]
    <3>1. /\ eventRuleIndices'[m + 1] = key.rule /\ eventInputs'[m + 1] = inputs
          /\ eventOutputs'[m + 1] = [i \in 1..k |-> n + i] /\ eventGenerations'[m + 1] = generation
      BY <1>4, <1>15 DEF OldAndNew
    <3>2. key.rule # 0  BY <1>9
    <3> HIDE DEF longer, generation
    <3> QED  BY <2>1, <3>1, <3>2
  <2>6. \A e \in 1..(m + 1) : e \in 1..m \/ e = m + 1
    <3> HIDE DEF m
    <3> QED  BY <1>4
  <2> DEFINE Entry(e) ==
               [rule |-> IF eventRuleIndices'[e] = 0 THEN -1 ELSE eventRuleIndices'[e],
                inputTokens |-> eventInputs'[e], outputTokens |-> eventOutputs'[e],
                generation |-> eventGenerations'[e]]
  <2>7. GraphEvents' = [e \in 1..(m + 1) |-> Entry(e)]  BY <2>3
  <2>8. \A e \in 1..m : longer[e] = Entry(e)  BY <2>4
  <2>9. longer[m + 1] = Entry(m + 1)  BY <2>5
  <2> HIDE DEF longer, Entry
  <2>10. \A e \in 1..(m + 1) : longer[e] = Entry(e)  BY <2>6, <2>8, <2>9
  <2>11. GraphEvents' = longer  BY <2>2, <2>7, <2>10
  <2> QED  BY <2>11 DEF longer
<1>18. expressionDestroyerEventCounts' =
         [id \in 1..(n + k) |->
            IF id \in Graph!Range(inputs) THEN expressionDestroyerEventCounts[id] + 1
            ELSE IF id \in 1..n THEN expressionDestroyerEventCounts[id] ELSE 0]
  <2>1. /\ Len(expressionDestroyerEventCounts') = n + k
        /\ expressionDestroyerEventCounts' \in Seq(Nat)
        /\ \A i \in 1..n : expressionDestroyerEventCounts'[i] =
             expressionDestroyerEventCounts[i] + (IF i \in ToSet(inputs) THEN 1 ELSE 0)
        /\ \A i \in 1..k : expressionDestroyerEventCounts'[n + i] = 0
    BY <1>1, EventAdds
  <2>2. Graph!Range(inputs) = ToSet(inputs) /\ ToSet(inputs) \subseteq 1..n
    BY <1>5 DEF Graph!Range, ToSet
  <2>3. \A i \in 1..n : expressionDestroyerEventCounts[i] \in Nat
    BY <1>1 DEF SystemTyped, ExpressionsTyped
  <2>4. expressionDestroyerEventCounts' =
          [id \in 1..(n + k) |-> expressionDestroyerEventCounts'[id]]
    <3> HIDE DEF n, k
    <3> QED  BY <1>4, <2>1
  <2>5. ASSUME NEW id \in 1..(n + k)
        PROVE  expressionDestroyerEventCounts'[id] =
                 IF id \in ToSet(inputs) THEN expressionDestroyerEventCounts[id] + 1
                 ELSE IF id \in 1..n THEN expressionDestroyerEventCounts[id] ELSE 0
    <3>1. CASE id \in 1..n
      BY <2>1, <2>3, <3>1
    <3>2. CASE id \notin 1..n
      <4>1. id \notin ToSet(inputs)  BY <2>2, <3>2
      <4>2. id - n \in 1..k /\ id = n + (id - n)
        <5> HIDE DEF n, k
        <5> QED  BY <1>4, <3>2
      <4>3. expressionDestroyerEventCounts'[id] = 0  BY <2>1, <4>2
      <4> QED  BY <3>2, <4>1, <4>3
    <3> QED  BY <3>1, <3>2
  <2> HIDE DEF n, k
  <2> QED  BY <2>2, <2>4, <2>5
<1>19. Max(ToSet(eventGenerations)') = Graph!Larger(Max(ToSet(eventGenerations)), generation)
  <2> DEFINE old == ToSet(eventGenerations)
             new == ToSet(eventGenerations)'
  <2>1. new = old \cup {generation}
    <3>1. /\ eventGenerations \in Seq(Nat) /\ DOMAIN eventGenerations = 1..m
          /\ DOMAIN eventGenerations' = 1..(m + 1)
          /\ \A e \in 1..m : eventGenerations'[e] = eventGenerations[e]
          /\ eventGenerations'[m + 1] = generation
      BY <1>4, <1>15 DEF OldAndNew
    <3>2. new = {eventGenerations'[e] : e \in 1..(m + 1)} /\ old = {eventGenerations[e] : e \in 1..m}
      BY <3>1 DEF ToSet
    <3>3. \A e : e \in 1..(m + 1) <=> (e \in 1..m \/ e = m + 1)
      <4> HIDE DEF m
      <4> QED  BY <1>4
    <3> HIDE DEF m, generation, old, new
    <3> QED  BY <3>1, <3>2, <3>3
  <2>2. PICK b \in Nat : \A e \in 1..m : eventGenerations[e] <= b
    <3>1. eventGenerations \in [1..m -> Int]  BY <1>15
    <3> HIDE DEF m
    <3> QED  BY <1>4, <3>1, NumbersBounded
  <2>3. old \in SUBSET Nat /\ old # {} /\ \A x \in old : x <= b
    <3>1. DOMAIN eventGenerations = 1..m /\ \A e \in 1..m : eventGenerations[e] \in Nat
      BY <1>15
    <3>2. 1 \in 1..m
      <4> HIDE DEF m
      <4> QED  BY <1>4
    <3> QED  BY <2>2, <3>1, <3>2 DEF ToSet
  <2>4. Max(old) \in old /\ \A x \in old : x <= Max(old)
    <3> HIDE DEF old
    <3> QED  BY <2>3, MaxIsLargest
  <2>5. new \in SUBSET Nat /\ new # {} /\ b + generation \in Nat /\ \A x \in new : x <= b + generation
    <3> HIDE DEF old, new, generation
    <3> QED  BY <1>14, <2>1, <2>2, <2>3
  <2>6. Max(new) \in new /\ \A x \in new : x <= Max(new)
    <3> HIDE DEF new, generation
    <3> QED  BY <2>5, MaxIsLargest
  <2>7. Max(new) = IF Max(old) >= generation THEN Max(old) ELSE generation
    <3>1. /\ Max(new) \in Nat /\ Max(old) \in Nat /\ generation \in Nat
          /\ Max(new) = generation \/ Max(new) \in old
          /\ generation <= Max(new) /\ Max(old) <= Max(new)
      <4> HIDE DEF old, new, generation
      <4> QED  BY <1>14, <2>1, <2>3, <2>4, <2>5, <2>6
    <3>2. Max(new) \in old => Max(new) <= Max(old)
      <4> HIDE DEF old, new
      <4> QED  BY <2>4
    <3> HIDE DEF old, new, generation
    <3> QED  BY <3>1, <3>2
  <2>8. Max(ToSet(eventGenerations)') = Max(new)  OBVIOUS
  <2> HIDE DEF new, old, generation
  <2>9. Max(new) = Graph!Larger(Max(old), generation)  BY <2>7 DEF Graph!Larger
  <2> QED  BY <2>9 DEF new, old
<1>20. Graph!AddLastEventDestroyerChoices(inputs, m + 1)
  <2>1. destroyerChoices' = Append(destroyerChoices, NewDestroyerChoices(inputs, m + 1))
    BY <1>1 DEF EventEffect, NewEvent
  <2>2. /\ ~Graph!InconsistentPrerequisites(inputs)
        /\ NewDestroyerChoices(inputs, m + 1) = Graph!MergedChoices(inputs, m + 1)
    BY <1>1, <1>2, <1>3, ChoicesMerge
  <2> HIDE DEF m
  <2> QED  BY <2>1, <2>2 DEF Graph!AddLastEventDestroyerChoices
<1>21. /\ Graph!AllTokenIDs = 1..n /\ Graph!NewTokens(k) = [i \in 1..k |-> n + i]
  BY <1>4 DEF Graph!AllTokenIDs, Graph!NewTokens
<1>22. expressionCreatorEvents' = expressionCreatorEvents \o [i \in 1..k |-> m + 1]
  BY <1>1, <1>4 DEF EventEffect, NewEvent
<1>23. PICK c : c = k  OBVIOUS
<1>24. Graph!AddEvent(key.rule, inputs, c)
  <2>1. Graph!AddEvent(key.rule, inputs, c) <=>
          /\ expressionDestroyerEventCounts' =
               [id \in 1..(Len(expressionCreatorEvents) + c) |->
                  IF id \in Graph!Range(inputs) THEN expressionDestroyerEventCounts[id] + 1
                  ELSE IF id \in Graph!AllTokenIDs THEN expressionDestroyerEventCounts[id] ELSE 0]
          /\ expressionCreatorEvents' =
               expressionCreatorEvents \o [i \in 1..c |-> Len(GraphEvents) + 1]
          /\ GraphEvents' = Append(GraphEvents, [rule |-> key.rule, inputTokens |-> inputs,
                                                 outputTokens |-> Graph!NewTokens(c),
                                                 generation |-> generation])
          /\ Max(ToSet(eventGenerations))' = Graph!Larger(Max(ToSet(eventGenerations)), generation)
          /\ Graph!AddLastEventDestroyerChoices(inputs, Len(GraphEvents) + 1)
    BY DEF Graph!AddEvent, GraphEvents
  <2>2. Max(ToSet(eventGenerations))' = Max(ToSet(eventGenerations)')
    OBVIOUS
  <2>3. Len(expressionCreatorEvents) = n /\ Len(GraphEvents) = m
    BY <1>4, <1>16
  <2> HIDE DEF n, m, k, generation
  <2> QED  BY <1>17, <1>18, <1>19, <1>20, <1>21, <1>22, <1>23, <2>1, <2>2, <2>3
<1> HIDE DEF m, n, k, inputs, generation, record
<1>25. inputs \in Graph!InputTuples  BY <1>12 DEF Graph!InputTuples
<1>26. c \in 0..MaxOutputs  BY <1>11, <1>23
<1>27. \E rule \in 1..Max({Len(s.rules) : s \in Systems}),
          inputTokens \in Graph!InputTuples, count \in 0..MaxOutputs :
         /\ Graph!CanInstantiate(rule, inputTokens)
         /\ Graph!AddEvent(rule, inputTokens, count)
  BY <1>9, <1>13, <1>24, <1>25, <1>26
<1> QED  BY <1>8, <1>27 DEF Graph!Next

\* The initial expressions are the initial tokens of the graph.
LEMMA InitIsGraphInit ==
    ASSUME NEW Contents, RulesGiveLists(Contents), Init
    PROVE  Graph!Init
<1> DEFINE count == Len(system.init)
<1>1. system \in Systems /\ system.init \in Seq(Contents)
  BY DEF Init, RulesGiveLists
<1>2. count \in {Len(s.init) : s \in Systems} /\ DOMAIN system.init = 1..count
  BY <1>1
<1>3. /\ eventRuleIndices = <<0>> /\ eventInputs = << <<>> >>
      /\ eventOutputs = << [i \in 1..count |-> i] >> /\ eventGenerations = <<0>>
      /\ expressionCreatorEvents = [i \in 1..count |-> 1]
      /\ expressionDestroyerEventCounts = [i \in 1..count |-> 0]
      /\ destroyerChoices = <<NoEntries>>
  BY <1>2 DEF Init
<1> HIDE DEF count
<1>4. GraphEvents = <<[rule |-> -1, inputTokens |-> <<>>, outputTokens |-> [i \in 1..count |-> i],
                       generation |-> 0]>>
  <2> DEFINE created == [i \in 1..count |-> i]
             record == [rule |-> -1, inputTokens |-> <<>>, outputTokens |-> created, generation |-> 0]
  <2>1. /\ DOMAIN eventInputs = 1..1 /\ eventInputs[1] = <<>> /\ eventRuleIndices[1] = 0
        /\ eventOutputs[1] = created /\ eventGenerations[1] = 0
    <3> HIDE DEF created
    <3> QED  BY <1>3 DEF created
  <2> HIDE DEF created
  <2>2. GraphEvents = [e \in 1..1 |-> record]
    <3>1. \A e \in 1..1 : e = 1  OBVIOUS
    <3> QED  BY <2>1, <3>1 DEF GraphEvents
  <2> HIDE DEF record
  <2>3. [e \in 1..1 |-> record] = <<record>>  OBVIOUS
  <2>4. GraphEvents = <<record>>  BY <2>2, <2>3
  <2> QED  BY <2>4 DEF record, created
<1>5. Max(ToSet(eventGenerations)) = 0
  <2>1. ToSet(eventGenerations) = {0}  BY <1>3 DEF ToSet
  <2>2. Max({0}) = 0  BY DEF Max
  <2> QED  BY <2>1, <2>2
<1>6. Graph!NoChoices = NoEntries
  BY DEF Graph!NoChoices, NoEntries
<1> QED  BY <1>2, <1>3, <1>4, <1>5, <1>6 DEF Graph!Init, Graph!InitialConditionRule, GraphEvents

LEMMA ChoicesPastStep ==
    ASSUME NEW Contents, RulesGiveLists(Contents), MultisetSound(Contents), ChoicesArePast,
           [Next]_vars
    PROVE  ChoicesArePast'
<1>1. CASE \E key \in FirstEnds : EvaluateSingleEvent(key)
  BY <1>1, EffectOfEvent, ChoicesStayPast DEF MultisetSound
<1>2. CASE UNCHANGED eventVars
  BY <1>2 DEF eventVars, ChoicesArePast
<1> QED  BY <1>1, <1>2 DEF Next, ThrowComplete, ThrowFailure, StopAtMaxEvents, Terminated, Stop, vars

\* The multisets are rewritten as libSetReplace would: every event is one of the
\* causal graph with rules that are all Spacelike, so that generations, separations
\* and inherited destroyer choices are the same although createEvent merges the
\* choices of its inputs without looking for contradictions.
THEOREM MultisetImplementsGraph ==
    ASSUME NEW Contents, RulesGiveLists(Contents), RulesKnowTheirInputs(Contents),
           EventsBounded(Contents)
    PROVE  Spec => ImplementsGraph
<1>1. Init => Graph!Init  BY InitIsGraphInit
<1>2. Init => ChoicesArePast
  <2> SUFFICES ASSUME Init PROVE ChoicesArePast
    OBVIOUS
  <2>1. Len(eventInputs) = 1 /\ destroyerChoices[1] = NoEntries  BY DEF Init
  <2>2. \A e \in 1..1 : DOMAIN destroyerChoices[e] = {}  BY <2>1 DEF NoEntries
  <2> QED  BY <2>1, <2>2 DEF ChoicesArePast
<1>3. MultisetSound(Contents) /\ ChoicesArePast /\ [Next]_vars => ChoicesArePast'
  BY ChoicesPastStep
<1>4. MultisetSound(Contents) /\ ChoicesArePast /\ [Next]_vars => [Graph!Next]_(Graph!vars)
  <2> SUFFICES ASSUME MultisetSound(Contents), ChoicesArePast, [Next]_vars
               PROVE  [Graph!Next]_(Graph!vars)
    OBVIOUS
  <2>1. CASE \E key \in FirstEnds : EvaluateSingleEvent(key)
    BY <2>1, EventIsGraphStep
  <2>2. CASE UNCHANGED eventVars
    BY <2>2 DEF eventVars, Graph!vars
  <2> QED  BY <2>1, <2>2
           DEF Next, ThrowComplete, ThrowFailure, StopAtMaxEvents, Terminated, Stop, vars
<1>5. Spec => []MultisetSound(Contents)  BY MultisetStaysSound
<1> QED  BY <1>1, <1>2, <1>3, <1>4, <1>5, PTL DEF Spec, ImplementsGraph, Graph!Spec
=============================================================================
