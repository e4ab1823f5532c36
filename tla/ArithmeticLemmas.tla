-------------------------- MODULE ArithmeticLemmas --------------------------
(***************************************************************************)
(* Facts about numbers that the proofs rest on: the least-number           *)
(* principle, bounds, the cardinalities of sets some elements of which are *)
(* replaced, the order in which numbers appear in lists of atoms, and      *)
(* congruence modulo a number that is not a constant.                      *)
(***************************************************************************)
EXTENDS Substitution, FiniteSetTheorems, FunctionTheorems, WellFoundedInduction, TLAPS

Below == {pair \in Nat \X Nat : pair[1] < pair[2]}

\* The least-number principle, for sets.
LEMMA LeastOf ==
    ASSUME NEW S \in SUBSET Nat, S # {}
    PROVE  \E n \in S : \A m \in S : n <= m
<1>1. IsWellFoundedOn(Below, Nat)
  BY NatLessThanWellFounded DEF OpToRel, Below
<1>2. PICK n \in S : \A m \in S : <<m, n>> \notin Below
  BY <1>1, WFMin
<1>3. ASSUME NEW m \in S PROVE n <= m
  <2>1. <<m, n>> \notin Below  BY <1>2
  <2> QED  BY <2>1 DEF Below
<1> QED  BY <1>3

\* Counting up, whatever starts a range and goes on to the next covers it.
LEMMA CountingUp ==
    ASSUME NEW a \in Nat, NEW b \in Nat, NEW S, a \in S,
           \A n \in a..(b - 1) : n \in S => n + 1 \in S
    PROVE  \A n \in a..b : n \in S
<1> DEFINE missed == {n \in a..b : n \notin S}
<1> SUFFICES ASSUME missed # {} PROVE FALSE
  OBVIOUS
<1>1. PICK n \in missed : \A m \in missed : n <= m
  <2>1. missed \in SUBSET Nat  OBVIOUS
  <2> HIDE DEF missed
  <2> QED  BY <2>1, LeastOf
<1>2. n \in a..b /\ n \notin S  OBVIOUS
<1>3. n - 1 \in a..(b - 1) /\ n - 1 \in a..b  BY <1>2
<1>4. n - 1 \in S
  <2>1. n - 1 \notin missed  BY <1>1, <1>2
  <2> QED  BY <1>3, <2>1
<1>5. (n - 1) + 1 \in S  BY <1>3, <1>4
<1> QED  BY <1>2, <1>5

\* A non-empty set of natural numbers with an upper bound has a largest
\* element: the least of its upper bounds.
LEMMA LargestElement ==
    ASSUME NEW S, S \subseteq Nat, S # {}, NEW b \in Nat, \A s \in S : s <= b
    PROVE  \E m \in S : \A s \in S : s <= m
<1> DEFINE Bounds == {u \in Nat : \A s \in S : s <= u}
<1>1. Bounds \subseteq Nat /\ Bounds # {}
  OBVIOUS
<1>2. PICK m \in Bounds : \A y \in Bounds : m <= y
  <2> HIDE DEF Bounds
  <2> QED  BY <1>1, LeastOf
<1>3. \A y \in Bounds : ~(y < m)
  BY <1>1, <1>2
<1>4. CASE m \in S
  BY <1>4
<1>5. CASE m \notin S
  <2>1. \A s \in S : s < m
    BY <1>5
  <2>2. PICK s \in S : TRUE
    OBVIOUS
  <2>3. m - 1 \in Nat /\ \A t \in S : t <= m - 1
    BY <2>1, <2>2
  <2>4. m - 1 \in Bounds /\ m - 1 < m
    BY <2>3
  <2> QED  BY <1>3, <2>4
<1> QED  BY <1>4, <1>5

\* Finitely many numbers have a bound.
LEMMA NumbersBounded ==
    ASSUME NEW n \in Nat, NEW f \in [1..n -> Int]
    PROVE  \E b \in Nat : \A i \in 1..n : -b <= f[i] /\ f[i] <= b
<1> DEFINE Bounded(m) ==
             \A g \in [1..m -> Int] : \E b \in Nat : \A i \in 1..m : -b <= g[i] /\ g[i] <= b
           unbounded == {m \in Nat : ~Bounded(m)}
<1>1. ASSUME NEW m \in unbounded, \A k \in unbounded : m <= k
      PROVE  FALSE
  <2>1. CASE m = 0
    <3>1. Bounded(0)
      <4>1. 1..0 = {} /\ 0 \in Nat
        OBVIOUS
      <4> QED  BY <4>1
    <3> QED  BY <2>1, <3>1
  <2>2. CASE m # 0
    <3>1. m - 1 \in Nat /\ m - 1 \notin unbounded
      <4>1. m \in Nat
        OBVIOUS
      <4> HIDE DEF unbounded
      <4>2. m - 1 \in Nat /\ ~(m <= m - 1)
        BY <2>2, <4>1
      <4> QED  BY <1>1, <4>2
    <3>2. Bounded(m - 1)
      BY <3>1
    <3>3. ASSUME NEW g \in [1..m -> Int]
          PROVE  \E b \in Nat : \A i \in 1..m : -b <= g[i] /\ g[i] <= b
      <4>1. [i \in 1..(m - 1) |-> g[i]] \in [1..(m - 1) -> Int]
        BY <3>1
      <4>2. PICK b \in Nat : \A i \in 1..(m - 1) : -b <= g[i] /\ g[i] <= b
        BY <3>2, <4>1
      <4>3. m \in Nat /\ m \in 1..m /\ g[m] \in Int
        BY <2>2
      <4>4. PICK c \in Nat : -c <= g[m] /\ g[m] <= c
        <5>1. CASE g[m] >= 0
          <6>1. g[m] \in Nat /\ -g[m] <= g[m] /\ g[m] <= g[m]
            BY <4>3, <5>1
          <6> QED  BY <6>1
        <5>2. CASE g[m] < 0
          <6>1. -g[m] \in Nat /\ -(-g[m]) <= g[m] /\ g[m] <= -g[m]
            BY <4>3, <5>2
          <6> QED  BY <6>1
        <5> QED  BY <4>3, <5>1, <5>2
      <4>5. \A i \in 1..m : -(b + c) <= g[i] /\ g[i] <= b + c
        <5> SUFFICES ASSUME NEW i \in 1..m PROVE -(b + c) <= g[i] /\ g[i] <= b + c
          OBVIOUS
        <5>1. g[i] \in Int
          OBVIOUS
        <5>2. i = m \/ i \in 1..(m - 1)
          BY <4>3
        <5>3. (-b <= g[i] /\ g[i] <= b) \/ (-c <= g[i] /\ g[i] <= c)
          BY <4>2, <4>4, <5>2
        <5> QED  BY <5>1, <5>3
      <4>6. b + c \in Nat
        OBVIOUS
      <4> QED  BY <4>5, <4>6, Zenon
    <3> QED  BY <3>3
  <2> QED  BY <2>1, <2>2
<1>2. unbounded = {}
  <2> SUFFICES ASSUME unbounded # {} PROVE FALSE
    OBVIOUS
  <2>1. unbounded \in SUBSET Nat
    OBVIOUS
  <2> HIDE DEF unbounded
  <2>2. PICK m \in unbounded : \A k \in unbounded : m <= k
    BY <2>1, LeastOf
  <2> QED  BY <1>1, <2>2
<1>3. Bounded(n)
  BY <1>2
<1> QED  BY <1>3

\* So have the numbers of lists.
LEMMA NumbersOfListsBounded ==
    ASSUME NEW lists \in Seq(Seq(Int))
    PROVE  \E b \in Nat :
             \A i \in DOMAIN lists : \A p \in DOMAIN lists[i] : lists[i][p] \in (-b)..b
<1> DEFINE Bounds(i) == {b \in Nat : \A p \in DOMAIN lists[i] : -b <= lists[i][p] /\ lists[i][p] <= b}
           bound(i) == CHOOSE b \in Bounds(i) : TRUE
           f == [i \in 1..Len(lists) |-> bound(i)]
<1>1. /\ DOMAIN lists = 1..Len(lists) /\ Len(lists) \in Nat
      /\ \A i \in DOMAIN lists : lists[i] \in Seq(Int)
  OBVIOUS
<1>2. ASSUME NEW i \in 1..Len(lists)
      PROVE  Bounds(i) # {}
  <2>1. lists[i] \in Seq(Int)
    BY <1>1
  <2>2. lists[i] \in [1..Len(lists[i]) -> Int] /\ Len(lists[i]) \in Nat
    BY <2>1
  <2>3. DOMAIN lists[i] = 1..Len(lists[i])
    BY <2>1
  <2> QED  BY <2>2, <2>3, NumbersBounded
<1>3. \A i \in 1..Len(lists) : bound(i) \in Bounds(i)
  BY <1>2
<1> HIDE DEF bound
<1>4. /\ f \in [1..Len(lists) -> Int]
      /\ \A i \in 1..Len(lists) : f[i] \in Bounds(i)
  <2>1. \A i \in 1..Len(lists) : Bounds(i) \subseteq Nat
    OBVIOUS
  <2> HIDE DEF Bounds
  <2> QED  BY <1>3, <2>1
<1> HIDE DEF f
<1>5. PICK b \in Nat : \A i \in 1..Len(lists) : -b <= f[i] /\ f[i] <= b
  BY <1>1, <1>4, NumbersBounded
<1>6. ASSUME NEW i \in DOMAIN lists, NEW p \in DOMAIN lists[i]
      PROVE  lists[i][p] \in (-b)..b
  <2>1. lists[i][p] \in Int /\ i \in 1..Len(lists)
    BY <1>1
  <2>2. /\ f[i] \in Nat /\ -f[i] <= lists[i][p] /\ lists[i][p] <= f[i]
    BY <1>4, <2>1
  <2>3. -b <= f[i] /\ f[i] <= b
    BY <1>5, <2>1
  <2>4. f[i] \in Int /\ -f[i] \in Int
    BY <2>2
  <2> DEFINE x == lists[i][p]
             y == f[i]
  <2>5. /\ x \in Int /\ y \in Int /\ b \in Nat
        /\ -y <= x /\ x <= y /\ y <= b
    BY <2>1, <2>2, <2>3, <2>4
  <2> HIDE DEF x, y
  <2>6. x \in (-b)..b  BY <2>5
  <2> QED  BY <2>6 DEF x
<1> QED  BY <1>6

-----------------------------------------------------------------------------
(* Finite sets.                                                            *)

\* What differs for different elements has as many values as there are elements.
LEMMA ImageCardinality ==
    ASSUME NEW I, IsFiniteSet(I), NEW T, NEW f \in [I -> T], NEW image,
           \A i, j \in I : f[i] = f[j] => i = j,
           \A x : x \in image <=> \E i \in I : x = f[i]
    PROVE  IsFiniteSet(image) /\ Cardinality(image) = Cardinality(I)
<1>1. f \in [I -> image]
  OBVIOUS
<1>2. f \in Injection(I, image)
  BY <1>1 DEF Injection, IsInjective
<1>3. f \in Surjection(I, image)
  BY <1>1 DEF Surjection
<1>4. f \in Bijection(I, image)
  BY <1>2, <1>3 DEF Bijection
<1>5. ExistsBijection(I, image)
  BY <1>4 DEF ExistsBijection
<1> QED  BY <1>5, FS_Bijection

\* Some elements of a set are taken away and others added.
LEMMA ReplacedCardinality ==
    ASSUME NEW A, IsFiniteSet(A), NEW B \in SUBSET A, NEW C, IsFiniteSet(C), C \cap A = {}
    PROVE  /\ IsFiniteSet((A \ B) \cup C) /\ IsFiniteSet(B)
           /\ Cardinality((A \ B) \cup C) = Cardinality(A) - Cardinality(B) + Cardinality(C)
           /\ Cardinality(A) \in Nat /\ Cardinality(B) \in Nat /\ Cardinality(C) \in Nat
<1>1. IsFiniteSet(B) /\ A \cap B = B /\ (A \ B) \cap C = {}
  BY FS_Subset
<1>2. IsFiniteSet(A \ B) /\ Cardinality(A \ B) = Cardinality(A) - Cardinality(B)
  BY <1>1, FS_Difference
<1>3. /\ IsFiniteSet((A \ B) \cup C)
      /\ Cardinality((A \ B) \cup C)
           = Cardinality(A \ B) + Cardinality(C) - Cardinality((A \ B) \cap C)
  BY <1>2, FS_Union
<1>4. Cardinality((A \ B) \cap C) = 0
  BY <1>1, FS_EmptySet
<1>5. /\ Cardinality(A) \in Nat /\ Cardinality(B) \in Nat /\ Cardinality(C) \in Nat
      /\ Cardinality(A \ B) \in Nat
  BY <1>1, <1>2, FS_CardinalityType
<1> QED  BY <1>1, <1>2, <1>3, <1>4, <1>5

\* A set has more elements than a part that lacks one of them.
LEMMA PartIsSmaller ==
    ASSUME NEW S, IsFiniteSet(S), NEW T \in SUBSET S, NEW x \in S, x \notin T
    PROVE  IsFiniteSet(T) /\ Cardinality(T) < Cardinality(S)
<1>1. IsFiniteSet(T) /\ Cardinality(T) <= Cardinality(S) /\ Cardinality(S) # Cardinality(T)
  BY FS_Subset
<1>2. Cardinality(T) \in Nat /\ Cardinality(S) \in Nat
  BY <1>1, FS_CardinalityType
<1> QED  BY <1>1, <1>2

-----------------------------------------------------------------------------
(* Lists of numbers, as the atoms of rules and tokens are.                 *)

LEMMA PlacesMean ==
    ASSUME NEW lists \in Seq(Seq(Int))
    PROVE  /\ DOMAIN lists = 1..Len(lists) /\ Len(lists) \in Nat
           /\ \A i \in DOMAIN lists : lists[i] \in Seq(Int) /\ DOMAIN lists[i] = 1..Len(lists[i])
           /\ \A place \in Places(lists) :
                /\ place[1] \in DOMAIN lists /\ place[2] \in DOMAIN lists[place[1]]
                /\ place[1] \in Nat /\ place[2] \in Nat /\ place = <<place[1], place[2]>>
                /\ AtomAt(lists, place) \in Int /\ AtomAt(lists, place) \in AtomsOf(lists)
           /\ \A i \in DOMAIN lists : \A p \in DOMAIN lists[i] : <<i, p>> \in Places(lists)
           /\ \A atom \in AtomsOf(lists) : \E place \in Places(lists) : AtomAt(lists, place) = atom
<1>1. /\ DOMAIN lists = 1..Len(lists) /\ Len(lists) \in Nat
      /\ \A i \in DOMAIN lists : lists[i] \in Seq(Int) /\ DOMAIN lists[i] = 1..Len(lists[i])
  OBVIOUS
<1>2. \A i \in DOMAIN lists : \A p \in DOMAIN lists[i] : <<i, p>> \in Places(lists)
  BY DEF Places
<1>3. ASSUME NEW place \in Places(lists)
      PROVE  /\ place[1] \in DOMAIN lists /\ place[2] \in DOMAIN lists[place[1]]
             /\ place[1] \in Nat /\ place[2] \in Nat /\ place = <<place[1], place[2]>>
             /\ AtomAt(lists, place) \in Int /\ AtomAt(lists, place) \in AtomsOf(lists)
  <2>1. PICK i \in DOMAIN lists : \E p \in DOMAIN lists[i] : place = <<i, p>>
    BY DEF Places
  <2>2. PICK p \in DOMAIN lists[i] : place = <<i, p>>
    BY <2>1
  <2>3. i \in Nat /\ p \in Nat /\ lists[i][p] \in Int
    BY <1>1
  <2>4. lists[i][p] \in AtomsOf(lists)
    BY DEF AtomsOf, Range
  <2> QED  BY <2>2, <2>3, <2>4 DEF AtomAt
<1>4. ASSUME NEW atom \in AtomsOf(lists)
      PROVE  \E place \in Places(lists) : AtomAt(lists, place) = atom
  <2>1. PICK i \in DOMAIN lists : \E p \in DOMAIN lists[i] : atom = lists[i][p]
    BY DEF AtomsOf, Range
  <2>2. PICK p \in DOMAIN lists[i] : atom = lists[i][p]
    BY <2>1
  <2>3. <<i, p>> \in Places(lists) /\ AtomAt(lists, <<i, p>>) = atom
    BY <1>2, <2>2 DEF AtomAt
  <2> QED  BY <2>3
<1> QED  BY <1>1, <1>2, <1>3, <1>4

LEMMA AppearanceTransitive ==
    ASSUME NEW lists \in Seq(Seq(Int)), NEW a, NEW b, NEW c,
           AppearsBefore(lists, a, b), AppearsBefore(lists, b, c)
    PROVE  AppearsBefore(lists, a, c)
<1>1. PICK first \in Places(lists) :
        /\ AtomAt(lists, first) = a
        /\ \A later \in Places(lists) : AtomAt(lists, later) = b =>
             first[1] < later[1] \/ (first[1] = later[1] /\ first[2] < later[2])
  BY DEF AppearsBefore
<1>2. PICK second \in Places(lists) :
        /\ AtomAt(lists, second) = b
        /\ \A later \in Places(lists) : AtomAt(lists, later) = c =>
             second[1] < later[1] \/ (second[1] = later[1] /\ second[2] < later[2])
  BY DEF AppearsBefore
<1>3. first[1] < second[1] \/ (first[1] = second[1] /\ first[2] < second[2])
  BY <1>1, <1>2
<1>4. \A place \in Places(lists) : place[1] \in Nat /\ place[2] \in Nat
  BY PlacesMean
<1>5. ASSUME NEW later \in Places(lists), AtomAt(lists, later) = c
      PROVE  first[1] < later[1] \/ (first[1] = later[1] /\ first[2] < later[2])
  <2>1. second[1] < later[1] \/ (second[1] = later[1] /\ second[2] < later[2])
    BY <1>2, <1>5
  <2>2. /\ first[1] \in Nat /\ first[2] \in Nat /\ second[1] \in Nat /\ second[2] \in Nat
        /\ later[1] \in Nat /\ later[2] \in Nat
    BY <1>4
  <2> QED  BY <1>3, <2>1, <2>2
<1> QED  BY <1>1, <1>5 DEF AppearsBefore

\* Of two atoms one appears first: the place of either that comes first has one.
LEMMA AppearanceTotal ==
    ASSUME NEW lists \in Seq(Seq(Int)), NEW a \in AtomsOf(lists), NEW b \in AtomsOf(lists),
           a # b
    PROVE  AppearsBefore(lists, a, b) \/ AppearsBefore(lists, b, a)
<1> DEFINE Both == {place \in Places(lists) :
                      AtomAt(lists, place) = a \/ AtomAt(lists, place) = b}
           Lists == {place[1] : place \in Both}
<1>1. Both # {}
  BY PlacesMean
<1>2. \A place \in Places(lists) : place[1] \in Nat /\ place[2] \in Nat
                                   /\ place = <<place[1], place[2]>>
  BY PlacesMean
<1>3. PICK i \in Lists : \A j \in Lists : i <= j
  <2>1. Lists \in SUBSET Nat /\ Lists # {}  BY <1>1, <1>2
  <2> HIDE DEF Lists
  <2> QED  BY <2>1, LeastOf
<1> DEFINE Inside == {place[2] : place \in {any \in Both : any[1] = i}}
<1>4. PICK p \in Inside : \A q \in Inside : p <= q
  <2>1. Inside \in SUBSET Nat /\ Inside # {}  BY <1>2, <1>3
  <2> HIDE DEF Inside
  <2> QED  BY <2>1, LeastOf
<1>5. PICK first \in Both : first[1] = i /\ first[2] = p
  BY <1>4
<1>6. \A place \in Both : i <= place[1] /\ (place[1] = i => p <= place[2])
  BY <1>3, <1>4
<1> HIDE DEF Lists, Inside
<1>7. ASSUME NEW other \in Both, AtomAt(lists, other) # AtomAt(lists, first)
      PROVE  first[1] < other[1] \/ (first[1] = other[1] /\ first[2] < other[2])
  <2>1. other # first  BY <1>7
  <2>2. i <= other[1] /\ (other[1] = i => p <= other[2])  BY <1>6
  <2>3. i \in Nat /\ p \in Nat /\ other[1] \in Nat /\ other[2] \in Nat
    BY <1>2, <1>5
  <2>4. other[1] = i => other[2] # p
    BY <1>2, <1>5, <2>1
  <2> QED  BY <1>5, <2>2, <2>3, <2>4
<1>8. CASE AtomAt(lists, first) = a
  BY <1>7, <1>8 DEF AppearsBefore
<1>9. CASE AtomAt(lists, first) = b
  BY <1>7, <1>9 DEF AppearsBefore
<1> QED  BY <1>5, <1>8, <1>9

\* The atoms and the patterns of lists are finitely many.
LEMMA PatternsAreFinite ==
    ASSUME NEW lists \in Seq(Seq(Int))
    PROVE  /\ IsFiniteSet(AtomsOf(lists)) /\ AtomsOf(lists) \subseteq Int
           /\ IsFiniteSet(NewPatterns(lists)) /\ Cardinality(NewPatterns(lists)) \in Nat
<1>1. PICK b \in Nat :
        \A i \in DOMAIN lists : \A p \in DOMAIN lists[i] : lists[i][p] \in (-b)..b
  BY NumbersOfListsBounded
<1>2. \A atom \in AtomsOf(lists) : atom \in (-b)..b
  BY <1>1 DEF AtomsOf, Range
<1>3. IsFiniteSet((-b)..b) /\ AtomsOf(lists) \in SUBSET ((-b)..b)
  BY <1>2, FS_Interval
<1>4. IsFiniteSet(AtomsOf(lists))
  BY <1>3, FS_Subset
<1>5. NewPatterns(lists) \in SUBSET AtomsOf(lists)
  BY DEF NewPatterns
<1>6. IsFiniteSet(NewPatterns(lists))
  BY <1>4, <1>5, FS_Subset
<1> QED  BY <1>2, <1>4, <1>6, FS_CardinalityType

\* How many patterns of the lists appear no later than a pattern does.
RankOfPattern(lists, pattern) ==
    Cardinality({other \in NewPatterns(lists) : ~AppearsBefore(lists, pattern, other)})

\* Patterns have different ranks, from one to the number of patterns.
LEMMA RanksOfPatterns ==
    ASSUME NEW lists \in Seq(Seq(Int)), NEW a \in NewPatterns(lists)
    PROVE  /\ RankOfPattern(lists, a) \in 1..Cardinality(NewPatterns(lists))
           /\ \A b \in NewPatterns(lists) :
                RankOfPattern(lists, a) = RankOfPattern(lists, b) => a = b
<1> DEFINE UpTo(pattern) ==
             {other \in NewPatterns(lists) : ~AppearsBefore(lists, pattern, other)}
           all == NewPatterns(lists)
<1>1. /\ IsFiniteSet(all) /\ Cardinality(all) \in Nat
      /\ all \subseteq AtomsOf(lists)
  BY PatternsAreFinite DEF NewPatterns
<1>2. \A pattern \in all : ~AppearsBefore(lists, pattern, pattern)
  <2> SUFFICES ASSUME NEW pattern \in all, AppearsBefore(lists, pattern, pattern)
               PROVE  FALSE
    OBVIOUS
  <2>1. PICK place \in Places(lists) :
          place[1] < place[1] \/ (place[1] = place[1] /\ place[2] < place[2])
    BY DEF AppearsBefore
  <2>2. place[1] \in Nat /\ place[2] \in Nat
    BY PlacesMean
  <2> QED  BY <2>1, <2>2
<1>3. \A pattern \in all : /\ UpTo(pattern) \in SUBSET all /\ pattern \in UpTo(pattern)
                           /\ IsFiniteSet(UpTo(pattern))
  BY <1>1, <1>2, FS_Subset
<1>4. ASSUME NEW pattern \in all
      PROVE  Cardinality(UpTo(pattern)) \in 1..Cardinality(all)
  <2> HIDE DEF all, UpTo
  <2>1. /\ Cardinality(UpTo(pattern)) \in Nat
        /\ Cardinality(UpTo(pattern)) <= Cardinality(all)
    BY <1>1, <1>3, FS_CardinalityType, FS_Subset
  <2>2. Cardinality(UpTo(pattern)) # 0
    BY <1>3, FS_EmptySet
  <2> QED  BY <1>1, <2>1, <2>2
<1>5. ASSUME NEW x \in all, NEW y \in all, AppearsBefore(lists, x, y)
      PROVE  Cardinality(UpTo(x)) < Cardinality(UpTo(y))
  <2>1. UpTo(x) \in SUBSET UpTo(y)
    BY <1>5, AppearanceTransitive
  <2>2. y \in UpTo(y) /\ y \notin UpTo(x)
    BY <1>3, <1>5
  <2> HIDE DEF UpTo
  <2> QED  BY <1>3, <2>1, <2>2, PartIsSmaller
<1>6. ASSUME NEW b \in all, Cardinality(UpTo(a)) = Cardinality(UpTo(b)) PROVE a = b
  <2> SUFFICES ASSUME a # b PROVE FALSE  OBVIOUS
  <2>1. AppearsBefore(lists, a, b) \/ AppearsBefore(lists, b, a)
    BY <1>1, AppearanceTotal
  <2>2. \/ Cardinality(UpTo(a)) < Cardinality(UpTo(b))
        \/ Cardinality(UpTo(b)) < Cardinality(UpTo(a))
    BY <1>5, <2>1
  <2>3. Cardinality(UpTo(a)) \in Nat /\ Cardinality(UpTo(b)) \in Nat
    BY <1>1, <1>4
  <2> HIDE DEF UpTo
  <2> QED  BY <1>6, <2>2, <2>3
<1>7. \A pattern \in all : RankOfPattern(lists, pattern) = Cardinality(UpTo(pattern))
  BY DEF RankOfPattern
<1> HIDE DEF UpTo
<1> QED  BY <1>4, <1>6, <1>7

-----------------------------------------------------------------------------
(* Congruence.                                                             *)

LEMMA Division ==
    ASSUME NEW a \in Int, NEW k \in Nat, k > 0
    PROVE  /\ a = k * (a \div k) + (a % k)
           /\ a % k \in 0..(k - 1)
           /\ a \div k \in Int
OBVIOUS

LEMMA Multiple ==
    ASSUME NEW a \in Int, NEW k \in Nat, k > 0, a % k = 0
    PROVE  \E q \in Int : a = k * q
BY Division

LEMMA MultipleMod ==
    ASSUME NEW q \in Int, NEW k \in Nat, k > 0
    PROVE  (k * q) % k = 0
<1> DEFINE d == (k * q) \div k
           m == (k * q) % k
<1>1. k * q = k * d + m /\ m \in 0..(k - 1) /\ d \in Int  BY Division
<1> HIDE DEF d, m
<1>2. k * (q - d) = m  BY <1>1
<1>3. CASE q - d >= 1
  <2>1. k * (q - d) >= k * 1  BY <1>1, <1>3
  <2> QED  BY <1>1, <1>2, <2>1
<1>4. CASE q - d <= -1
  <2>1. k * (q - d) <= k * (-1)  BY <1>1, <1>4
  <2> QED  BY <1>1, <1>2, <2>1
<1>5. CASE q = d
  BY <1>1, <1>5
<1> QED  BY <1>1, <1>3, <1>4, <1>5 DEF m

\* Numbers congruent to the same number are congruent.
LEMMA CongruentToSame ==
    ASSUME NEW a \in Int, NEW b \in Int, NEW c \in Int, NEW k \in Nat, k > 0,
           (a - c) % k = 0, (b - c) % k = 0
    PROVE  (a - b) % k = 0
<1> a - c \in Int /\ b - c \in Int  OBVIOUS
<1>1. PICK p \in Int : a - c = k * p  BY Multiple
<1>2. PICK q \in Int : b - c = k * q  BY Multiple
<1>3. a - b = k * (p - q) /\ p - q \in Int  BY <1>1, <1>2
<1> QED  BY <1>3, MultipleMod

LEMMA CongruenceTransitive ==
    ASSUME NEW a \in Int, NEW b \in Int, NEW c \in Int, NEW k \in Nat, k > 0,
           (a - b) % k = 0, (b - c) % k = 0
    PROVE  (a - c) % k = 0
<1> a - b \in Int /\ b - c \in Int  OBVIOUS
<1>1. PICK p \in Int : a - b = k * p  BY Multiple
<1>2. PICK q \in Int : b - c = k * q  BY Multiple
<1>3. a - c = k * (p + q) /\ p + q \in Int  BY <1>1, <1>2
<1> QED  BY <1>3, MultipleMod

\* A number is congruent to exactly one of 1..k.
LEMMA CongruentInRange ==
    ASSUME NEW k \in Nat, k > 0, NEW i \in 1..k, NEW j \in 1..k, (i - j) % k = 0
    PROVE  i = j
<1>1. PICK p \in Int : i - j = k * p  BY Multiple
<1>2. CASE p >= 1
  <2>1. k * p >= k * 1  BY <1>1, <1>2
  <2> QED  BY <1>1, <2>1
<1>3. CASE p <= -1
  <2>1. k * p <= k * (-1)  BY <1>1, <1>3
  <2> QED  BY <1>1, <2>1
<1> QED  BY <1>1, <1>2, <1>3

LEMMA CongruentOnce ==
    ASSUME NEW k \in Nat, k > 0, NEW r \in Int, NEW i \in 1..k, NEW j \in 1..k,
           (r - i) % k = 0, (r - j) % k = 0
    PROVE  i = j
<1> r - i \in Int /\ r - j \in Int  OBVIOUS
<1>1. PICK p \in Int : r - i = k * p  BY Multiple
<1>2. PICK q \in Int : r - j = k * q  BY Multiple
<1>3. i - j = k * (q - p) /\ q - p \in Int  BY <1>1, <1>2
<1>4. (i - j) % k = 0  BY <1>3, MultipleMod
<1> QED  BY <1>4, CongruentInRange

LEMMA CongruentExists ==
    ASSUME NEW k \in Nat, k > 0, NEW r \in Int
    PROVE  \E i \in 1..k : (r - i) % k = 0
<1> DEFINE i == 1 + ((r - 1) % k)
<1>1. i \in 1..k /\ \E q \in Int : r - i = k * q
  <2>1. /\ r - 1 = k * ((r - 1) \div k) + ((r - 1) % k)
        /\ (r - 1) % k \in 0..(k - 1) /\ (r - 1) \div k \in Int
    BY Division
  <2> QED  BY <2>1
<1> QED  BY <1>1, MultipleMod
=============================================================================
