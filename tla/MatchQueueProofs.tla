------------------------- MODULE MatchQueueProofs -------------------------
(***************************************************************************)
(* Theorems about MatchQueue, for any set of matches and any ordering, and *)
(* about MatchOrdering: MatchComparator is a strict weak order for every   *)
(* ordering specification, so that it gives each match a rank as SortKey   *)
(* does, and the order of newMatches_ tells all matches apart.             *)
(***************************************************************************)
EXTENDS MatchQueue, MatchOrdering, ArithmeticLemmas, SequenceTheorems,
        FiniteSetTheorems, TLAPS

-----------------------------------------------------------------------------
(* One bucket.                                                             *)

\* Pushing a match that a good bucket does not hold gives a good bucket.
LEMMA GrownBucketGood ==
    ASSUME NEW bucket, IsBucket(bucket), NEW m \in Matches,
           bucket = EmptyBucket \/ BucketIndexed(bucket),
           m \notin DOMAIN bucket.index
    PROVE  LET grown == GrownBucket(bucket, m)
           IN  /\ IsBucket(grown)
               /\ BucketIndexed(grown)
               /\ DOMAIN grown.index = DOMAIN bucket.index \cup {m}
<1> DEFINE grown == GrownBucket(bucket, m)
           size == Len(bucket.list)
<1>1. bucket.list \in Seq(Matches) /\ size \in Nat /\ DOMAIN bucket.list = 1..size
  BY DEF IsBucket
<1>2. /\ grown.list \in Seq(Matches)
      /\ DOMAIN grown.list = 1..(size + 1)
      /\ grown.list # <<>>
      /\ \A i \in 1..size : grown.list[i] = bucket.list[i]
      /\ grown.list[size + 1] = m
  BY <1>1, AppendProperties DEF GrownBucket
<1>3. /\ DOMAIN grown.index = DOMAIN bucket.index \cup {m}
      /\ grown.index[m] = size + 1
      /\ \A x \in DOMAIN bucket.index : grown.index[x] = bucket.index[x]
  BY DEF GrownBucket
<1>4. /\ \A i \in 1..size : /\ bucket.list[i] \in DOMAIN bucket.index
                            /\ bucket.index[bucket.list[i]] = i
      /\ \A x \in DOMAIN bucket.index : /\ bucket.index[x] \in 1..size
                                        /\ bucket.list[bucket.index[x]] = x
  <2>1. CASE bucket = EmptyBucket
    <3>1. DOMAIN bucket.index = {} /\ size = 0
      BY <2>1 DEF EmptyBucket
    <3> QED  BY <3>1
  <2>2. CASE BucketIndexed(bucket)
    BY <1>1, <2>2 DEF BucketIndexed
  <2> QED  BY <2>1, <2>2
<1> HIDE DEF grown, size
<1>5. IsBucket(grown)
  BY <1>1, <1>2, <1>3 DEF IsBucket
<1>6. BucketIndexed(grown)
  <2>1. ASSUME NEW i \in 1..(size + 1)
        PROVE  /\ grown.list[i] \in DOMAIN grown.index
               /\ grown.index[grown.list[i]] = i
    <3>1. CASE i = size + 1
      BY <1>2, <1>3, <3>1
    <3>2. CASE i \in 1..size
      BY <1>2, <1>3, <1>4, <3>2
    <3> QED  BY <1>1, <3>1, <3>2
  <2>2. ASSUME NEW x \in DOMAIN grown.index
        PROVE  /\ grown.index[x] \in 1..(size + 1)
               /\ grown.list[grown.index[x]] = x
    <3>1. CASE x = m
      BY <1>1, <1>2, <1>3, <3>1
    <3>2. CASE x \in DOMAIN bucket.index
      <4>1. grown.index[x] = bucket.index[x] /\ bucket.index[x] \in 1..size
        BY <1>3, <1>4, <3>2
      <4>2. grown.list[bucket.index[x]] = bucket.list[bucket.index[x]]
        BY <1>2, <4>1
      <4>3. bucket.list[bucket.index[x]] = x
        BY <1>4, <3>2
      <4> QED  BY <1>1, <4>1, <4>2, <4>3
    <3> QED  BY <1>3, <3>1, <3>2
  <2> QED  BY <1>2, <2>1, <2>2 DEF BucketIndexed
<1> QED  BY <1>3, <1>5, <1>6 DEF grown

\* Deleting a match that a good bucket holds gives a good bucket, or an empty one.
LEMMA ShrunkBucketGood ==
    ASSUME NEW bucket, IsBucket(bucket), BucketIndexed(bucket),
           NEW m \in DOMAIN bucket.index
    PROVE  LET shrunk == ShrunkBucket(bucket, m)
           IN  /\ IsBucket(shrunk)
               /\ DOMAIN shrunk.index = DOMAIN bucket.index \ {m}
               /\ DOMAIN shrunk.index # {} => BucketIndexed(shrunk)
<1> DEFINE shrunk == ShrunkBucket(bucket, m)
           size == Len(bucket.list)
           position == bucket.index[m]
           moved == bucket.list[size]
           swapped == [bucket.list EXCEPT ![position] = moved, ![size] = m]
           reindexed == [bucket.index EXCEPT ![moved] = position]
<1>1. /\ bucket.list \in Seq(Matches) /\ size \in Nat /\ DOMAIN bucket.list = 1..size
      /\ size >= 1
  BY DEF IsBucket, BucketIndexed
<1>2. /\ position \in 1..size /\ bucket.list[position] = m
      /\ moved \in DOMAIN bucket.index /\ bucket.index[moved] = size
      /\ m \in Matches /\ moved \in Matches
  BY <1>1 DEF BucketIndexed, IsBucket
<1>3. /\ \A i \in 1..size : /\ bucket.list[i] \in DOMAIN bucket.index
                            /\ bucket.index[bucket.list[i]] = i
                            /\ bucket.list[i] \in Matches
      /\ \A x \in DOMAIN bucket.index : /\ bucket.index[x] \in 1..size
                                        /\ bucket.list[bucket.index[x]] = x
                                        /\ x \in Matches
  BY <1>1 DEF BucketIndexed, IsBucket
<1>4. /\ DOMAIN swapped = 1..size
      /\ \A i \in 1..(size - 1) :
           swapped[i] = IF i = position THEN moved ELSE bucket.list[i]
  BY <1>1, <1>2
<1>5. shrunk.list = SubSeq(swapped, 1, size - 1)
      /\ shrunk.index = Restrict(reindexed, DOMAIN reindexed \ {m})
  BY DEF ShrunkBucket
<1>6. /\ DOMAIN shrunk.index = DOMAIN bucket.index \ {m}
      /\ \A x \in DOMAIN bucket.index \ {m} :
           shrunk.index[x] = IF x = moved THEN position ELSE bucket.index[x]
  BY <1>5 DEF Restrict
<1>7. \A i \in 1..(size - 1) : swapped[i] \in Matches
  <2> SUFFICES ASSUME NEW i \in 1..(size - 1) PROVE swapped[i] \in Matches
    OBVIOUS
  <2>1. bucket.list[i] \in Matches
    BY <1>1, <1>3
  <2> HIDE DEF swapped, moved, position
  <2> QED  BY <1>2, <1>4, <2>1
<1>8. /\ shrunk.list \in Seq(Matches)
      /\ Len(shrunk.list) = size - 1
      /\ \A i \in 1..(size - 1) :
           shrunk.list[i] = IF i = position THEN moved ELSE bucket.list[i]
  <2>1. /\ SubSeq(swapped, 1, size - 1) \in Seq(Matches)
        /\ Len(SubSeq(swapped, 1, size - 1)) = IF 1 <= size - 1 THEN size - 1 - 1 + 1 ELSE 0
        /\ \A i \in 1..(size - 1 - 1 + 1) : SubSeq(swapped, 1, size - 1)[i] = swapped[1 + i - 1]
    <3> HIDE DEF swapped, size
    <3> QED  BY <1>1, <1>7, SubSeqProperties
  <2>2. \A i \in 1..(size - 1) : 1 + i - 1 = i
    BY <1>1
  <2> HIDE DEF shrunk, swapped, size, moved, position
  <2>3. shrunk.list \in Seq(Matches) /\ Len(shrunk.list) = size - 1
    BY <1>1, <1>5, <2>1
  <2>4. \A i \in 1..(size - 1) : shrunk.list[i] = swapped[i]
    BY <1>1, <1>5, <2>1, <2>2
  <2>5. \A i \in 1..(size - 1) :
          shrunk.list[i] = IF i = position THEN moved ELSE bucket.list[i]
    BY <1>4, <2>4
  <2> QED  BY <2>3, <2>5
<1> HIDE DEF shrunk, size, position, moved, swapped, reindexed
<1>9. IsBucket(shrunk)
  <2>1. DOMAIN shrunk.index \subseteq Matches  BY <1>3, <1>6
  <2>2. \A x \in DOMAIN shrunk.index : shrunk.index[x] \in 1..size  BY <1>2, <1>3, <1>6
  <2>3. \A x \in DOMAIN shrunk.index : shrunk.index[x] \in Nat \ {0}  BY <1>1, <2>2
  <2> QED  BY <1>8, <2>1, <2>3 DEF IsBucket
<1>10. ASSUME DOMAIN shrunk.index # {} PROVE BucketIndexed(shrunk)
  <2>1. \A x \in DOMAIN shrunk.index :
          /\ shrunk.index[x] \in 1..(size - 1)
          /\ shrunk.list[shrunk.index[x]] = x
    <3> SUFFICES ASSUME NEW x \in DOMAIN shrunk.index
                 PROVE  /\ shrunk.index[x] \in 1..(size - 1)
                        /\ shrunk.list[shrunk.index[x]] = x
      OBVIOUS
    <3>1. CASE x = moved
      <4>1. position # size
        BY <1>2, <1>3, <1>6, <3>1
      <4> QED  BY <1>1, <1>2, <1>6, <1>8, <3>1, <4>1
    <3>2. CASE x # moved
      <4>1. bucket.index[x] # size /\ bucket.index[x] # position
        BY <1>2, <1>3, <1>6, <3>2 DEF moved
      <4>2. shrunk.index[x] = bucket.index[x] /\ bucket.index[x] \in 1..(size - 1)
        BY <1>1, <1>3, <1>6, <3>2, <4>1
      <4>3. shrunk.list[bucket.index[x]] = bucket.list[bucket.index[x]]
        BY <1>8, <4>1, <4>2
      <4>4. bucket.list[bucket.index[x]] = x
        BY <1>3, <1>6
      <4> QED  BY <4>2, <4>3, <4>4
    <3> QED  BY <3>1, <3>2
  <2>2. \A i \in 1..(size - 1) :
          /\ shrunk.list[i] \in DOMAIN shrunk.index
          /\ shrunk.index[shrunk.list[i]] = i
    <3> SUFFICES ASSUME NEW i \in 1..(size - 1)
                 PROVE  /\ shrunk.list[i] \in DOMAIN shrunk.index
                        /\ shrunk.index[shrunk.list[i]] = i
      OBVIOUS
    <3>1. CASE i = position
      <4>1. shrunk.list[i] = moved /\ moved # m
        <5>1. position # size
          BY <1>1, <3>1
        <5>2. bucket.index[m] = position
          BY DEF position
        <5> QED  BY <1>2, <1>8, <3>1, <5>1, <5>2
      <4> QED  BY <1>2, <1>6, <3>1, <4>1
    <3>2. CASE i # position
      <4>1. shrunk.list[i] = bucket.list[i] /\ i \in 1..size
        BY <1>1, <1>8, <3>2
      <4>2. bucket.list[i] # m /\ bucket.list[i] # moved
        BY <1>1, <1>2, <1>3, <3>2, <4>1 DEF position
      <4> QED  BY <1>3, <1>6, <4>1, <4>2
    <3> QED  BY <3>1, <3>2
  <2>3. shrunk.list # <<>>
    <3>1. PICK x \in DOMAIN shrunk.index : TRUE
      BY <1>10
    <3>2. Len(shrunk.list) >= 1
      BY <1>1, <1>8, <2>1
    <3> QED  BY <3>2
  <2>4. DOMAIN shrunk.list = 1..(size - 1)
    BY <1>1, <1>8
  <2> QED  BY <2>1, <2>2, <2>3, <2>4 DEF BucketIndexed
<1> QED  BY <1>6, <1>9, <1>10 DEF shrunk

-----------------------------------------------------------------------------
(* One insertion or deletion.                                              *)

\* The containers are well typed and agree with each other.
ContainersOK ==
    /\ DOMAIN matchQueue \subseteq {SortKey(m) : m \in Matches}
    /\ \A key \in DOMAIN matchQueue : IsBucket(matchQueue[key])
    /\ tokensToMatches \in [Tokens -> SUBSET Matches]
    /\ allMatches \subseteq Matches
    /\ BucketsIndexed /\ QueueHoldsAllMatches /\ TokensLeadToMatches

\* Inserting a match, new or known, keeps the containers in agreement.
LEMMA InsertMatchKeepsContainers ==
    ASSUME ContainersOK, NEW m \in Matches, InsertMatch(m)
    PROVE  ContainersOK' /\ allMatches' = allMatches \cup {m}
<1>1. CASE m \in allMatches /\ UNCHANGED containers
  BY <1>1 DEF containers, ContainersOK, BucketsIndexed, QueueHoldsAllMatches,
              TokensLeadToMatches
<1>2. CASE m \notin allMatches
  <2> DEFINE key == SortKey(m)
             bucket == BucketAt(key)
             grown == GrownBucket(bucket, m)
  <2>1. /\ allMatches' = allMatches \cup {m}
        /\ matchQueue' = QueueWith(key, grown)
        /\ tokensToMatches' = [t \in DOMAIN tokensToMatches |->
              IF t \in InputTokens(m) THEN tokensToMatches[t] \cup {m} ELSE tokensToMatches[t]]
    BY <1>2 DEF InsertMatch
  <2>2. IsBucket(bucket) /\ (bucket = EmptyBucket \/ BucketIndexed(bucket))
    <3>1. IsBucket(EmptyBucket)
      BY DEF IsBucket, EmptyBucket
    <3> QED  BY <3>1 DEF BucketAt, ContainersOK, BucketsIndexed
  <2>3. m \notin DOMAIN bucket.index
    BY <1>2 DEF BucketAt, EmptyBucket, ContainersOK, QueueHoldsAllMatches
  <2>4. /\ IsBucket(grown) /\ BucketIndexed(grown)
        /\ DOMAIN grown.index = DOMAIN bucket.index \cup {m}
    BY <2>2, <2>3, GrownBucketGood
  <2>5. \A x \in DOMAIN bucket.index : SortKey(x) = key /\ x \in allMatches
    BY DEF BucketAt, EmptyBucket, ContainersOK, QueueHoldsAllMatches
  <2>6. \A x \in allMatches : SortKey(x) = key => x \in DOMAIN bucket.index
    BY DEF BucketAt, ContainersOK, QueueHoldsAllMatches
  <2>7. /\ DOMAIN matchQueue' = DOMAIN matchQueue \cup {key}
        /\ matchQueue'[key] = grown
        /\ \A k \in DOMAIN matchQueue : k # key => matchQueue'[k] = matchQueue[k]
    BY <2>1 DEF QueueWith
  <2> HIDE DEF grown, bucket
  <2>8. /\ DOMAIN matchQueue' \subseteq {SortKey(x) : x \in Matches}
        /\ \A k \in DOMAIN matchQueue' : IsBucket(matchQueue'[k])
    BY <2>4, <2>7 DEF ContainersOK
  <2>9. BucketsIndexed'
    BY <2>4, <2>7 DEF ContainersOK, BucketsIndexed
  <2>10. QueueHoldsAllMatches'
    BY <2>1, <2>4, <2>5, <2>6, <2>7 DEF ContainersOK, QueueHoldsAllMatches
  <2>11. tokensToMatches' \in [Tokens -> SUBSET Matches] /\ TokensLeadToMatches'
    BY <2>1 DEF ContainersOK, TokensLeadToMatches
  <2>12. allMatches' \subseteq Matches
    BY <2>1 DEF ContainersOK
  <2> QED  BY <2>1, <2>8, <2>9, <2>10, <2>11, <2>12 DEF ContainersOK
<1> QED  BY <1>1, <1>2 DEF InsertMatch

\* Deleting a match of the queue keeps the containers in agreement.
LEMMA RemovalKeepsContainers ==
    ASSUME ContainersOK, NEW m \in allMatches, RemoveFromContainers(m)
    PROVE  ContainersOK' /\ allMatches' = allMatches \ {m}
<1> DEFINE key == SortKey(m)
           bucket == matchQueue[key]
           shrunk == ShrunkBucket(bucket, m)
<1>1. key \in DOMAIN matchQueue /\ m \in DOMAIN bucket.index
  BY DEF ContainersOK, QueueHoldsAllMatches
<1>2. IsBucket(bucket) /\ BucketIndexed(bucket)
  BY <1>1 DEF ContainersOK, BucketsIndexed
<1>3. /\ IsBucket(shrunk)
      /\ DOMAIN shrunk.index = DOMAIN bucket.index \ {m}
      /\ DOMAIN shrunk.index # {} => BucketIndexed(shrunk)
  BY <1>1, <1>2, ShrunkBucketGood
<1>4. /\ allMatches' = allMatches \ {m}
      /\ tokensToMatches' = [t \in DOMAIN tokensToMatches |->
            IF t \in InputTokens(m) THEN tokensToMatches[t] \ {m} ELSE tokensToMatches[t]]
      /\ matchQueue' = IF DOMAIN shrunk.index = {} THEN QueueWithout(key)
                       ELSE QueueWith(key, shrunk)
  BY DEF RemoveFromContainers
<1>5. /\ \A x \in DOMAIN bucket.index : SortKey(x) = key /\ x \in allMatches
      /\ \A x \in allMatches : SortKey(x) = key => x \in DOMAIN bucket.index
  BY <1>1 DEF ContainersOK, QueueHoldsAllMatches
<1> HIDE DEF shrunk
<1>6. /\ DOMAIN matchQueue' = DOMAIN matchQueue
                               \ (IF DOMAIN shrunk.index = {} THEN {key} ELSE {})
      /\ DOMAIN shrunk.index # {} => matchQueue'[key] = shrunk
      /\ \A k \in DOMAIN matchQueue : k # key => matchQueue'[k] = matchQueue[k]
  BY <1>1, <1>4 DEF QueueWith, QueueWithout, Restrict
<1> HIDE DEF bucket
<1>7. /\ DOMAIN matchQueue' \subseteq {SortKey(x) : x \in Matches}
      /\ \A k \in DOMAIN matchQueue' : IsBucket(matchQueue'[k])
  BY <1>3, <1>6 DEF ContainersOK
<1>8. BucketsIndexed'
  BY <1>3, <1>6 DEF ContainersOK, BucketsIndexed
<1>9. QueueHoldsAllMatches'
  <2>1. ASSUME NEW k \in DOMAIN matchQueue', NEW x \in DOMAIN matchQueue'[k].index
        PROVE  SortKey(x) = k /\ x \in allMatches'
    <3>1. CASE k = key
      BY <1>3, <1>4, <1>5, <1>6, <3>1
    <3>2. CASE k # key
      <4>1. x \in DOMAIN matchQueue[k].index /\ k \in DOMAIN matchQueue
        BY <1>6, <3>2
      <4>2. SortKey(x) = k /\ x \in allMatches
        BY <4>1 DEF ContainersOK, QueueHoldsAllMatches
      <4> QED  BY <1>4, <3>2, <4>2
    <3> QED  BY <3>1, <3>2
  <2>2. ASSUME NEW x \in allMatches'
        PROVE  /\ SortKey(x) \in DOMAIN matchQueue'
               /\ x \in DOMAIN matchQueue'[SortKey(x)].index
    <3>1. x \in allMatches /\ x # m
      BY <1>4
    <3>2. /\ SortKey(x) \in DOMAIN matchQueue
          /\ x \in DOMAIN matchQueue[SortKey(x)].index
      BY <3>1 DEF ContainersOK, QueueHoldsAllMatches
    <3>3. CASE SortKey(x) = key
      <4>1. x \in DOMAIN shrunk.index
        BY <1>3, <1>5, <3>1, <3>3
      <4> QED  BY <1>6, <3>2, <3>3, <4>1
    <3>4. CASE SortKey(x) # key
      BY <1>6, <3>2, <3>4
    <3> QED  BY <3>3, <3>4
  <2> QED  BY <2>1, <2>2 DEF QueueHoldsAllMatches
<1>10. tokensToMatches' \in [Tokens -> SUBSET Matches] /\ TokensLeadToMatches'
  BY <1>4 DEF ContainersOK, TokensLeadToMatches
<1>11. allMatches' \subseteq Matches
  BY <1>4 DEF ContainersOK
<1> QED  BY <1>4, <1>7, <1>8, <1>9, <1>10, <1>11 DEF ContainersOK

-----------------------------------------------------------------------------
(* The invariant.                                                          *)

MatchQueueInvariant == TypeOK /\ ContainersAgree

\* The empty containers of a new matcher agree.
LEMMA InitialContainers == Init => MatchQueueInvariant
BY DEF Init, MatchQueueInvariant, TypeOK, ContainersAgree, BucketsIndexed,
       QueueHoldsAllMatches, TokensLeadToMatches, PendingAreQueued

\* The parts of the invariant that only constrain the containers.
LEMMA InvariantParts ==
    MatchQueueInvariant <=>
        /\ ContainersOK
        /\ eventDeduplication \in Deduplications
        /\ newMatches \subseteq Matches /\ pending \subseteq Matches
        /\ nextMatch \in Matches \cup {NoMatch}
        /\ call \in {"none", "add", "flush", "remove"}
        /\ matchStorage \in {"Main", "NewMatches"}
        /\ PendingAreQueued
BY DEF MatchQueueInvariant, TypeOK, ContainersOK, ContainersAgree

\* A step that leaves the containers alone leaves them in agreement.
LEMMA SameContainers ==
    ASSUME ContainersOK, UNCHANGED containers
    PROVE  ContainersOK'
BY DEF containers, ContainersOK, BucketsIndexed, QueueHoldsAllMatches, TokensLeadToMatches

\* The members of the first bucket are the best matches of the queue.
LEMMA FirstBucketIsBest ==
    ASSUME ContainersOK, NEW key \in FirstKeys, NEW m \in Range(matchQueue[key].list)
    PROVE  m \in allMatches /\ \A n \in allMatches : SortKey(m) <= SortKey(n)
<1>1. key \in DOMAIN matchQueue /\ \A l \in DOMAIN matchQueue : key <= l
  BY DEF FirstKeys
<1>2. m \in DOMAIN matchQueue[key].index
  BY <1>1 DEF Range, ContainersOK, BucketsIndexed, BucketIndexed
<1>3. SortKey(m) = key /\ m \in allMatches
  BY <1>1, <1>2 DEF ContainersOK, QueueHoldsAllMatches
<1>4. \A n \in allMatches : SortKey(n) \in DOMAIN matchQueue
  BY DEF ContainersOK, QueueHoldsAllMatches
<1> QED  BY <1>1, <1>3, <1>4

\* The first bucket is missing only when there is no match.
LEMMA FirstBucketExists ==
    ASSUME ContainersOK, DOMAIN matchQueue # {}
    PROVE  FirstKeys # {} /\ allMatches # {}
<1>1. DOMAIN matchQueue \in SUBSET Nat
  BY OrderingAssumption DEF ContainersOK
<1>2. PICK key \in DOMAIN matchQueue : \A l \in DOMAIN matchQueue : key <= l
  BY <1>1, LeastOf
<1>3. key \in FirstKeys
  BY <1>2 DEF FirstKeys
<1>4. matchQueue[key].list \in Seq(Matches) /\ matchQueue[key].list # <<>>
  BY <1>2 DEF ContainersOK, BucketsIndexed, BucketIndexed, IsBucket
<1>5. matchQueue[key].list[1] \in Range(matchQueue[key].list)
  BY <1>4 DEF Range
<1> QED  BY <1>3, <1>5, FirstBucketIsBest

\* chooseNextMatch leaves the choice when there is nothing to choose from, and
\* chooses one of the best matches otherwise.
LEMMA ChoiceIsBest ==
    ASSUME ContainersOK, ChooseNextMatch
    PROVE  IF allMatches = {} THEN nextMatch' = nextMatch
           ELSE nextMatch' \in {m \in allMatches : \A n \in allMatches : SortKey(m) <= SortKey(n)}
<1>1. ASSUME DOMAIN matchQueue = {} PROVE allMatches = {} /\ FirstKeys = {}
  BY <1>1 DEF ContainersOK, QueueHoldsAllMatches, FirstKeys
<1>2. ASSUME NEW key \in FirstKeys,
             nextMatch' = Head(matchQueue[key].list) \/ nextMatch' \in Range(matchQueue[key].list)
      PROVE  nextMatch' \in Range(matchQueue[key].list)
  <2>1. matchQueue[key].list \in Seq(Matches) /\ matchQueue[key].list # <<>>
    BY DEF FirstKeys, ContainersOK, BucketsIndexed, BucketIndexed, IsBucket
  <2>2. /\ 1 \in DOMAIN matchQueue[key].list
        /\ Head(matchQueue[key].list) = matchQueue[key].list[1]
    BY <2>1
  <2> QED  BY <1>2, <2>2 DEF Range
<1>3. CASE DOMAIN matchQueue = {}
  BY <1>1, <1>3 DEF ChooseNextMatch
<1>4. CASE DOMAIN matchQueue # {}
  <2>1. allMatches # {}
    BY <1>4, FirstBucketExists
  <2>2. PICK key \in FirstKeys : nextMatch' \in Range(matchQueue[key].list)
    BY <1>2, <1>4 DEF ChooseNextMatch
  <2> QED  BY <2>1, <2>2, FirstBucketIsBest
<1> QED  BY <1>3, <1>4

\* Every step keeps the containers in agreement.
LEMMA MatchQueueInvariantStep == MatchQueueInvariant /\ [Next]_vars => MatchQueueInvariant'
<1> SUFFICES ASSUME MatchQueueInvariant, [Next]_vars PROVE MatchQueueInvariant'
  OBVIOUS
<1> DEFINE Rest ==
      /\ newMatches \subseteq Matches /\ pending \subseteq Matches
      /\ nextMatch \in Matches \cup {NoMatch}
      /\ call \in {"none", "add", "flush", "remove"}
      /\ matchStorage \in {"Main", "NewMatches"}
      /\ PendingAreQueued
<1>0. ContainersOK /\ Rest
  BY InvariantParts
<1>d. eventDeduplication' \in Deduplications
  BY InvariantParts DEF Next, vars
<1>1. ASSUME ContainersOK', Rest' PROVE MatchQueueInvariant'
  BY <1>d, <1>1 DEF MatchQueueInvariant, TypeOK, ContainersAgree, ContainersOK
<1>2. ASSUME ChooseNextMatch PROVE nextMatch' \in Matches \cup {NoMatch}
  BY <1>0, <1>2, ChoiceIsBest DEF ContainersOK
<1>3. CASE AddMatchesInvolvingTokens
  BY <1>0, <1>1, <1>3, SameContainers DEF AddMatchesInvolvingTokens, PendingAreQueued
<1>4. ASSUME NEW m \in Matches, StoreMatch(m) PROVE MatchQueueInvariant'
  <2>1. CASE UNCHANGED containers
    BY <1>0, <1>1, <1>4, <2>1, SameContainers DEF StoreMatch, PendingAreQueued
  <2>2. CASE InsertMatch(m)
    BY <1>0, <1>1, <1>4, <2>2, InsertMatchKeepsContainers DEF StoreMatch, PendingAreQueued
  <2> QED  BY <1>4, <2>1, <2>2 DEF StoreMatch
<1>5. CASE AddThrows
  BY <1>0, <1>1, <1>5, SameContainers DEF AddThrows, PendingAreQueued
<1>6. CASE KeepNewMatches
  BY <1>0, <1>1, <1>6, SameContainers DEF KeepNewMatches, PendingAreQueued
<1>7. CASE FlushNewMatches
  BY <1>0, <1>1, <1>7, SameContainers DEF FlushNewMatches, PendingAreQueued, Distinct
<1>8. ASSUME NEW m \in Matches, DeduplicationThrows(m) PROVE MatchQueueInvariant'
  BY <1>0, <1>1, <1>8, SameContainers DEF DeduplicationThrows, PendingAreQueued, Distinct
<1>9. ASSUME NEW m \in Matches, InsertNewMatch(m) PROVE MatchQueueInvariant'
  BY <1>0, <1>1, <1>9, InsertMatchKeepsContainers DEF InsertNewMatch, PendingAreQueued
<1>10. CASE FlushEnds
  BY <1>0, <1>1, <1>2, <1>10, SameContainers DEF FlushEnds, PendingAreQueued
<1>11. ASSUME NEW tokens \in SUBSET Tokens, RemoveMatchesInvolvingTokens(tokens)
       PROVE  MatchQueueInvariant'
  <2>1. pending' = UNION {tokensToMatches[t] : t \in tokens}
    BY <1>11 DEF RemoveMatchesInvolvingTokens
  <2>2. pending' \subseteq allMatches /\ pending' \subseteq Matches
    BY <1>0, <2>1 DEF ContainersOK, TokensLeadToMatches
  <2> QED  BY <1>0, <1>1, <1>11, <2>2, SameContainers
           DEF RemoveMatchesInvolvingTokens, PendingAreQueued, containers
<1>12. ASSUME NEW m \in Matches, RemoveMatch(m) PROVE MatchQueueInvariant'
  BY <1>0, <1>1, <1>12, RemovalKeepsContainers DEF RemoveMatch, PendingAreQueued
<1>13. CASE RemoveEnds
  BY <1>0, <1>1, <1>2, <1>13, SameContainers DEF RemoveEnds, PendingAreQueued
<1>14. ASSUME NEW m \in Matches, DeleteMatch(m) PROVE MatchQueueInvariant'
  BY <1>0, <1>1, <1>14, RemovalKeepsContainers DEF DeleteMatch, PendingAreQueued
<1>15. CASE UNCHANGED vars
  BY <1>0, <1>1, <1>15, SameContainers DEF vars, containers, PendingAreQueued
<1> QED  BY <1>3, <1>4, <1>5, <1>6, <1>7, <1>8, <1>9, <1>10, <1>11, <1>12, <1>13, <1>14,
            <1>15 DEF Next, Step

\* Every variable has its type in every state.
THEOREM QueueTypeCorrect == Spec => []TypeOK
<1>1. MatchQueueInvariant => TypeOK
  BY DEF MatchQueueInvariant
<1> QED  BY <1>1, InitialContainers, MatchQueueInvariantStep, PTL DEF Spec

\* matchQueue_, allMatches_ and tokensToMatches_ agree in every state, and no
\* deletion loop meets a match that is not in the queue.
THEOREM ContainersAlwaysAgree == Spec => []ContainersAgree
<1>1. MatchQueueInvariant => ContainersAgree
  BY DEF MatchQueueInvariant
<1> QED  BY <1>1, InitialContainers, MatchQueueInvariantStep, PTL DEF Spec

-----------------------------------------------------------------------------
(* Refinement.                                                             *)

\* chooseNextMatch at the end of a call is the abstract choice.
LEMMA ChoiceRefines ==
    ASSUME ContainersOK, ChooseNextMatch, AbstractMatches = allMatches,
           AbstractMatches' = allMatches, AbstractCall = "choosing", AbstractCall' = "none"
    PROVE  MatchSet!Next
BY ChoiceIsBest DEF MatchSet!Next, MatchSet!ChooseNext, MatchSet!Best

\* Every step of the containers is a step of the abstract set or changes nothing
\* it shows.
LEMMA StepRefines == MatchQueueInvariant /\ [Next]_vars => [MatchSet!Next]_MatchSet!vars
<1> SUFFICES ASSUME MatchQueueInvariant, [Next]_vars
             PROVE  [MatchSet!Next]_MatchSet!vars
  OBVIOUS
<1>0. ContainersOK /\ PendingAreQueued /\ pending \subseteq Matches /\ newMatches \subseteq Matches
  BY InvariantParts
<1>1. ASSUME UNCHANGED <<AbstractMatches, nextMatch, AbstractCall>>
      PROVE  [MatchSet!Next]_MatchSet!vars
  BY <1>1 DEF MatchSet!vars
<1>2. ASSUME NEW found \in SUBSET Matches, AbstractMatches' = AbstractMatches \cup found,
             UNCHANGED nextMatch, AbstractCall = "adding",
             AbstractCall' \in {"adding", "choosing"}
      PROVE  [MatchSet!Next]_MatchSet!vars
  BY <1>2 DEF MatchSet!Next, MatchSet!AddMatches
<1>s. ASSUME UNCHANGED <<AbstractMatches, nextMatch>>, AbstractCall = "adding",
             AbstractCall' = "none"
      PROVE  [MatchSet!Next]_MatchSet!vars
  BY <1>s DEF MatchSet!Next, MatchSet!StopAdding
<1>3. CASE AddMatchesInvolvingTokens
  <2>1. /\ UNCHANGED <<AbstractMatches, nextMatch>>
        /\ AbstractCall = "none" /\ AbstractCall' = "adding"
    BY <1>3 DEF AddMatchesInvolvingTokens, AbstractMatches, AbstractCall, containers
  <2> QED  BY <2>1 DEF MatchSet!Next, MatchSet!StartAdding
<1>4. ASSUME NEW m \in Matches, StoreMatch(m) PROVE [MatchSet!Next]_MatchSet!vars
  <2>1. CASE UNCHANGED containers
    BY <1>1, <1>4, <2>1 DEF StoreMatch, AbstractMatches, AbstractCall, containers
  <2>2. CASE InsertMatch(m)
    <3>1. allMatches' = allMatches \cup {m}
      BY <1>0, <2>2, InsertMatchKeepsContainers
    <3>2. /\ AbstractMatches' = AbstractMatches \cup {m} /\ UNCHANGED nextMatch
          /\ AbstractCall = "adding" /\ AbstractCall' = "adding"
      BY <1>4, <3>1 DEF StoreMatch, AbstractMatches, AbstractCall
    <3> QED  BY <1>2, <3>2
  <2> QED  BY <1>4, <2>1, <2>2 DEF StoreMatch
<1>5. CASE AddThrows
  BY <1>s, <1>5 DEF AddThrows, AbstractMatches, AbstractCall, containers
<1>6. CASE KeepNewMatches
  <2>1. /\ AbstractMatches' = AbstractMatches \cup {} /\ UNCHANGED nextMatch
        /\ AbstractCall = "adding" /\ AbstractCall' = "choosing"
    BY <1>6 DEF KeepNewMatches, AbstractMatches, AbstractCall, containers
  <2>2. {} \in SUBSET Matches
    OBVIOUS
  <2> QED  BY <1>2, <2>1, <2>2
<1>7. CASE FlushNewMatches
  <2>1. pending' \in SUBSET Matches
    BY <1>0, <1>7 DEF FlushNewMatches, Distinct
  <2>2. /\ AbstractMatches' = AbstractMatches \cup pending' /\ UNCHANGED nextMatch
        /\ AbstractCall = "adding" /\ AbstractCall' = "choosing"
    BY <1>7 DEF FlushNewMatches, AbstractMatches, AbstractCall, containers
  <2> QED  BY <1>2, <2>1, <2>2
<1>8. ASSUME NEW m \in Matches, DeduplicationThrows(m) PROVE [MatchSet!Next]_MatchSet!vars
  BY <1>s, <1>8 DEF DeduplicationThrows, AbstractMatches, AbstractCall, containers
<1>9. ASSUME NEW m \in Matches, InsertNewMatch(m) PROVE [MatchSet!Next]_MatchSet!vars
  <2>1. allMatches' = allMatches \cup {m}
    BY <1>0, <1>9, InsertMatchKeepsContainers DEF InsertNewMatch
  <2> QED  BY <1>1, <1>9, <2>1 DEF InsertNewMatch, AbstractMatches, AbstractCall
<1>10. CASE FlushEnds
  BY <1>0, <1>10, ChoiceRefines DEF FlushEnds, AbstractMatches, AbstractCall, containers
<1>11. ASSUME NEW tokens \in SUBSET Tokens, RemoveMatchesInvolvingTokens(tokens)
       PROVE  [MatchSet!Next]_MatchSet!vars
  <2>1. /\ AbstractMatches = allMatches /\ UNCHANGED nextMatch
        /\ AbstractMatches' = allMatches \ UNION {tokensToMatches[t] : t \in tokens}
        /\ AbstractCall = "none" /\ AbstractCall' = "choosing"
    BY <1>11 DEF RemoveMatchesInvolvingTokens, AbstractMatches, AbstractCall, containers
  <2>2. \A m \in allMatches : m \in UNION {tokensToMatches[t] : t \in tokens}
                                <=> InputTokens(m) \cap tokens # {}
    BY <1>0 DEF ContainersOK, TokensLeadToMatches
  <2>3. AbstractMatches' = {m \in AbstractMatches : InputTokens(m) \cap tokens = {}}
    BY <2>1, <2>2
  <2>4. MatchSet!RemoveMatchesInvolving(tokens) /\ tokens \in SUBSET MatchSet!Tokens
    BY <1>11, <2>1, <2>3 DEF MatchSet!RemoveMatchesInvolving, MatchSet!Tokens, Tokens
  <2> QED  BY <2>4 DEF MatchSet!Next
<1>12. ASSUME NEW m \in Matches, RemoveMatch(m) PROVE [MatchSet!Next]_MatchSet!vars
  <2>1. allMatches' = allMatches \ {m}
    BY <1>0, <1>12, RemovalKeepsContainers DEF RemoveMatch, PendingAreQueued
  <2> QED  BY <1>1, <1>12, <2>1 DEF RemoveMatch, AbstractMatches, AbstractCall
<1>13. CASE RemoveEnds
  BY <1>0, <1>13, ChoiceRefines DEF RemoveEnds, AbstractMatches, AbstractCall, containers
<1>14. ASSUME NEW m \in Matches, DeleteMatch(m) PROVE [MatchSet!Next]_MatchSet!vars
  <2>1. allMatches' = allMatches \ {m}
    BY <1>0, <1>14, RemovalKeepsContainers DEF DeleteMatch
  <2>2. MatchSet!DeleteMatch(m) /\ m \in AbstractMatches
    BY <1>14, <2>1 DEF DeleteMatch, AbstractMatches, AbstractCall, MatchSet!DeleteMatch
  <2> QED  BY <2>2 DEF MatchSet!Next
<1>15. CASE UNCHANGED vars
  BY <1>1, <1>15 DEF vars, AbstractMatches, AbstractCall
<1> QED  BY <1>3, <1>4, <1>5, <1>6, <1>7, <1>8, <1>9, <1>10, <1>11, <1>12, <1>13, <1>14,
            <1>15 DEF Next, Step

\* The containers implement the set of matches the header promises: whatever was
\* added or removed, and however calls failed before, a call that returns without
\* an error leaves one of the best matches as the next.
THEOREM QueueImplementsMatchSet == Spec => ImplementsMatchSet
<1>1. Init => MatchSet!Init
  BY DEF Init, MatchSet!Init, AbstractMatches, AbstractCall
<1> QED  BY <1>1, InitialContainers, MatchQueueInvariantStep, StepRefines, PTL
         DEF Spec, ImplementsMatchSet, MatchSet!Spec

-----------------------------------------------------------------------------
(* Deduplication.                                                          *)

\* A match that is dropped is the same event as one that is kept and before it:
\* the first of the matches it is the same event as is not dropped itself.
LEMMA KeptForTheSameEvent ==
    ASSUME NEW found \in SUBSET Matches, NEW m \in found
    PROVE  \E n \in Distinct(found) :
              n = m \/ (SameEvent(m, n) /\ NewMatchRank(n) < NewMatchRank(m))
<1> DEFINE same == {n \in found : SameEvent(m, n) /\ NewMatchRank(n) < NewMatchRank(m)}
           ranks == {NewMatchRank(n) : n \in same}
<1>1. \A n \in found : NewMatchRank(n) \in Nat
  BY OrderingAssumption
<1>2. CASE same = {}
  <2>1. m \in Distinct(found)
    BY <1>2 DEF Distinct
  <2> QED  BY <2>1
<1>3. CASE same # {}
  <2>1. ranks \in SUBSET Nat /\ ranks # {}
    BY <1>1, <1>3
  <2>2. PICK rank \in ranks : \A other \in ranks : rank <= other
    <3> HIDE DEF ranks
    <3> QED  BY <2>1, LeastOf
  <2>3. PICK n \in same : NewMatchRank(n) = rank
    BY <2>2
  <2>4. ASSUME NEW k \in found, SameEvent(n, k), NewMatchRank(k) < NewMatchRank(n)
        PROVE  FALSE
    <3>1. SameEvent(m, k)
      BY <2>3, <2>4, SameOutcomeAssumption DEF SameEvent
    <3>2. NewMatchRank(k) < NewMatchRank(m)
      BY <1>1, <2>3, <2>4
    <3>3. NewMatchRank(k) \in ranks
      BY <3>1, <3>2
    <3>4. rank <= NewMatchRank(k)
      BY <2>2, <3>3
    <3> QED  BY <1>1, <2>3, <2>4, <3>4
  <2>5. n \in Distinct(found)
    BY <2>3, <2>4 DEF Distinct
  <2> QED  BY <2>3, <2>5
<1> QED  BY <1>2, <1>3

\* No step loses an event that was found.
LEMMA NoStepLosesEvent ==
    ASSUME MatchQueueInvariant, [Next]_vars, NEW m \in Found
    PROVE  \/ IsRepresented(m)'
           \/ call = "remove" /\ m \in pending
           \/ DeleteMatch(m)
<1>0. /\ ContainersOK /\ PendingAreQueued /\ eventDeduplication' = eventDeduplication
      /\ pending \subseteq Matches /\ newMatches \subseteq Matches /\ allMatches \subseteq Matches
  BY InvariantParts DEF Next, vars, ContainersOK
<1>1. ASSUME m \in Found' PROVE IsRepresented(m)'
  BY <1>1 DEF IsRepresented
<1>2. CASE AddMatchesInvolvingTokens
  BY <1>1, <1>2 DEF AddMatchesInvolvingTokens, Found, containers
<1>3. ASSUME NEW n \in Matches, StoreMatch(n) PROVE m \in Found'
  <2>1. CASE UNCHANGED containers
    BY <1>3, <2>1 DEF StoreMatch, Found, containers
  <2>2. CASE InsertMatch(n)
    <3>1. allMatches' = allMatches \cup {n}
      BY <1>0, <2>2, InsertMatchKeepsContainers
    <3> QED  BY <1>3, <3>1 DEF StoreMatch, Found
  <2> QED  BY <1>3, <2>1, <2>2 DEF StoreMatch
<1>4. CASE AddThrows
  BY <1>1, <1>4 DEF AddThrows, Found, containers
<1>5. CASE KeepNewMatches
  BY <1>1, <1>5 DEF KeepNewMatches, Found, containers
<1>6. CASE FlushNewMatches
  <2>1. /\ allMatches' = allMatches /\ call = "add" /\ call' = "flush"
        /\ pending' = IF Deduplicate THEN Distinct(newMatches) ELSE newMatches
        /\ Deduplicate' = Deduplicate
    BY <1>0, <1>6 DEF FlushNewMatches, containers, Deduplicate
  <2>2. m \in allMatches \/ m \in newMatches
    BY <2>1 DEF Found
  <2>3. Found' = allMatches \cup newMatches' \cup pending'
    BY <2>1 DEF Found
  <2>4. CASE m \in newMatches /\ Deduplicate
    <3>1. PICK n \in Distinct(newMatches) : n = m \/ SameEvent(m, n)
      BY <1>0, <2>4, KeptForTheSameEvent
    <3>2. n \in Found' /\ Deduplicate'
      BY <2>1, <2>3, <2>4, <3>1
    <3> QED  BY <3>1, <3>2 DEF IsRepresented, SameEvent
  <2> QED  BY <1>1, <2>1, <2>2, <2>3, <2>4
<1>7. ASSUME NEW k \in Matches, DeduplicationThrows(k) PROVE IsRepresented(m)'
  <2>1. /\ allMatches' = allMatches /\ call = "add" /\ Deduplicate /\ Deduplicate'
        /\ Distinct(newMatches) \subseteq newMatches'
    BY <1>0, <1>7 DEF DeduplicationThrows, containers, Deduplicate
  <2>2. m \in allMatches \/ m \in newMatches
    BY <2>1 DEF Found
  <2>3. allMatches \subseteq Found' /\ Distinct(newMatches) \subseteq Found'
    BY <2>1 DEF Found
  <2>4. CASE m \in newMatches
    <3>1. PICK n \in Distinct(newMatches) : n = m \/ SameEvent(m, n)
      BY <1>0, <2>4, KeptForTheSameEvent
    <3> QED  BY <2>1, <2>3, <3>1 DEF IsRepresented, SameEvent
  <2> QED  BY <1>1, <2>2, <2>3, <2>4
<1>8. ASSUME NEW n \in Matches, InsertNewMatch(n) PROVE m \in Found'
  <2>1. allMatches' = allMatches \cup {n}
    BY <1>0, <1>8, InsertMatchKeepsContainers DEF InsertNewMatch
  <2> QED  BY <1>8, <2>1 DEF InsertNewMatch, Found
<1>9. CASE FlushEnds
  BY <1>1, <1>9 DEF FlushEnds, Found, containers
<1>10. ASSUME NEW tokens \in SUBSET Tokens, RemoveMatchesInvolvingTokens(tokens)
       PROVE  m \in Found'
  BY <1>10 DEF RemoveMatchesInvolvingTokens, Found, containers
<1>11. ASSUME NEW n \in Matches, RemoveMatch(n)
       PROVE  m \in Found' \/ (call = "remove" /\ m \in pending)
  <2>1. allMatches' = allMatches \ {n}
    BY <1>0, <1>11, RemovalKeepsContainers DEF RemoveMatch, PendingAreQueued
  <2> QED  BY <1>11, <2>1 DEF RemoveMatch, Found
<1>12. CASE RemoveEnds
  BY <1>1, <1>12 DEF RemoveEnds, Found, containers
<1>13. ASSUME NEW n \in Matches, DeleteMatch(n) PROVE m \in Found' \/ DeleteMatch(m)
  <2>1. allMatches' = allMatches \ {n}
    BY <1>0, <1>13, RemovalKeepsContainers DEF DeleteMatch
  <2>2. call = "none" /\ newMatches' = newMatches
    BY <1>13 DEF DeleteMatch
  <2>3. m = n \/ m \in Found'
    BY <2>1, <2>2 DEF Found
  <2> QED  BY <1>13, <2>3
<1>14. CASE UNCHANGED vars
  BY <1>1, <1>14 DEF vars, Found
<1> QED  BY <1>1, <1>2, <1>3, <1>4, <1>5, <1>6, <1>7, <1>8, <1>9, <1>10, <1>11, <1>12, <1>13,
            <1>14 DEF Next, Step

\* An event that was found stays possible until its tokens are destroyed or it is
\* deleted, through every abort and every deduplication that an abort cuts short.
THEOREM NoEventIsLost == Spec => NoEventLost
<1>1. MatchQueueInvariant /\ [Next]_vars =>
        [\A m \in Found : \/ IsRepresented(m)'
                          \/ call = "remove" /\ m \in pending
                          \/ DeleteMatch(m)]_vars
  BY NoStepLosesEvent
<1> QED  BY <1>1, InitialContainers, MatchQueueInvariantStep, PTL DEF Spec, NoEventLost

-----------------------------------------------------------------------------
(* The comparator.  Every criterion compares a key of the matches, so that *)
(* what is equal for it has the same key; the first criterion that differs *)
(* decides.                                                                *)

-----------------------------------------------------------------------------
(* Sorting.                                                                *)

SortingOf(S, n) == {tokens \in [1..n -> S] : Increasing(tokens)}

\* A finite set of tokens can be sorted: a smallest set that cannot is not
\* empty, and what is left without its least token can be.
LEMMA SetsCanBeSorted ==
    ASSUME NEW S \in SUBSET Nat, IsFiniteSet(S)
    PROVE  SortingOf(S, Cardinality(S)) # {}
<1> DEFINE Unsortable == {n \in Nat : \E T \in SUBSET Nat :
              IsFiniteSet(T) /\ Cardinality(T) = n /\ SortingOf(T, n) = {}}
<1>1. SUFFICES ASSUME Unsortable # {} PROVE FALSE
  <2>1. Cardinality(S) \in Nat  BY FS_CardinalityType
  <2> QED  BY <2>1
<1>2. PICK n \in Unsortable : \A m \in Unsortable : n <= m
  <2>1. Unsortable \in SUBSET Nat  OBVIOUS
  <2> HIDE DEF Unsortable
  <2> QED  BY <1>1, <2>1, LeastOf
<1>3. PICK T \in SUBSET Nat : IsFiniteSet(T) /\ Cardinality(T) = n /\ SortingOf(T, n) = {}
  OBVIOUS
<1>4. T # {}
  <2>1. SUFFICES ASSUME T = {} PROVE FALSE  OBVIOUS
  <2>2. n = 0  BY <1>3, <2>1, FS_EmptySet
  <2>3. [i \in 1..0 |-> 0] \in SortingOf(T, 0)  BY DEF SortingOf, Increasing
  <2> QED  BY <1>3, <2>2, <2>3
<1>5. PICK least \in T : \A token \in T : least <= token
  BY <1>4, LeastOf
<1> DEFINE Rest == T \ {least}
<1>6. IsFiniteSet(Rest) /\ Cardinality(Rest) = n - 1
  BY <1>3, <1>5, FS_RemoveElement
<1>7. n - 1 \in Nat
  BY <1>6, FS_CardinalityType
<1>8. n - 1 \notin Unsortable
  <2>1. n \in Nat  OBVIOUS
  <2> HIDE DEF Unsortable
  <2> QED  BY <1>2, <1>7, <2>1
<1>9. PICK tokens \in SortingOf(Rest, n - 1) : TRUE
  BY <1>6, <1>7, <1>8
<1> DEFINE sorted == [i \in 1..n |-> IF i = 1 THEN least ELSE tokens[i - 1]]
<1>10. sorted \in [1..n -> T]
  BY <1>5, <1>7, <1>9 DEF SortingOf
<1>11. \A i \in 1..(n - 1) : tokens[i] \in T /\ least < tokens[i] /\ tokens[i] \in Nat
  <2>1. n \in Nat /\ tokens \in [1..(n - 1) -> Rest]  BY <1>9 DEF SortingOf
  <2>2. \A token \in Rest : token \in Nat /\ least \in Nat /\ least < token  BY <1>5
  <2> HIDE DEF Unsortable, Rest, sorted
  <2>3. ASSUME NEW i \in 1..(n - 1) PROVE tokens[i] \in Rest  BY <2>1
  <2> QED  BY <2>2, <2>3 DEF Rest
<1>12. ASSUME NEW i \in 1..n, NEW j \in 1..n, i < j
       PROVE  sorted[i] < sorted[j]
  <2>1. j - 1 \in 1..(n - 1)  BY <1>7, <1>12
  <2>2. CASE i = 1  BY <1>11, <2>1, <2>2, <1>12
  <2>3. CASE i # 1
    <3>1. i - 1 \in 1..(n - 1) /\ i - 1 < j - 1  BY <1>7, <1>12, <2>3
    <3>2. DOMAIN tokens = 1..(n - 1)  BY <1>9 DEF SortingOf
    <3>3. tokens[i - 1] < tokens[j - 1]  BY <1>9, <2>1, <3>1, <3>2 DEF SortingOf, Increasing
    <3> QED  BY <2>3, <3>3, <1>12
  <2> QED  BY <2>2, <2>3
<1>13. sorted \in SortingOf(T, n)
  BY <1>10, <1>12 DEF SortingOf, Increasing
<1> QED  BY <1>3, <1>13

\* The sorted tokens of a match are a sequence of tokens.
LEMMA SortedIDsType ==
    ASSUME NEW m \in Match
    PROVE  SortedIDs(m) \in Seq(Nat) /\ ReverseSortedIDs(m) \in Seq(Nat)
<1> DEFINE n == Len(m.inputTokens)
<1>1. n \in Nat /\ m.inputTokens \in [1..n -> Nat] /\ HasDistinctTokens(m)
  BY DEF Match
<1>2. TokensOf(m) \in SUBSET Nat
  BY <1>1 DEF TokensOf
<1>3. IsFiniteSet(TokensOf(m)) /\ Cardinality(TokensOf(m)) = n
  <2>1. m.inputTokens \in Bijection(1..n, TokensOf(m))
    BY <1>1 DEF Bijection, Injection, Surjection, IsInjective, TokensOf, HasDistinctTokens
  <2>2. IsFiniteSet(1..n) /\ Cardinality(1..n) = IF 1 > n THEN 0 ELSE n - 1 + 1
    <3> HIDE DEF n
    <3> QED  BY <1>1, FS_Interval
  <2>3. ExistsBijection(1..n, TokensOf(m))  BY <2>1 DEF ExistsBijection
  <2>4. IsFiniteSet(TokensOf(m)) /\ Cardinality(TokensOf(m)) = Cardinality(1..n)
    <3> HIDE DEF n
    <3> QED  BY <2>2, <2>3, FS_Bijection
  <2> QED  BY <1>1, <2>2, <2>4
<1>4. SortedIDs(m) \in [1..n -> TokensOf(m)]
  <2>1. SortingOf(TokensOf(m), n) # {}  BY <1>2, <1>3, SetsCanBeSorted
  <2> QED  BY <2>1 DEF SortingOf, SortedIDs
<1>5. SortedIDs(m) \in Seq(Nat)
  BY <1>1, <1>2, <1>4
<1>6. ReverseSortedIDs(m) \in [1..n -> Nat]
  BY <1>1, <1>2, <1>4 DEF ReverseSortedIDs
<1> QED  BY <1>1, <1>5, <1>6

-----------------------------------------------------------------------------
(* Comparison of vectors.                                                  *)

\* a comes before b because of what is at position i.
LessAt(a, b, i) ==
    /\ i \in 1..Len(b)
    /\ \A j \in 1..(i - 1) : j <= Len(a) /\ a[j] = b[j]
    /\ i = Len(a) + 1 \/ (i <= Len(a) /\ a[i] < b[i])

\* Where two vectors differ one of them comes before the other; the least such
\* position is what CompareVectors looks at.
LEMMA VectorsCompared ==
    ASSUME NEW a \in Seq(Nat), NEW b \in Seq(Nat)
    PROVE  \/ CompareVectors(a, b) = -1 /\ \E i \in Nat : LessAt(a, b, i)
           \/ CompareVectors(a, b) = 1 /\ \E i \in Nat : LessAt(b, a, i)
           \/ CompareVectors(a, b) = 0 /\ a = b
<1> DEFINE mismatches == {i \in DOMAIN a \cap DOMAIN b : a[i] # b[i]}
<1>1. /\ Len(a) \in Nat /\ DOMAIN a = 1..Len(a) /\ a \in [1..Len(a) -> Nat]
      /\ Len(b) \in Nat /\ DOMAIN b = 1..Len(b) /\ b \in [1..Len(b) -> Nat]
  OBVIOUS
<1>2. CASE mismatches = {}
  <2>1. CompareVectors(a, b) = Compare(Len(a), Len(b))  BY <1>2 DEF CompareVectors
  <2>2. \A i \in 1..Len(a) : i <= Len(b) => a[i] = b[i]
    <3> SUFFICES ASSUME NEW i \in 1..Len(a), i <= Len(b) PROVE a[i] = b[i]  OBVIOUS
    <3>1. i \in DOMAIN a \cap DOMAIN b  BY <1>1
    <3> QED  BY <1>2, <3>1
  <2>3. CASE Len(a) < Len(b)
    <3>1. LessAt(a, b, Len(a) + 1)  BY <1>1, <2>2, <2>3 DEF LessAt
    <3> QED  BY <1>1, <2>1, <2>3, <3>1 DEF Compare
  <2>4. CASE Len(b) < Len(a)
    <3>1. LessAt(b, a, Len(b) + 1)  BY <1>1, <2>2, <2>4 DEF LessAt
    <3> QED  BY <1>1, <2>1, <2>4, <3>1 DEF Compare
  <2>5. CASE Len(a) = Len(b)
    <3>1. a = b  BY <1>1, <2>2, <2>5
    <3> QED  BY <1>1, <2>1, <2>5, <3>1 DEF Compare
  <2>6. Len(a) \in Nat /\ Len(b) \in Nat  OBVIOUS
  <2>7. Len(a) < Len(b) \/ Len(b) < Len(a) \/ Len(a) = Len(b)  BY <2>6
  <2> QED  BY <2>3, <2>4, <2>5, <2>7
<1>3. CASE mismatches # {}
  <2> DEFINE i == CHOOSE k \in mismatches : \A j \in mismatches : k <= j
  <2>1. mismatches \in SUBSET Nat  BY <1>1
  <2>2. i \in mismatches /\ \A j \in mismatches : i <= j
    <3>1. \E k \in mismatches : \A j \in mismatches : k <= j
      <4> HIDE DEF mismatches
      <4> QED  BY <1>3, <2>1, LeastOf
    <3> HIDE DEF mismatches
    <3> QED  BY <3>1
  <2>3. CompareVectors(a, b) = Compare(a[i], b[i])  BY <1>3 DEF CompareVectors
  <2> HIDE DEF i
  <2>4. i \in 1..Len(a) /\ i \in 1..Len(b) /\ a[i] # b[i] /\ a[i] \in Nat /\ b[i] \in Nat
    BY <1>1, <2>2
  <2>5. \A j \in 1..(i - 1) : a[j] = b[j]
    <3> SUFFICES ASSUME NEW j \in 1..(i - 1), a[j] # b[j] PROVE FALSE  OBVIOUS
    <3>1. j \in mismatches  BY <1>1, <2>4
    <3> QED  BY <2>2, <2>4, <3>1
  <2>6. \A j \in 1..(i - 1) : j <= Len(a) /\ j <= Len(b)  BY <1>1, <2>4
  <2> HIDE DEF mismatches
  <2>7. CASE a[i] < b[i]
    <3>1. LessAt(a, b, i)  BY <1>1, <2>4, <2>5, <2>6, <2>7 DEF LessAt
    <3>2. CompareVectors(a, b) = -1  BY <2>3, <2>4, <2>7 DEF Compare
    <3> QED  BY <2>4, <3>1, <3>2
  <2>8. CASE b[i] < a[i]
    <3>1. LessAt(b, a, i)  BY <1>1, <2>4, <2>5, <2>6, <2>8 DEF LessAt
    <3>2. CompareVectors(a, b) = 1  BY <2>3, <2>4, <2>8 DEF Compare
    <3> QED  BY <2>4, <3>1, <3>2
  <2> QED  BY <2>4, <2>7, <2>8
<1> QED  BY <1>2, <1>3

LEMMA LessAtAsymmetric ==
    ASSUME NEW a \in Seq(Nat), NEW b \in Seq(Nat), NEW i \in Nat, NEW k \in Nat,
           LessAt(a, b, i), LessAt(b, a, k)
    PROVE  FALSE
<1>1. /\ Len(a) \in Nat /\ \A j \in 1..Len(a) : a[j] \in Nat
      /\ Len(b) \in Nat /\ \A j \in 1..Len(b) : b[j] \in Nat
  OBVIOUS
<1>2. /\ i \in 1..Len(b) /\ k \in 1..Len(a)
      /\ i = Len(a) + 1 \/ (i <= Len(a) /\ a[i] < b[i])
      /\ k = Len(b) + 1 \/ (k <= Len(b) /\ b[k] < a[k])
  BY DEF LessAt
<1>3. \A j \in 1..(i - 1) : j <= Len(a) /\ a[j] = b[j]  BY DEF LessAt
<1>4. \A j \in 1..(k - 1) : j <= Len(b) /\ b[j] = a[j]  BY DEF LessAt
<1>5. CASE i < k
  <2>1. i \in 1..(k - 1)  BY <1>2, <1>5
  <2>2. i <= Len(b) /\ b[i] = a[i]  BY <1>4, <2>1
  <2>3. i \in 1..Len(a) /\ k <= Len(a)  BY <1>1, <1>2, <1>5
  <2>4. a[i] < b[i]  BY <1>1, <1>2, <1>5, <2>3
  <2>5. a[i] \in Nat  BY <1>1, <2>3
  <2> QED  BY <2>2, <2>4, <2>5
<1>6. CASE k < i
  <2>1. k \in 1..(i - 1)  BY <1>2, <1>6
  <2>2. k <= Len(a) /\ a[k] = b[k]  BY <1>3, <2>1
  <2>3. k \in 1..Len(b) /\ i <= Len(b)  BY <1>1, <1>2, <1>6
  <2>4. b[k] < a[k]  BY <1>1, <1>2, <1>6, <2>3
  <2>5. b[k] \in Nat  BY <1>1, <2>3
  <2> QED  BY <2>2, <2>4, <2>5
<1>7. CASE i = k
  <2>1. i \in 1..Len(a) /\ i \in 1..Len(b) /\ a[i] < b[i] /\ b[i] < a[i]  BY <1>1, <1>2, <1>7
  <2>2. a[i] \in Nat /\ b[i] \in Nat  BY <1>1, <2>1
  <2> QED  BY <2>1, <2>2
<1> QED  BY <1>5, <1>6, <1>7

LEMMA LessAtTransitive ==
    ASSUME NEW a \in Seq(Nat), NEW b \in Seq(Nat), NEW c \in Seq(Nat),
           NEW i \in Nat, NEW k \in Nat, LessAt(a, b, i), LessAt(b, c, k)
    PROVE  \E l \in Nat : LessAt(a, c, l)
<1>1. /\ Len(a) \in Nat /\ \A j \in 1..Len(a) : a[j] \in Nat
      /\ Len(b) \in Nat /\ \A j \in 1..Len(b) : b[j] \in Nat
      /\ Len(c) \in Nat /\ \A j \in 1..Len(c) : c[j] \in Nat
  OBVIOUS
<1>2. /\ i \in 1..Len(b) /\ k \in 1..Len(c)
      /\ \A j \in 1..(i - 1) : j <= Len(a) /\ a[j] = b[j]
      /\ \A j \in 1..(k - 1) : j <= Len(b) /\ b[j] = c[j]
      /\ i = Len(a) + 1 \/ (i <= Len(a) /\ a[i] < b[i])
      /\ k = Len(b) + 1 \/ (k <= Len(b) /\ b[k] < c[k])
  BY DEF LessAt
<1>3. CASE i < k
  <2>1. i \in 1..Len(c) /\ b[i] = c[i]  BY <1>1, <1>2, <1>3
  <2>2. \A j \in 1..(i - 1) : j <= Len(a) /\ a[j] = c[j]
    <3> TAKE j \in 1..(i - 1)
    <3>1. j \in 1..(k - 1)  BY <1>3
    <3> QED  BY <1>2, <3>1
  <2>3. i = Len(a) + 1 \/ (i <= Len(a) /\ a[i] < c[i])  BY <1>2, <2>1
  <2>4. LessAt(a, c, i)  BY <2>1, <2>2, <2>3 DEF LessAt
  <2> QED  BY <2>4
<1>4. CASE k < i
  <2>1. k \in 1..(i - 1)  BY <1>2, <1>4
  <2>2. k <= Len(a) /\ a[k] = b[k]  BY <1>2, <2>1
  <2>3. \A j \in 1..(k - 1) : j <= Len(a) /\ a[j] = c[j]
    <3> TAKE j \in 1..(k - 1)
    <3>1. j \in 1..(i - 1)  BY <1>4
    <3> QED  BY <1>2, <3>1
  <2>4. b[k] < c[k]  BY <1>1, <1>2, <1>4
  <2>5. a[k] < c[k]  BY <2>2, <2>4
  <2>6. LessAt(a, c, k)  BY <1>2, <2>2, <2>3, <2>5 DEF LessAt
  <2> QED  BY <2>6
<1>5. CASE i = k
  <2>1. \A j \in 1..(i - 1) : j <= Len(a) /\ a[j] = c[j]  BY <1>2, <1>5
  <2>2. b[i] < c[i]  BY <1>1, <1>2, <1>5
  <2>3. i = Len(a) + 1 \/ (i <= Len(a) /\ a[i] < c[i])
    <3>1. i \in 1..Len(b) /\ i \in 1..Len(c) /\ b[i] \in Nat /\ c[i] \in Nat  BY <1>1, <1>2, <1>5
    <3>2. CASE i <= Len(a) /\ a[i] < b[i]
      <4>1. a[i] \in Nat  BY <1>1, <3>1, <3>2
      <4>2. a[i] < b[i] /\ b[i] < c[i]  BY <2>2, <3>2
      <4>3. \A x, y, z \in Nat : x < y /\ y < z => x < z  OBVIOUS
      <4>4. a[i] < c[i]  BY <3>1, <4>1, <4>2, <4>3
      <4> QED  BY <3>2, <4>4
    <3> QED  BY <1>2, <3>2
  <2>4. LessAt(a, c, i)  BY <1>2, <1>5, <2>1, <2>3 DEF LessAt
  <2> QED  BY <2>4
<1> QED  BY <1>3, <1>4, <1>5

\* CompareVectors is a total order of vectors.
LEMMA VectorOrder ==
    ASSUME NEW a \in Seq(Nat), NEW b \in Seq(Nat), NEW c \in Seq(Nat)
    PROVE  /\ CompareVectors(a, b) \in {-1, 0, 1}
           /\ CompareVectors(b, a) = -CompareVectors(a, b)
           /\ CompareVectors(a, b) = 0 => a = b
           /\ CompareVectors(a, b) = -1 /\ CompareVectors(b, c) = -1 => CompareVectors(a, c) = -1
<1>1. ASSUME NEW x \in Seq(Nat), NEW y \in Seq(Nat)
      PROVE  /\ CompareVectors(x, y) \in {-1, 0, 1}
             /\ CompareVectors(x, y) = -1 <=> \E i \in Nat : LessAt(x, y, i)
             /\ CompareVectors(x, y) = 1 <=> \E i \in Nat : LessAt(y, x, i)
             /\ CompareVectors(x, y) = 0 => x = y
  <2>1. ~((\E i \in Nat : LessAt(x, y, i)) /\ (\E i \in Nat : LessAt(y, x, i)))
    BY LessAtAsymmetric
  <2>2. x = y => ~\E i \in Nat : LessAt(x, y, i)
    BY LessAtAsymmetric
  <2> QED  BY <2>1, <2>2, VectorsCompared
<1>2. CompareVectors(b, a) = -CompareVectors(a, b)
  <2> DEFINE ab == CompareVectors(a, b)
             ba == CompareVectors(b, a)
  <2>1. \/ ab = -1 /\ ba = 1
        \/ ab = 1 /\ ba = -1
        \/ ab = 0 /\ ba = 0
    <3>1. ab = 0 => ba = 0  BY <1>1
    <3> QED  BY <1>1, <3>1
  <2> HIDE DEF ab, ba
  <2>2. ba = -ab  BY <2>1
  <2> QED  BY <2>2 DEF ab, ba
<1>3. CompareVectors(a, b) = -1 /\ CompareVectors(b, c) = -1 => CompareVectors(a, c) = -1
  <2>1. (\E i \in Nat : LessAt(a, b, i)) /\ (\E i \in Nat : LessAt(b, c, i))
          => \E i \in Nat : LessAt(a, c, i)
    BY LessAtTransitive
  <2> QED  BY <1>1, <2>1
<1> QED  BY <1>1, <1>2, <1>3

-----------------------------------------------------------------------------
(* Criteria.                                                               *)

Criterion == [function : OrderingFunctions, direction : OrderingDirections]

LEMMA SpecType ==
    ASSUME NEW spec \in OrderingSpec
    PROVE  /\ DOMAIN spec = 1..Len(spec) /\ Len(spec) \in Nat
           /\ \A i \in DOMAIN spec : spec[i] \in Criterion
<1>1. spec \in Seq(Criterion)  BY DEF OrderingSpec, Criterion
<1> QED  BY <1>1

\* What a comparison of matches by one criterion does: it has a sign, is transitive,
\* and matches that are equal for it are so in every other comparison.
LEMMA CriterionOrder ==
    ASSUME NEW a \in Match, NEW b \in Match, NEW c \in Match, NEW f \in OrderingFunctions
    PROVE  /\ CompareBy(a, b, f) \in {-1, 0, 1}
           /\ CompareBy(b, a, f) = -CompareBy(a, b, f)
           /\ CompareBy(a, b, f) = 0 => CompareBy(a, c, f) = CompareBy(b, c, f)
           /\ CompareBy(a, b, f) = -1 /\ CompareBy(b, c, f) = -1 => CompareBy(a, c, f) = -1
<1>1. ASSUME NEW m \in Match
      PROVE  m.inputTokens \in Seq(Nat) /\ m.rule \in Nat
  BY DEF Match
<1>2. CASE f = "sortedExpressionIDs"
  <2>1. \A x, y \in Match : CompareBy(x, y, f) = CompareVectors(SortedIDs(x), SortedIDs(y))
    BY <1>2 DEF CompareBy
  <2> QED  BY <2>1, SortedIDsType, VectorOrder
<1>3. CASE f = "reverseSortedExpressionIDs"
  <2>1. \A x, y \in Match :
          CompareBy(x, y, f) = CompareVectors(ReverseSortedIDs(x), ReverseSortedIDs(y))
    BY <1>3 DEF CompareBy
  <2> QED  BY <2>1, SortedIDsType, VectorOrder
<1>4. CASE f = "expressionIDs"
  <2>1. \A x, y \in Match : CompareBy(x, y, f) = CompareVectors(x.inputTokens, y.inputTokens)
    BY <1>4 DEF CompareBy
  <2> QED  BY <1>1, <2>1, VectorOrder
<1>5. CASE f = "ruleIndex"
  <2>1. \A x, y \in Match : CompareBy(x, y, f) = Compare(x.rule, y.rule)
    BY <1>5 DEF CompareBy
  <2> QED  BY <1>1, <2>1 DEF Compare
<1>6. CASE f = "any"
  <2>1. \A x, y \in Match : CompareBy(x, y, f) = 0  BY <1>6 DEF CompareBy
  <2> QED  BY <2>1
<1> QED  BY <1>2, <1>3, <1>4, <1>5, <1>6 DEF OrderingFunctions

\* The same in either direction.
LEMMA DirectedOrder ==
    ASSUME NEW a \in Match, NEW b \in Match, NEW c \in Match, NEW o \in Criterion
    PROVE  /\ Directed(a, b, o) \in {-1, 0, 1}
           /\ Directed(b, a, o) = -Directed(a, b, o)
           /\ Directed(a, b, o) = 0 => Directed(a, c, o) = Directed(b, c, o)
           /\ Directed(a, b, o) < 0 /\ Directed(b, c, o) < 0 => Directed(a, c, o) < 0
<1> DEFINE f == o.function
<1>1. f \in OrderingFunctions  BY DEF Criterion
<1> HIDE DEF f
<1>2. /\ \A x, y \in Match : CompareBy(x, y, f) \in {-1, 0, 1}
                          /\ CompareBy(y, x, f) = -CompareBy(x, y, f)
      /\ CompareBy(a, b, f) = 0 => CompareBy(a, c, f) = CompareBy(b, c, f)
      /\ CompareBy(a, b, f) = -1 /\ CompareBy(b, c, f) = -1 => CompareBy(a, c, f) = -1
      /\ CompareBy(c, b, f) = -1 /\ CompareBy(b, a, f) = -1 => CompareBy(c, a, f) = -1
  BY <1>1, CriterionOrder
<1>3. CASE o.direction = "backward"
  <2>1. \A x, y \in Match : Directed(x, y, o) = -CompareBy(x, y, f)  BY <1>3 DEF Directed, f
  <2> QED  BY <1>2, <2>1
<1>4. CASE o.direction # "backward"
  <2>1. \A x, y \in Match : Directed(x, y, o) = CompareBy(x, y, f)  BY <1>4 DEF Directed, f
  <2> QED  BY <1>2, <2>1
<1> QED  BY <1>3, <1>4

-----------------------------------------------------------------------------
(* Specifications.                                                         *)

Equivalent(spec, a, b) == ~Before(spec, a, b) /\ ~Before(spec, b, a)

\* Matches are equivalent when no criterion tells them apart: otherwise the first
\* one that does puts one of them before the other.
LEMMA EquivalentMeansEqual ==
    ASSUME NEW spec \in OrderingSpec, NEW a \in Match, NEW b \in Match
    PROVE  Equivalent(spec, a, b) <=> \A i \in DOMAIN spec : Directed(a, b, spec[i]) = 0
<1> DEFINE telling == {i \in DOMAIN spec : Directed(a, b, spec[i]) # 0}
<1>1. /\ DOMAIN spec = 1..Len(spec) /\ Len(spec) \in Nat
      /\ \A i \in DOMAIN spec : spec[i] \in Criterion
  BY SpecType
<1>2. \A i \in DOMAIN spec : /\ Directed(a, b, spec[i]) \in {-1, 0, 1}
                            /\ Directed(b, a, spec[i]) = -Directed(a, b, spec[i])
  BY <1>1, DirectedOrder
<1>3. ASSUME telling = {} PROVE Equivalent(spec, a, b)
  <2>1. \A i \in DOMAIN spec : Directed(a, b, spec[i]) = 0 /\ Directed(b, a, spec[i]) = 0
    BY <1>2, <1>3
  <2> QED  BY <2>1 DEF Equivalent, Before
<1>4. ASSUME telling # {} PROVE ~Equivalent(spec, a, b)
  <2>1. PICK i \in telling : \A j \in telling : i <= j
    <3>1. telling \in SUBSET Nat  BY <1>1
    <3> HIDE DEF telling
    <3> QED  BY <1>4, <3>1, LeastOf
  <2>2. \A j \in 1..(i - 1) : Directed(a, b, spec[j]) = 0 /\ Directed(b, a, spec[j]) = 0
    <3> TAKE j \in 1..(i - 1)
    <3>1. j \in DOMAIN spec /\ ~(i <= j)  BY <1>1
    <3>2. j \notin telling  BY <2>1, <3>1
    <3> QED  BY <1>2, <3>1, <3>2
  <2>3. Directed(a, b, spec[i]) < 0 \/ Directed(b, a, spec[i]) < 0  BY <1>2
  <2> QED  BY <2>2, <2>3 DEF Equivalent, Before
<1> QED  BY <1>3, <1>4

\* MatchComparator is a strict weak order, as std::map and std::set require: it puts
\* no match before itself, is transitive, and equivalence is transitive.
THEOREM ComparatorIsStrictWeakOrder ==
    ASSUME NEW spec \in OrderingSpec, NEW a \in Match, NEW b \in Match, NEW c \in Match
    PROVE  /\ ~Before(spec, a, a)
           /\ Before(spec, a, b) /\ Before(spec, b, c) => Before(spec, a, c)
           /\ Equivalent(spec, a, b) /\ Equivalent(spec, b, c) => Equivalent(spec, a, c)
<1>1. /\ DOMAIN spec = 1..Len(spec) /\ Len(spec) \in Nat
      /\ \A i \in DOMAIN spec : spec[i] \in Criterion
  BY SpecType
<1>2. \A i \in DOMAIN spec :
        /\ Directed(a, a, spec[i]) \in {-1, 0, 1} /\ Directed(a, a, spec[i]) = -Directed(a, a, spec[i])
        /\ Directed(a, b, spec[i]) \in {-1, 0, 1} /\ Directed(b, a, spec[i]) = -Directed(a, b, spec[i])
        /\ Directed(b, c, spec[i]) \in {-1, 0, 1} /\ Directed(c, b, spec[i]) = -Directed(b, c, spec[i])
        /\ Directed(a, c, spec[i]) \in {-1, 0, 1} /\ Directed(c, a, spec[i]) = -Directed(a, c, spec[i])
        /\ Directed(a, b, spec[i]) = 0 => Directed(a, c, spec[i]) = Directed(b, c, spec[i])
        /\ Directed(c, b, spec[i]) = 0 => Directed(c, a, spec[i]) = Directed(b, a, spec[i])
        /\ Directed(a, b, spec[i]) < 0 /\ Directed(b, c, spec[i]) < 0 => Directed(a, c, spec[i]) < 0
  BY <1>1, DirectedOrder
<1>3. ~Before(spec, a, a)
  BY <1>2 DEF Before
<1>4. ASSUME Before(spec, a, b), Before(spec, b, c) PROVE Before(spec, a, c)
  <2>1. PICK i \in DOMAIN spec : /\ Directed(a, b, spec[i]) < 0
                                /\ \A j \in 1..(i - 1) : Directed(a, b, spec[j]) = 0
    BY <1>4 DEF Before
  <2>2. PICK k \in DOMAIN spec : /\ Directed(b, c, spec[k]) < 0
                                /\ \A j \in 1..(k - 1) : Directed(b, c, spec[j]) = 0
    BY <1>4 DEF Before
  <2>3. ASSUME NEW l \in DOMAIN spec, l <= i, l <= k, l = i \/ l = k
        PROVE  Directed(a, c, spec[l]) < 0 /\ \A j \in 1..(l - 1) : Directed(a, c, spec[j]) = 0
    <3>1. Directed(a, c, spec[l]) < 0
      <4>1. CASE l = i /\ l = k  BY <1>2, <2>1, <2>2, <4>1
      <4>2. CASE l < i
        <5>1. l \in 1..(i - 1)  BY <1>1, <4>2
        <5> QED  BY <1>2, <2>1, <2>2, <2>3, <4>2, <5>1
      <4>3. CASE l < k
        <5>1. l \in 1..(k - 1) /\ l = i  BY <1>1, <2>3, <4>3
        <5>2. Directed(b, c, spec[l]) = 0 /\ Directed(a, b, spec[l]) < 0  BY <2>1, <2>2, <5>1
        <5> QED  BY <1>2, <5>2
      <4> QED  BY <1>1, <2>3, <4>1, <4>2, <4>3
    <3>2. ASSUME NEW j \in 1..(l - 1) PROVE Directed(a, c, spec[j]) = 0
      <4>1. j \in DOMAIN spec /\ j \in 1..(i - 1) /\ j \in 1..(k - 1)  BY <1>1, <2>3
      <4> QED  BY <1>2, <2>1, <2>2, <4>1
    <3> QED  BY <3>1, <3>2
  <2>4. CASE i <= k  BY <1>1, <2>3, <2>4 DEF Before
  <2>5. CASE k <= i  BY <1>1, <2>3, <2>5 DEF Before
  <2> QED  BY <1>1, <2>4, <2>5
<1>5. ASSUME Equivalent(spec, a, b), Equivalent(spec, b, c) PROVE Equivalent(spec, a, c)
  <2>1. \A i \in DOMAIN spec : Directed(a, b, spec[i]) = 0 /\ Directed(b, c, spec[i]) = 0
    BY <1>5, EquivalentMeansEqual
  <2>2. \A i \in DOMAIN spec : Directed(a, c, spec[i]) = 0  BY <1>2, <2>1
  <2> QED  BY <2>2, EquivalentMeansEqual
<1> QED  BY <1>3, <1>4, <1>5

\* Matches of the same tokens in the same order and of the same rule are the same.
LEMMA SameTokensAndRule ==
    ASSUME NEW a \in Match, NEW b \in Match, CompareBy(a, b, "expressionIDs") = 0,
           CompareBy(a, b, "ruleIndex") = 0
    PROVE  a = b
<1>1. /\ a.inputTokens \in Seq(Nat) /\ a.rule \in Nat
      /\ b.inputTokens \in Seq(Nat) /\ b.rule \in Nat
      /\ a = [rule |-> a.rule, inputTokens |-> a.inputTokens]
      /\ b = [rule |-> b.rule, inputTokens |-> b.inputTokens]
  BY DEF Match
<1>2. CompareVectors(a.inputTokens, b.inputTokens) = 0  BY DEF CompareBy
<1>3. a.inputTokens = b.inputTokens  BY <1>1, <1>2, VectorOrder
<1>4. Compare(a.rule, b.rule) = 0  BY DEF CompareBy
<1>5. a.rule = b.rule  BY <1>1, <1>4 DEF Compare
<1> QED  BY <1>1, <1>3, <1>5

\* The set newMatches_ keeps every match: its order puts one of two different
\* matches before the other, whatever order the user asks for.
THEOREM NewMatchesAreTotallyOrdered ==
    ASSUME NEW spec \in OrderingSpec, NEW a \in Match, NEW b \in Match, a # b
    PROVE  \/ Before(NewMatchesOrderingSpec(spec), a, b)
           \/ Before(NewMatchesOrderingSpec(spec), b, a)
<1> DEFINE byInputs == [function |-> "sortedExpressionIDs", direction |-> "forward"]
           byIDs == [function |-> "expressionIDs", direction |-> "forward"]
           byRule == [function |-> "ruleIndex", direction |-> "forward"]
           whole == <<byInputs>> \o spec \o <<byIDs, byRule>>
<1>1. whole = NewMatchesOrderingSpec(spec)
  BY DEF NewMatchesOrderingSpec
<1>2. byInputs \in Criterion /\ byIDs \in Criterion /\ byRule \in Criterion
  BY DEF Criterion, OrderingFunctions, OrderingDirections
<1>3. /\ whole \in OrderingSpec
      /\ \E i, j \in DOMAIN whole : whole[i] = byIDs /\ whole[j] = byRule
  <2> HIDE DEF byInputs, byIDs, byRule
  <2>1. spec \in Seq(Criterion)  BY DEF OrderingSpec, Criterion
  <2>2. <<byInputs>> \o spec \in Seq(Criterion) /\ <<byIDs, byRule>> \in Seq(Criterion)
    BY <1>2, <2>1
  <2> DEFINE front == <<byInputs>> \o spec
             back == <<byIDs, byRule>>
  <2>3. Len(back) = 2 /\ back[1] = byIDs /\ back[2] = byRule  OBVIOUS
  <2> HIDE DEF front, back
  <2>4. front \in Seq(Criterion) /\ back \in Seq(Criterion)  BY <2>2 DEF front, back
  <2> DEFINE n == Len(front)
  <2>5. n \in Nat  BY <2>4
  <2>6. whole = front \o back  BY DEF front, back
  <2> HIDE DEF whole
  <2>7. whole \in Seq(Criterion) /\ Len(whole) = n + 2
    <3>1. front \o back \in Seq(Criterion) /\ Len(front \o back) = Len(front) + Len(back)
      BY <2>4
    <3> QED  BY <2>3, <2>6, <3>1
  <2>8. whole[n + 1] = byIDs /\ whole[n + 2] = byRule
    <3>1. \A i \in 1..(n + Len(back)) : (front \o back)[i] = IF i <= n THEN front[i] ELSE back[i - n]
      BY <2>4
    <3> HIDE DEF n
    <3>2. n + 1 \in 1..(n + Len(back)) /\ n + 2 \in 1..(n + Len(back))  BY <2>3, <2>5
    <3>3. (n + 1) - n = 1 /\ (n + 2) - n = 2 /\ ~(n + 1 <= n) /\ ~(n + 2 <= n)  BY <2>5
    <3> QED  BY <2>3, <2>6, <3>1, <3>2, <3>3
  <2> HIDE DEF n
  <2>9. DOMAIN whole = 1..(n + 2)  BY <2>7
  <2>10. n + 1 \in DOMAIN whole /\ n + 2 \in DOMAIN whole  BY <2>5, <2>9
  <2> QED  BY <2>7, <2>8, <2>10 DEF OrderingSpec, Criterion
<1>4. SUFFICES ASSUME Equivalent(whole, a, b) PROVE FALSE
  BY <1>1 DEF Equivalent
<1>5. \A i \in DOMAIN whole : Directed(a, b, whole[i]) = 0
  <2> HIDE DEF whole
  <2> QED  BY <1>3, <1>4, EquivalentMeansEqual
<1>6. Directed(a, b, byIDs) = 0 /\ Directed(a, b, byRule) = 0
  <2> HIDE DEF whole, byIDs, byRule
  <2> QED  BY <1>3, <1>5
<1>7. CompareBy(a, b, "expressionIDs") = 0 /\ CompareBy(a, b, "ruleIndex") = 0
  BY <1>6 DEF Directed
<1> QED  BY <1>7, SameTokensAndRule
=============================================================================
