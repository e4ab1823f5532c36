---------------------------- MODULE MatchQueue ----------------------------
(***************************************************************************)
(* The containers of HypergraphMatcher::Implementation and the public      *)
(* calls that change them.                                                 *)
(*                                                                         *)
(* matchQueue_ maps a sort key to a bucket of equally good matches.  A     *)
(* bucket keeps its matches in a vector, to draw a random one, and in an   *)
(* index from match to vector position, to delete one in O(1) by swapping  *)
(* it with the last.  allMatches_ and tokensToMatches_ hold the same       *)
(* matches again for other lookups, and newMatches_ those that are found   *)
(* but not yet in the queue.                                               *)
(*                                                                         *)
(* A public call takes several steps, one per match it stores or deletes:  *)
(* `call' says which call is running and `pending' what its loop has left. *)
(* What a match is, and which the scan finds, is the environment's; an     *)
(* ordering specification is the rank SortKey it gives to each match.      *)
(***************************************************************************)
EXTENDS Integers, Sequences, FiniteSets, Functions

CONSTANTS
    Matches,            \* all matches there can be
    InputTokens(_),     \* the set of tokens a match has as inputs
    SortKey(_),         \* rank of a match under the user's ordering spec
    NewMatchRank(_),    \* its rank under newMatchesOrderingSpec, a total order
    RuleOf(_),          \* index of the rule a match is for
    SameOutcome(_, _),  \* isomorphic: outputs of a match, of one before it
    MatchAny,           \* ordering spec ends with OrderingFunction::Any
    Deduplications,     \* the eventDeduplication_ a matcher may be created with
    NoMatch             \* a null MatchPtr

ASSUME OrderingAssumption ==
    /\ \A m \in Matches : SortKey(m) \in Nat /\ NewMatchRank(m) \in Nat /\ RuleOf(m) \in Nat
    /\ \A m, n \in Matches : NewMatchRank(m) = NewMatchRank(n) => m = n

\* Patterns map to patterns or atoms, and such maps compose (OutcomeIsomorphism).
ASSUME SameOutcomeAssumption ==
    \A m, n, k \in Matches :
        SameOutcome(m, n) /\ SameOutcome(n, k) => SameOutcome(m, k)

ASSUME NoMatchAssumption == NoMatch \notin Matches

ASSUME DeduplicationAssumption ==
    Deduplications \subseteq {"None", "SameInputSetIsomorphicOutputs"}

VARIABLES
    eventDeduplication,  \* eventDeduplication_, set by the constructor
    matchQueue,       \* matchQueue_, a function on the keys that have a bucket
    tokensToMatches,  \* tokensToMatches_, {} for a token without an entry
    allMatches,       \* allMatches_
    nextMatch,        \* nextMatch_
    newMatches,       \* newMatches_
    call,             \* the public call that is running
    matchStorage,     \* MatchStorage of the running addMatchesInvolvingTokens
    pending           \* matches its loop still has to insert or delete

containers == <<matchQueue, tokensToMatches, allMatches>>
vars == <<eventDeduplication, matchQueue, tokensToMatches, allMatches, nextMatch, newMatches,
          call, matchStorage, pending>>

Deduplicate == eventDeduplication = "SameInputSetIsomorphicOutputs"

Tokens == UNION {InputTokens(m) : m \in Matches}

EmptyBucket == [index |-> [m \in {} |-> 0], list |-> <<>>]
BucketAt(key) == IF key \in DOMAIN matchQueue THEN matchQueue[key] ELSE EmptyBucket

QueueWith(key, bucket) ==
    [k \in DOMAIN matchQueue \cup {key} |-> IF k = key THEN bucket ELSE matchQueue[k]]
QueueWithout(key) == Restrict(matchQueue, DOMAIN matchQueue \ {key})

-----------------------------------------------------------------------------
(* Parts of the calls.                                                     *)

\* Mutation: the position is taken before the match is pushed.
GrownBucketEarly(bucket, m) ==
    [index |-> [x \in DOMAIN bucket.index \cup {m} |->
                  IF x = m THEN Len(bucket.list) ELSE bucket.index[x]],
     list |-> Append(bucket.list, m)]

\* The bucket with m pushed to the end of its vector.
GrownBucket(bucket, m) ==
    [index |-> [x \in DOMAIN bucket.index \cup {m} |->
                  IF x = m THEN Len(bucket.list) + 1 ELSE bucket.index[x]],
     list |-> Append(bucket.list, m)]

\* insertMatch
InsertMatch(m) ==
    \/ m \in allMatches /\ UNCHANGED containers
    \/ /\ m \notin allMatches
       /\ allMatches' = allMatches \cup {m}
       /\ matchQueue' = QueueWith(SortKey(m), GrownBucket(BucketAt(SortKey(m)), m))
       /\ tokensToMatches' =
            [t \in DOMAIN tokensToMatches |->
                IF t \in InputTokens(m) THEN tokensToMatches[t] \cup {m}
                ELSE tokensToMatches[t]]

\* Mutation: the index entry of the match that moves is not corrected.
ShrunkWithoutReindex(bucket, m) ==
    LET size == Len(bucket.list)
        swapped == [bucket.list EXCEPT ![bucket.index[m]] = bucket.list[size]]
    IN  [index |-> Restrict(bucket.index, DOMAIN bucket.index \ {m}),
         list |-> SubSeq(swapped, 1, size - 1)]

\* The bucket without m: m trades places with the last match of the vector,
\* whose index entry is corrected before the entry of m is erased.
ShrunkBucket(bucket, m) ==
    LET size == Len(bucket.list)
        position == bucket.index[m]
        moved == bucket.list[size]
        swapped == [bucket.list EXCEPT ![position] = moved, ![size] = m]
        reindexed == [bucket.index EXCEPT ![moved] = position]
    IN  [index |-> Restrict(reindexed, DOMAIN reindexed \ {m}),
         list |-> SubSeq(swapped, 1, size - 1)]

\* deleteMatch
RemoveFromContainers(m) ==
    LET bucket == ShrunkBucket(matchQueue[SortKey(m)], m)
    IN  /\ allMatches' = allMatches \ {m}
        /\ tokensToMatches' =
             [t \in DOMAIN tokensToMatches |->
                 IF t \in InputTokens(m) THEN tokensToMatches[t] \ {m}
                 ELSE tokensToMatches[t]]
        /\ matchQueue' = IF DOMAIN bucket.index = {} THEN QueueWithout(SortKey(m))
                         ELSE QueueWith(SortKey(m), bucket)

FirstKeys == {k \in DOMAIN matchQueue : \A l \in DOMAIN matchQueue : k <= l}

\* chooseNextMatch: the front of the first bucket or a random member of it; an
\* empty queue leaves the earlier choice.
ChooseNextMatch ==
    \/ DOMAIN matchQueue = {} /\ UNCHANGED nextMatch
    \/ \E key \in FirstKeys :
         \/ MatchAny /\ nextMatch' = Head(matchQueue[key].list)
         \/ ~MatchAny /\ nextMatch' \in Range(matchQueue[key].list)

SameEvent(m, n) == InputTokens(m) = InputTokens(n) /\ SameOutcome(m, n)

\* Mutation: matches of the same event drop each other.
DistinctFromOthers(found) ==
    {m \in found : ~\E n \in found : SameEvent(m, n) /\ n # m}

\* removeIdenticalMatches drops a new match when a kept one before it has the
\* same input set and the test finds their outputs isomorphic.  The test is
\* transitive, so that any match before it may be compared.
Distinct(found) ==
    {m \in found : ~\E n \in found : SameEvent(m, n) /\ NewMatchRank(n) < NewMatchRank(m)}

-----------------------------------------------------------------------------
(* The public calls.                                                       *)

Init ==
    /\ eventDeduplication \in Deduplications
    /\ matchQueue = [k \in {} |-> EmptyBucket]
    /\ tokensToMatches = [t \in Tokens |-> {}]
    /\ allMatches = {}
    /\ nextMatch = NoMatch
    /\ newMatches = {}
    /\ call = "none"
    /\ matchStorage = "Main"
    /\ pending = {}

\* addMatchesInvolvingTokens starts; how many threads it gets decides where it
\* stores matches.
AddMatchesInvolvingTokens ==
    /\ call = "none"
    /\ call' = "add"
    /\ matchStorage' \in IF Deduplicate THEN {"NewMatches"} ELSE {"Main", "NewMatches"}
    /\ UNCHANGED <<containers, nextMatch, newMatches, pending>>

\* attemptMatchTokenToInput completes a match, under matchMutex.
StoreMatch(m) ==
    /\ call = "add"
    /\ \/ /\ matchStorage = "NewMatches"
          /\ newMatches' = newMatches \cup {m}
          /\ UNCHANGED containers
       \/ /\ matchStorage = "Main"
          /\ InsertMatch(m)
          /\ UNCHANGED newMatches
    /\ UNCHANGED <<nextMatch, call, matchStorage, pending>>

\* The scan ended with an error, which is reset and thrown to the caller.
AddThrows ==
    /\ call = "add"
    /\ call' = "none"
    /\ UNCHANGED <<containers, nextMatch, newMatches, matchStorage, pending>>

\* The scan succeeded, and what newMatches_ has is left there.
KeepNewMatches ==
    /\ call = "add" /\ matchStorage = "Main"
    /\ pending' = {}
    /\ call' = "flush"
    /\ UNCHANGED <<containers, nextMatch, newMatches, matchStorage>>

\* The scan succeeded; newMatches_ is deduplicated and moved out of the set.
FlushNewMatches ==
    /\ call = "add" /\ matchStorage = "NewMatches"
    /\ pending' = IF Deduplicate THEN Distinct(newMatches) ELSE newMatches
    /\ newMatches' = {}
    /\ call' = "flush"
    /\ UNCHANGED <<containers, nextMatch, matchStorage>>

\* An isomorphism test inside removeIdenticalMatches is aborted and throws: the
\* new matches before some m are deduplicated, the others are as they were.
DeduplicationThrows(m) ==
    /\ call = "add" /\ matchStorage = "NewMatches" /\ Deduplicate
    /\ m \in newMatches
    /\ newMatches' = Distinct(newMatches)
                       \cup {n \in newMatches : NewMatchRank(n) >= NewMatchRank(m)}
    /\ call' = "none"
    /\ UNCHANGED <<containers, nextMatch, matchStorage, pending>>

\* One iteration of insertNewMatches, which goes through the rules in order and
\* has the matches of a rule in the order an unstable sort leaves.
InsertNewMatch(m) ==
    /\ call = "flush"
    /\ m \in pending /\ \A n \in pending : RuleOf(m) <= RuleOf(n)
    /\ pending' = pending \ {m}
    /\ InsertMatch(m)
    /\ UNCHANGED <<nextMatch, newMatches, call, matchStorage>>

\* Mutation: the choice is only made anew for a queue that had been empty.
FlushEndsWithFirstChoice ==
    /\ call = "flush" /\ pending = {}
    /\ IF nextMatch = NoMatch THEN ChooseNextMatch ELSE UNCHANGED nextMatch
    /\ call' = "none"
    /\ UNCHANGED <<containers, newMatches, matchStorage, pending>>

FlushEnds ==
    /\ call = "flush" /\ pending = {}
    /\ ChooseNextMatch
    /\ call' = "none"
    /\ UNCHANGED <<containers, newMatches, matchStorage, pending>>

\* Mutation: only matches all of whose inputs were destroyed are collected.
RemoveMatchesInsideTokens(tokens) ==
    /\ call = "none"
    /\ pending' = {m \in allMatches : InputTokens(m) \subseteq tokens}
    /\ call' = "remove"
    /\ UNCHANGED <<containers, nextMatch, newMatches, matchStorage>>

\* removeMatchesInvolvingTokens collects the matches to delete.
RemoveMatchesInvolvingTokens(tokens) ==
    /\ call = "none"
    /\ pending' = UNION {tokensToMatches[t] : t \in tokens}
    /\ call' = "remove"
    /\ UNCHANGED <<containers, nextMatch, newMatches, matchStorage>>

\* One iteration of its deletion loop.
RemoveMatch(m) ==
    /\ call = "remove" /\ m \in pending
    /\ RemoveFromContainers(m)
    /\ pending' = pending \ {m}
    /\ UNCHANGED <<nextMatch, newMatches, call, matchStorage>>

RemoveEnds ==
    /\ call = "remove" /\ pending = {}
    /\ ChooseNextMatch
    /\ call' = "none"
    /\ UNCHANGED <<containers, newMatches, matchStorage, pending>>

\* deleteMatch, as called with a match of the queue.
DeleteMatch(m) ==
    /\ call = "none" /\ m \in allMatches
    /\ RemoveFromContainers(m)
    /\ UNCHANGED <<nextMatch, newMatches, call, matchStorage, pending>>

Step ==
    \/ AddMatchesInvolvingTokens
    \/ \E m \in Matches : StoreMatch(m)
    \/ AddThrows
    \/ KeepNewMatches
    \/ FlushNewMatches
    \/ \E m \in Matches : DeduplicationThrows(m)
    \/ \E m \in Matches : InsertNewMatch(m)
    \/ FlushEnds
    \/ \E tokens \in SUBSET Tokens : RemoveMatchesInvolvingTokens(tokens)
    \/ \E m \in Matches : RemoveMatch(m)
    \/ RemoveEnds
    \/ \E m \in Matches : DeleteMatch(m)

Next == Step /\ UNCHANGED eventDeduplication

Spec == Init /\ [][Next]_vars

-----------------------------------------------------------------------------
(* Properties.                                                             *)

IsBucket(bucket) ==
    /\ bucket.list \in Seq(Matches)
    /\ DOMAIN bucket.index \subseteq Matches
    /\ \A m \in DOMAIN bucket.index : bucket.index[m] \in Nat \ {0}

\* Every variable has its type.
TypeOK ==
    /\ eventDeduplication \in Deduplications
    /\ DOMAIN matchQueue \subseteq {SortKey(m) : m \in Matches}
    /\ \A key \in DOMAIN matchQueue : IsBucket(matchQueue[key])
    /\ tokensToMatches \in [Tokens -> SUBSET Matches]
    /\ allMatches \subseteq Matches /\ newMatches \subseteq Matches /\ pending \subseteq Matches
    /\ nextMatch \in Matches \cup {NoMatch}
    /\ call \in {"none", "add", "flush", "remove"}
    /\ matchStorage \in {"Main", "NewMatches"}

\* The index of a bucket and its vector are inverse to each other, and an
\* emptied bucket is gone: otherwise the swap of the next deletion moves the
\* wrong match, or the first bucket has nothing to choose from.
BucketIndexed(bucket) ==
    /\ bucket.list # <<>>
    /\ \A position \in DOMAIN bucket.list :
         /\ bucket.list[position] \in DOMAIN bucket.index
         /\ bucket.index[bucket.list[position]] = position
    /\ \A m \in DOMAIN bucket.index :
         /\ bucket.index[m] \in DOMAIN bucket.list
         /\ bucket.list[bucket.index[m]] = m

BucketsIndexed == \A key \in DOMAIN matchQueue : BucketIndexed(matchQueue[key])

\* The queue holds exactly allMatches_, each in the bucket of its sort key.
QueueHoldsAllMatches ==
    /\ \A key \in DOMAIN matchQueue : \A m \in DOMAIN matchQueue[key].index :
         SortKey(m) = key /\ m \in allMatches
    /\ \A m \in allMatches :
         /\ SortKey(m) \in DOMAIN matchQueue
         /\ m \in DOMAIN matchQueue[SortKey(m)].index

\* A token leads to exactly the queued matches that have it as an input, so that
\* removing a destroyed token's matches misses none.
TokensLeadToMatches ==
    \A t \in Tokens : tokensToMatches[t] = {m \in allMatches : t \in InputTokens(m)}

\* The matches still to be deleted are in the queue.
PendingAreQueued == call = "remove" => pending \subseteq allMatches

\* The copies of the set of matches agree with each other after every step,
\* including those inside a deletion loop.
ContainersAgree ==
    BucketsIndexed /\ QueueHoldsAllMatches /\ TokensLeadToMatches /\ PendingAreQueued

\* Matches that were found and are in the queue or on their way to it.
Found == allMatches \cup newMatches \cup IF call = "flush" THEN pending ELSE {}

\* m, or a match for the same event if such are only kept once.
IsRepresented(m) == \E n \in Found : n = m \/ (Deduplicate /\ SameEvent(m, n))

\* Once a match was found its event stays possible until the match is removed with
\* its tokens or deleted: neither an abort nor a deduplication that an abort cuts
\* short loses an event, although matches drop each other in chains.
NoEventLost ==
    [][\A m \in Found :
         \/ IsRepresented(m)'
         \/ call = "remove" /\ m \in pending
         \/ DeleteMatch(m)]_vars

\* The containers implement a set of matches with a chosen best one: a flush or
\* a removal counts as done when its loop starts, and has to choose.
AbstractMatches ==
    CASE call = "flush" -> allMatches \cup pending
      [] call = "remove" -> allMatches \ pending
      [] OTHER -> allMatches

AbstractCall ==
    CASE call = "add" -> "adding"
      [] call \in {"flush", "remove"} -> "choosing"
      [] OTHER -> "none"

MatchSet ==
    INSTANCE MatchSet WITH matches <- AbstractMatches, next <- nextMatch, call <- AbstractCall

ImplementsMatchSet == MatchSet!Spec
=============================================================================
