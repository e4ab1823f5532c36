---------------------------- MODULE Parallelism ----------------------------
(***************************************************************************)
(* The reservations of CPU threads: libSetReplace/Parallelism.  There is   *)
(* one counter for the whole process, guarded by reservationMutex_; a      *)
(* ThreadAcquisitionToken holds a reservation from its construction to its *)
(* destruction.  A reservation of a single thread would gain nothing and   *)
(* is made one of none.                                                    *)
(***************************************************************************)
EXTENDS Integers, FiniteSetsExt

CONSTANTS
    Owners,             \* who may hold a ThreadAcquisitionToken
    NumHardwareThreads  \* numHardwareThreads_

ASSUME HardwareAssumption == NumHardwareThreads \in Nat

VARIABLES
    threadsInUse,  \* threadsInUse_
    held           \* threads_ of the token each owner has, 0 if it has none

poolVars == <<threadsInUse, held>>

IsAvailable == NumHardwareThreads >= 2
NumThreadsAvailable == IF IsAvailable THEN NumHardwareThreads - threadsInUse ELSE 0

Smaller(m, n) == IF m <= n THEN m ELSE n

\* Mutation: a single thread is reserved too.
ReservedWithSingles(requested) ==
    IF requested <= 1 THEN 0 ELSE Smaller(requested, NumThreadsAvailable)

\* The threads a request is granted.
Reserved(requested) ==
    IF requested <= 1 \/ Smaller(requested, NumThreadsAvailable) <= 1 THEN 0
    ELSE Smaller(requested, NumThreadsAvailable)

PoolInit == threadsInUse = 0 /\ held = [o \in Owners |-> 0]

\* The token is constructed.
Acquire(o, requested) ==
    /\ held' = [held EXCEPT ![o] = Reserved(requested)]
    /\ threadsInUse' = threadsInUse + Reserved(requested)

\* The token is destroyed.
Release(o) ==
    /\ held' = [held EXCEPT ![o] = 0]
    /\ threadsInUse' = threadsInUse - held[o]

HeldThreads ==
    {thread \in Owners \X (1..NumHardwareThreads) : thread[2] <= held[thread[1]]}

\* The process never runs more worker threads than there is hardware for, no
\* scan pays for a lone extra thread, and what is reserved is what tokens hold.
PoolConserved ==
    /\ threadsInUse = Cardinality(HeldThreads)
    /\ threadsInUse \in 0..NumHardwareThreads
    /\ \A o \in Owners : held[o] \in {0} \cup 2..NumHardwareThreads
=============================================================================
