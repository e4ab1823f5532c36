------------------------- MODULE ParallelScanProofs -------------------------
(***************************************************************************)
(* The threads of a scan, for any number of systems, rules, tokens and     *)
(* threads: errors and termination reasons are right, and a scan that      *)
(* succeeds has tried everything once.                                     *)
(*                                                                         *)
(* Rules are shared rightly because worker i only ever has rules congruent *)
(* to i modulo the number of workers, and passes over none of these that   *)
(* has tokens.                                                             *)
(***************************************************************************)
EXTENDS ParallelScan, ArithmeticLemmas, FiniteSetTheorems, TLAPS

\* Worker i of a scan has had its turn with attempt n for rule r.
Passed(worker, r, n) == r < worker.rule \/ (r = worker.rule /\ n < worker.attempt)

\* Of k workers, worker i is the one to scan rule r.
Assigned(i, r, k) == (r - i) % k = 0

\* Where worker i of k workers of a system can be.
Position(s, i, k) ==
    {worker \in [rule : 1..(RuleCount(s) + 1), attempt : Nat \ {0}, at : {"poll", "fail", "try"}] :
        /\ worker.rule <= RuleCount(s) =>
             worker.attempt <= Attempts[s][worker.rule] /\ Assigned(i, worker.rule, k)
        /\ worker.rule > RuleCount(s) => worker.at = "poll"}

LEMMA AttemptsType ==
    ASSUME NEW s \in Systems
    PROVE  /\ RuleCount(s) \in Nat /\ DOMAIN Attempts[s] = 1..RuleCount(s)
           /\ \A r \in 1..RuleCount(s) : Attempts[s][r] \in Nat
<1>1. Attempts[s] \in Seq(Nat)  BY ScanAssumption
<1> QED  BY <1>1 DEF RuleCount

\* The next rule is assigned to the same worker, and no rule of its that is
\* passed over has tokens.
LEMMA NextRuleRight ==
    ASSUME NEW s \in Systems, NEW rule \in Nat, NEW k \in Nat, k > 0
    PROVE  LET next == NextRule(s, rule, k)
           IN  /\ next \in 1..(RuleCount(s) + 1)
               /\ next <= RuleCount(s) => next > rule /\ (next - rule) % k = 0 /\ Attempts[s][next] > 0
               /\ \A r \in 1..RuleCount(s) :
                    rule < r /\ r < next /\ (r - rule) % k = 0 => Attempts[s][r] = 0
<1> DEFINE rules == {r \in DOMAIN Attempts[s] :
                        r > rule /\ (r - rule) % k = 0 /\ Attempts[s][r] > 0}
           S == {RuleCount(s) + 1} \cup rules
           next == CHOOSE x \in S : \A y \in S : x <= y
<1>1. S \in SUBSET Nat /\ S # {}  BY AttemptsType
<1>2. \E x \in S : \A y \in S : x <= y
  <2> HIDE DEF S
  <2> QED  BY <1>1, LeastOf
<1>3. next \in S /\ \A y \in S : next <= y
  <2> HIDE DEF S
  <2> QED  BY <1>2
<1>4. NextRule(s, rule, k) = next  BY DEF NextRule, Min
<1> HIDE DEF next
<1>5. next \in 1..(RuleCount(s) + 1)  BY <1>3, AttemptsType
<1>6. next <= RuleCount(s) => next \in rules  BY <1>3, AttemptsType
<1>7. ASSUME NEW r \in 1..RuleCount(s), rule < r, r < next, (r - rule) % k = 0
      PROVE  Attempts[s][r] = 0
  <2>1. r \notin rules  BY <1>3, <1>5, <1>7, AttemptsType
  <2> QED  BY <1>7, <2>1, AttemptsType
<1> QED  BY <1>4, <1>5, <1>6, <1>7

\* A worker that has made some attempts for a rule goes on with the next one of
\* its own, and all that it passes over without trying has no tokens.
LEMMA WorkerAtRight ==
    ASSUME NEW s \in Systems, NEW k \in Nat, k > 0, NEW i \in 1..k,
           NEW rule \in Nat, rule > 0, Assigned(i, rule, k),
           NEW attempts \in Nat, rule <= RuleCount(s) => attempts <= Attempts[s][rule]
    PROVE  /\ WorkerAt(s, rule, attempts, k) \in Position(s, i, k)
           /\ WorkerAt(s, rule, attempts, k).at = "poll"
           /\ \A r \in 1..RuleCount(s) : \A n \in 1..Attempts[s][r] :
                Assigned(i, r, k) =>
                    (Passed(WorkerAt(s, rule, attempts, k), r, n) <=>
                        r < rule \/ (r = rule /\ n <= attempts))
<1> DEFINE worker == WorkerAt(s, rule, attempts, k)
           next == NextRule(s, rule, k)
<1>1. CASE rule <= RuleCount(s) /\ attempts < Attempts[s][rule]
  <2>1. worker = [rule |-> rule, attempt |-> attempts + 1, at |-> "poll"]
    BY <1>1 DEF WorkerAt
  <2>2. worker \in Position(s, i, k)  BY <1>1, <2>1, AttemptsType DEF Position
  <2>3. ASSUME NEW r \in 1..RuleCount(s), NEW n \in 1..Attempts[s][r]
        PROVE  Passed(worker, r, n) <=> r < rule \/ (r = rule /\ n <= attempts)
    BY <2>1, AttemptsType DEF Passed
  <2> QED  BY <2>1, <2>2, <2>3
<1>2. CASE ~(rule <= RuleCount(s) /\ attempts < Attempts[s][rule])
  <2>1. worker = [rule |-> next, attempt |-> 1, at |-> "poll"]
    BY <1>2 DEF WorkerAt
  <2>2. /\ next \in 1..(RuleCount(s) + 1)
        /\ next <= RuleCount(s) => next > rule /\ (next - rule) % k = 0 /\ Attempts[s][next] > 0
        /\ \A r \in 1..RuleCount(s) :
             rule < r /\ r < next /\ (r - rule) % k = 0 => Attempts[s][r] = 0
    BY NextRuleRight
  <2> HIDE DEF next
  <2>3. next <= RuleCount(s) => Assigned(i, next, k)
    <3>1. next \in Int /\ rule \in Int /\ i \in Int  BY <2>2, AttemptsType
    <3> QED  BY <2>2, <3>1, CongruenceTransitive DEF Assigned
  <2>4. worker \in Position(s, i, k)  BY <2>1, <2>2, <2>3, AttemptsType DEF Position
  <2>5. ASSUME NEW r \in 1..RuleCount(s), NEW n \in 1..Attempts[s][r], Assigned(i, r, k)
        PROVE  Passed(worker, r, n) <=> r < rule \/ (r = rule /\ n <= attempts)
    <3>1. Passed(worker, r, n) <=> r < next  BY <2>1, <2>2, AttemptsType DEF Passed
    <3>2. CASE r > rule
      <4>1. (r - rule) % k = 0
        <5>1. r \in Int /\ rule \in Int /\ i \in Int  BY AttemptsType
        <5> QED  BY <2>5, <5>1, CongruentToSame DEF Assigned
      <4>2. ~(r < next)  BY <2>2, <3>2, <4>1, AttemptsType
      <4> QED  BY <3>1, <3>2, <4>2, AttemptsType
    <3>3. CASE r <= rule
      <4>1. r < next  BY <2>2, <3>3, AttemptsType
      <4>2. r = rule => n <= attempts  BY <1>2, <2>5, AttemptsType
      <4> QED  BY <3>1, <3>3, <4>1, <4>2, AttemptsType
    <3> QED  BY <3>2, <3>3, AttemptsType
  <2> QED  BY <2>1, <2>4, <2>5
<1> QED  BY <1>1, <1>2

\* At the start of a scan nothing a worker has passed has tokens.
LEMMA WorkerStarts ==
    ASSUME NEW s \in Systems, NEW k \in Nat, k > 0, NEW i \in 1..k
    PROVE  /\ WorkerAt(s, i, 0, k) \in Position(s, i, k)
           /\ WorkerAt(s, i, 0, k).at = "poll"
           /\ \A r \in 1..RuleCount(s) : \A n \in 1..Attempts[s][r] :
                Assigned(i, r, k) => ~Passed(WorkerAt(s, i, 0, k), r, n)
<1>1. Assigned(i, i, k)
  <2>1. i - i = k * 0  OBVIOUS
  <2> QED  BY <2>1, MultipleMod DEF Assigned
<1>2. i <= RuleCount(s) => 0 <= Attempts[s][i]  BY AttemptsType
<1>3. ASSUME NEW r \in 1..RuleCount(s), NEW n \in 1..Attempts[s][r], Assigned(i, r, k)
      PROVE  ~(r < i \/ (r = i /\ n <= 0))
  <2>1. SUFFICES ASSUME r < i PROVE FALSE  BY AttemptsType
  <2>2. r \in 1..k  BY <2>1, AttemptsType
  <2>3. r = i  BY <1>3, <2>2, CongruentInRange DEF Assigned
  <2> QED  BY <2>1, <2>3
<1>4. /\ WorkerAt(s, i, 0, k) \in Position(s, i, k)
      /\ WorkerAt(s, i, 0, k).at = "poll"
      /\ \A r \in 1..RuleCount(s) : \A n \in 1..Attempts[s][r] :
           Assigned(i, r, k) =>
               (Passed(WorkerAt(s, i, 0, k), r, n) <=> r < i \/ (r = i /\ n <= 0))
  <2>1. i \in Nat /\ i > 0 /\ 0 \in Nat  OBVIOUS
  <2> QED  BY <1>1, <1>2, <2>1, WorkerAtRight
<1> QED  BY <1>3, <1>4

-----------------------------------------------------------------------------
(* The invariant.                                                          *)

AnyWorker == [rule : Nat, attempt : Nat, at : {"poll", "fail", "try"}]

\* The types, as far as the steps need them.
ScanTyped ==
    /\ threadsInUse \in Int /\ held \in [Systems -> Nat]
    /\ phase \in [Systems -> {"idle", "scan", "joined"}]
    /\ workers \in [Systems -> Seq(AnyWorker)]
    /\ currentError \in [Systems -> Errors]
    /\ terminationReason \in [Systems -> {"NotTerminated", "Aborted", "TimeConstrained"}]
    /\ abortRequested \in [Systems -> BOOLEAN] /\ timedOut \in [Systems -> BOOLEAN]
    /\ tried \in [Systems -> Seq(Seq(Nat))]
    /\ outcome \in [Systems -> Errors \cup {"Found"}]
    /\ scans \in [Systems -> Nat]

Workers(s) == Len(workers[s])

\* Workers are at positions of theirs, and have nothing left once they are joined.
WorkersPlaced(s) ==
    /\ Len(tried[s]) = RuleCount(s)
    /\ \A r \in 1..RuleCount(s) : Len(tried[s][r]) = Attempts[s][r]
    /\ \A i \in 1..Workers(s) : workers[s][i] \in Position(s, i, Workers(s))
    /\ phase[s] # "scan" => \A i \in 1..Workers(s) : workers[s][i].rule > RuleCount(s)
    /\ phase[s] # "idle" => Workers(s) > 0 /\ outcome[s] = "None"
    /\ phase[s] = "idle" => currentError[s] = "None"

\* As long as no worker has failed, what was passed was tried once, and nothing else.
TriedOnce(s) ==
    /\ phase[s] # "idle" /\ currentError[s] = "None" =>
         \A i \in 1..Workers(s) : \A r \in 1..RuleCount(s) : \A n \in 1..Attempts[s][r] :
            Assigned(i, r, Workers(s)) =>
                tried[s][r][n] = IF Passed(workers[s][i], r, n) THEN 1 ELSE 0
    /\ outcome[s] = "Found" =>
         \A r \in 1..RuleCount(s) : \A n \in 1..Attempts[s][r] : tried[s][r][n] = 1

ReasonHolds(s) ==
    \/ terminationReason[s] = "Aborted" /\ abortRequested[s]
    \/ terminationReason[s] = "TimeConstrained" /\ timedOut[s]
IsFailing(s) == \E i \in 1..Workers(s) : workers[s][i].at = "fail"

\* A reason is written by a worker that fails next.
ReasonsRight(s) ==
    /\ phase[s] # "idle" =>
         /\ currentError[s] = "Aborted" \/ IsFailing(s) => ReasonHolds(s)
         /\ terminationReason[s] # "NotTerminated" => currentError[s] # "None" \/ IsFailing(s)
    /\ outcome[s] = "Found" => terminationReason[s] = "NotTerminated"
    /\ outcome[s] = "Aborted" => ReasonHolds(s)

ScanGood(s) == WorkersPlaced(s) /\ TriedOnce(s) /\ ReasonsRight(s)
ScanInvariant == ScanTyped /\ \A s \in Systems : ScanGood(s)

\* The steps of one system are of no concern to another.
SystemUnchanged(s) ==
    /\ phase'[s] = phase[s] /\ workers'[s] = workers[s] /\ tried'[s] = tried[s]
    /\ currentError'[s] = currentError[s] /\ terminationReason'[s] = terminationReason[s]
    /\ abortRequested'[s] = abortRequested[s] /\ timedOut'[s] = timedOut[s]
    /\ outcome'[s] = outcome[s]

LEMMA OthersStayGood ==
    ASSUME NEW s \in Systems, ScanGood(s), SystemUnchanged(s)
    PROVE  ScanGood(s)'
BY DEF ScanGood, SystemUnchanged, WorkersPlaced, TriedOnce, ReasonsRight, ReasonHolds, IsFailing, Workers

LEMMA ScanInit == Init => ScanInvariant
<1> SUFFICES ASSUME Init PROVE ScanInvariant  OBVIOUS
<1>1. \A s \in Systems : workers[s] = <<>> /\ tried[s] = NoneTried(s)
  <2>1. [i \in {} |-> 0] = <<>>  OBVIOUS
  <2> QED  BY <2>1 DEF Init
<1>2. \A s \in Systems : NoneTried(s) \in Seq(Seq(Nat))
  BY AttemptsType DEF NoneTried
<1>3. ScanTyped
  <2>1. workers = [s \in Systems |-> <<>>]  BY <1>1 DEF Init
  <2> QED  BY <1>2, <2>1 DEF Init, PoolInit, ScanTyped, Errors, Systems
<1>4. ASSUME NEW s \in Systems PROVE ScanGood(s)
  <2>1. Len(NoneTried(s)) = RuleCount(s) /\ \A r \in 1..RuleCount(s) : Len(NoneTried(s)[r]) = Attempts[s][r]
    BY AttemptsType DEF NoneTried
  <2>2. Len(workers[s]) = 0  BY <1>1
  <2> QED  BY <1>1, <2>1, <2>2 DEF Init, ScanGood, WorkersPlaced, TriedOnce, ReasonsRight, ReasonHolds, IsFailing, Workers
<1> QED  BY <1>3, <1>4 DEF ScanInvariant

-----------------------------------------------------------------------------
(* The steps.                                                              *)

LEMMA WorkerIDsAndStride ==
    ASSUME ScanTyped, NEW s \in Systems
    PROVE  /\ Workers(s) \in Nat /\ WorkerIDs(s) = 1..Workers(s)
           /\ Stride(s) = Workers(s)
           /\ \A i \in 1..Workers(s) : workers[s][i] \in AnyWorker
<1>1. workers[s] \in Seq(AnyWorker)  BY DEF ScanTyped
<1>2. Workers(s) \in Nat /\ WorkerIDs(s) = 1..Workers(s)
      /\ \A i \in 1..Workers(s) : workers[s][i] \in AnyWorker
  BY <1>1 DEF Workers, WorkerIDs
<1>3. Cardinality(1..Workers(s)) = Workers(s)
  <2>1. Cardinality(1..Workers(s)) = IF 1 > Workers(s) THEN 0 ELSE Workers(s) - 1 + 1
    BY <1>2, FS_Interval
  <2> QED  BY <1>2, <2>1
<1> QED  BY <1>2, <1>3 DEF Stride

\* What is left of the others when one worker moves.
LEMMA WorkerMoves ==
    ASSUME ScanTyped, NEW s \in Systems, NEW i \in 1..Workers(s), NEW worker \in AnyWorker,
           workers' = [workers EXCEPT ![s][i] = worker]
    PROVE  /\ workers' \in [Systems -> Seq(AnyWorker)]
           /\ Len(workers'[s]) = Len(workers[s])
           /\ workers'[s][i] = worker
           /\ \A j \in 1..Workers(s) : j # i => workers'[s][j] = workers[s][j]
           /\ \A t \in Systems : t # s => workers'[t] = workers[t]
<1>1. workers \in [Systems -> Seq(AnyWorker)] /\ workers[s] \in Seq(AnyWorker)
  BY DEF ScanTyped
<1>2. workers'[s] = [workers[s] EXCEPT ![i] = worker] /\ \A t \in Systems : t # s => workers'[t] = workers[t]
  BY <1>1
<1>3. /\ [workers[s] EXCEPT ![i] = worker] \in Seq(AnyWorker)
      /\ Len([workers[s] EXCEPT ![i] = worker]) = Len(workers[s])
      /\ [workers[s] EXCEPT ![i] = worker][i] = worker
      /\ \A j \in 1..Workers(s) : j # i => [workers[s] EXCEPT ![i] = worker][j] = workers[s][j]
  BY <1>1 DEF Workers
<1>4. workers' = [workers EXCEPT ![s] = [workers[s] EXCEPT ![i] = worker]]
  BY <1>1
<1> QED  BY <1>1, <1>2, <1>3, <1>4

\* A worker that moves to a position of its stays in place with the others.
LEMMA MovedInPlace ==
    ASSUME ScanTyped, NEW s \in Systems, WorkersPlaced(s), phase[s] = "scan",
           NEW i \in 1..Workers(s), NEW worker \in Position(s, i, Workers(s)),
           workers' = [workers EXCEPT ![s][i] = worker],
           phase' = phase, outcome' = outcome, Len(tried'[s]) = Len(tried[s]),
           \A r \in 1..RuleCount(s) : Len(tried'[s][r]) = Len(tried[s][r])
    PROVE  /\ WorkersPlaced(s)'
           /\ workers' \in [Systems -> Seq(AnyWorker)] /\ Workers(s)' = Workers(s)
           /\ workers'[s][i] = worker
           /\ \A j \in 1..Workers(s) : j # i => workers'[s][j] = workers[s][j]
           /\ \A t \in Systems : t # s => workers'[t] = workers[t]
<1>1. worker \in AnyWorker  BY AttemptsType DEF Position, AnyWorker
<1>2. /\ workers' \in [Systems -> Seq(AnyWorker)]
      /\ Len(workers'[s]) = Len(workers[s])
      /\ workers'[s][i] = worker
      /\ \A j \in 1..Workers(s) : j # i => workers'[s][j] = workers[s][j]
      /\ \A t \in Systems : t # s => workers'[t] = workers[t]
  BY <1>1, WorkerMoves
<1>3. Workers(s)' = Workers(s)  BY <1>2 DEF Workers
<1>4. \A j \in 1..Workers(s) : workers'[s][j] \in Position(s, j, Workers(s))
  BY <1>2 DEF WorkersPlaced
<1>5. WorkersPlaced(s)'
  BY <1>3, <1>4 DEF WorkersPlaced
<1> QED  BY <1>2, <1>3, <1>5

\* A worker that has something to do does so during a scan.
LEMMA ActiveWorker ==
    ASSUME ScanInvariant, NEW s \in Systems, NEW i \in WorkerIDs(s),
           ~IsDone(s, i) \/ workers[s][i].at # "poll"
    PROVE  /\ phase[s] = "scan" /\ i \in 1..Workers(s) /\ Workers(s) \in Nat /\ Workers(s) > 0
           /\ workers[s][i] \in Position(s, i, Workers(s)) /\ workers[s][i] \in AnyWorker
           /\ workers[s][i].rule \in 1..RuleCount(s)
           /\ workers[s][i].attempt \in 1..Attempts[s][workers[s][i].rule]
           /\ Assigned(i, workers[s][i].rule, Workers(s))
           /\ Stride(s) = Workers(s)
<1>1. ScanTyped /\ WorkersPlaced(s)  BY DEF ScanInvariant, ScanGood
<1>2. /\ Workers(s) \in Nat /\ i \in 1..Workers(s) /\ Stride(s) = Workers(s)
      /\ workers[s][i] \in AnyWorker
  BY <1>1, WorkerIDsAndStride
<1>3. workers[s][i] \in Position(s, i, Workers(s))  BY <1>1, <1>2 DEF WorkersPlaced
<1>4. workers[s][i].rule \in 1..RuleCount(s)
  BY <1>3, AttemptsType DEF Position, IsDone
<1>5. phase[s] = "scan"  BY <1>1, <1>2, <1>4, AttemptsType DEF WorkersPlaced
<1>6. /\ workers[s][i].attempt \in 1..Attempts[s][workers[s][i].rule]
      /\ Assigned(i, workers[s][i].rule, Workers(s))
  BY <1>3, <1>4, AttemptsType DEF Position
<1> QED  BY <1>2, <1>3, <1>4, <1>5, <1>6

\* What a step of one system has to keep.
Kept(s) == ScanTyped' /\ ScanGood(s)' /\ \A t \in Systems : t # s => SystemUnchanged(t)

LEMMA PollKeeps ==
    ASSUME ScanInvariant, NEW s \in Systems, NEW i \in WorkerIDs(s), Poll(s, i)
    PROVE  Kept(s)
<1> DEFINE worker == workers[s][i]
<1>1. ScanTyped /\ WorkersPlaced(s) /\ TriedOnce(s) /\ ReasonsRight(s)
  BY DEF ScanInvariant, ScanGood
<1>2. worker.at = "poll" /\ ~IsDone(s, i)  BY DEF Poll
<1>3. /\ phase[s] = "scan" /\ i \in 1..Workers(s) /\ Workers(s) \in Nat /\ Workers(s) > 0
      /\ worker \in Position(s, i, Workers(s)) /\ worker \in AnyWorker
      /\ worker.rule \in 1..RuleCount(s)
      /\ worker.attempt \in 1..Attempts[s][worker.rule]
      /\ Assigned(i, worker.rule, Workers(s)) /\ Stride(s) = Workers(s)
  BY <1>2, ActiveWorker
<1>4. UNCHANGED <<poolVars, phase, currentError, abortRequested, timedOut, tried, outcome, scans>>
  BY DEF Poll
<1>5. workers[s] \in Seq(AnyWorker) /\ workers \in [Systems -> Seq(AnyWorker)]
  BY <1>1 DEF ScanTyped
<1> HIDE DEF worker
<1>6. ASSUME NEW next \in Position(s, i, Workers(s)), workers' = [workers EXCEPT ![s][i] = next]
      PROVE  /\ WorkersPlaced(s)'
             /\ workers' \in [Systems -> Seq(AnyWorker)] /\ Workers(s)' = Workers(s)
             /\ workers'[s][i] = next
             /\ \A j \in 1..Workers(s) : j # i => workers'[s][j] = workers[s][j]
             /\ \A t \in Systems : t # s => workers'[t] = workers[t]
  BY <1>1, <1>3, <1>4, <1>6, MovedInPlace
<1>7. outcome[s] = "None"  BY <1>1, <1>3 DEF WorkersPlaced
<1>8. ASSUME NEW next \in Position(s, i, Workers(s)), workers' = [workers EXCEPT ![s][i] = next],
             currentError[s] # "None" \/ \A r, n : Passed(next, r, n) <=> Passed(worker, r, n)
      PROVE  TriedOnce(s)'
  <2>1. outcome'[s] # "Found" /\ tried' = tried /\ phase' = phase /\ currentError' = currentError
    BY <1>4, <1>7
  <2>2. CASE currentError[s] # "None"  BY <2>1, <2>2 DEF TriedOnce
  <2>3. CASE currentError[s] = "None"
    <3>1. \A j \in 1..Workers(s) : \A r, n :
            Passed(workers'[s][j], r, n) <=> Passed(workers[s][j], r, n)
      BY <1>6, <1>8, <2>3 DEF worker
    <3>2. Workers(s)' = Workers(s)  BY <1>6, <1>8
    <3> QED  BY <1>1, <2>1, <3>1, <3>2 DEF TriedOnce
  <2> QED  BY <2>2, <2>3
<1>9. CASE /\ currentError[s] # "None"
           /\ workers' = [workers EXCEPT ![s][i] =
                 WorkerAt(s, worker.rule, Attempts[s][worker.rule], Stride(s))]
           /\ UNCHANGED terminationReason
  <2> DEFINE next == WorkerAt(s, worker.rule, Attempts[s][worker.rule], Workers(s))
  <2>1. next \in Position(s, i, Workers(s)) /\ next.at = "poll"
    <3>1. worker.rule \in Nat /\ worker.rule > 0 /\ Attempts[s][worker.rule] \in Nat
      BY <1>3, AttemptsType
    <3> QED  BY <1>3, <3>1, WorkerAtRight
  <2>2. workers' = [workers EXCEPT ![s][i] = next]  BY <1>3, <1>9
  <2> HIDE DEF next
  <2>3. TriedOnce(s)'  BY <1>8, <1>9, <2>1, <2>2
  <2>4. IsFailing(s)' => IsFailing(s)  BY <1>6, <2>1, <2>2 DEF IsFailing
  <2>5. ReasonsRight(s)'
    BY <1>1, <1>3, <1>4, <1>7, <1>9, <2>4 DEF ReasonsRight, ReasonHolds
  <2>6. ScanTyped'  BY <1>1, <1>4, <1>6, <1>9, <2>1, <2>2 DEF ScanTyped, poolVars
  <2>7. \A t \in Systems : t # s => SystemUnchanged(t)
    BY <1>4, <1>6, <1>9, <2>1, <2>2 DEF SystemUnchanged
  <2> QED  BY <1>6, <2>1, <2>2, <2>3, <2>5, <2>6, <2>7 DEF Kept, ScanGood
<1>10. CASE /\ currentError[s] = "None" /\ (abortRequested[s] \/ timedOut[s])
            /\ workers' = [workers EXCEPT ![s][i].at = "fail"]
            /\ terminationReason' = [terminationReason EXCEPT ![s] =
                  IF abortRequested[s] THEN "Aborted" ELSE "TimeConstrained"]
  <2> DEFINE next == [worker EXCEPT !.at = "fail"]
  <2>1. /\ next \in Position(s, i, Workers(s)) /\ next.at = "fail"
        /\ \A r, n : Passed(next, r, n) <=> Passed(worker, r, n)
    <3>1. /\ i \in Nat /\ worker.rule <= RuleCount(s) /\ "fail" \in {"poll", "fail", "try"}
          /\ Workers(s) \in Nat /\ worker \in Position(s, i, Workers(s))
      BY <1>3, AttemptsType
    <3> QED  BY <3>1, AttemptsType DEF Position, Passed
  <2>2. workers' = [workers EXCEPT ![s][i] = next]  BY <1>5, <1>10 DEF worker
  <2> HIDE DEF next
  <2>3. TriedOnce(s)'  BY <1>8, <2>1, <2>2, Zenon
  <2>4. IsFailing(s)'  BY <1>3, <1>6, <2>1, <2>2 DEF IsFailing
  <2>5. terminationReason'[s] = (IF abortRequested[s] THEN "Aborted" ELSE "TimeConstrained")
        /\ terminationReason' \in [Systems -> {"NotTerminated", "Aborted", "TimeConstrained"}]
        /\ \A t \in Systems : t # s => terminationReason'[t] = terminationReason[t]
    BY <1>1, <1>10 DEF ScanTyped
  <2>6. ReasonHolds(s)'  BY <1>4, <1>10, <2>5 DEF ReasonHolds
  <2>7. ReasonsRight(s)'  BY <1>4, <1>7, <2>4, <2>6 DEF ReasonsRight
  <2>8. ScanTyped'  BY <1>1, <1>4, <1>6, <2>1, <2>2, <2>5 DEF ScanTyped, poolVars
  <2>9. \A t \in Systems : t # s => SystemUnchanged(t)
    BY <1>4, <1>6, <2>1, <2>2, <2>5 DEF SystemUnchanged
  <2> QED  BY <1>6, <2>1, <2>2, <2>3, <2>7, <2>8, <2>9 DEF Kept, ScanGood
<1>11. CASE /\ currentError[s] = "None" /\ ~abortRequested[s] /\ ~timedOut[s]
            /\ workers' = [workers EXCEPT ![s][i].at = "try"]
            /\ UNCHANGED terminationReason
  <2> DEFINE next == [worker EXCEPT !.at = "try"]
  <2>1. /\ next \in Position(s, i, Workers(s)) /\ next.at = "try"
        /\ \A r, n : Passed(next, r, n) <=> Passed(worker, r, n)
    <3>1. /\ i \in Nat /\ worker.rule <= RuleCount(s) /\ "try" \in {"poll", "fail", "try"}
          /\ Workers(s) \in Nat /\ worker \in Position(s, i, Workers(s))
      BY <1>3, AttemptsType
    <3> QED  BY <3>1, AttemptsType DEF Position, Passed
  <2>2. workers' = [workers EXCEPT ![s][i] = next]  BY <1>5, <1>11 DEF worker
  <2> HIDE DEF next
  <2>3. TriedOnce(s)'  BY <1>8, <2>1, <2>2
  <2>4. IsFailing(s)' <=> IsFailing(s)  BY <1>2, <1>3, <1>6, <2>1, <2>2 DEF IsFailing, worker
  <2>5. ReasonsRight(s)'
    BY <1>1, <1>3, <1>4, <1>7, <1>11, <2>4 DEF ReasonsRight, ReasonHolds
  <2>6. ScanTyped'  BY <1>1, <1>4, <1>6, <1>11, <2>1, <2>2 DEF ScanTyped, poolVars
  <2>7. \A t \in Systems : t # s => SystemUnchanged(t)
    BY <1>4, <1>6, <1>11, <2>1, <2>2 DEF SystemUnchanged
  <2> QED  BY <1>6, <2>1, <2>2, <2>3, <2>5, <2>6, <2>7 DEF Kept, ScanGood
<1> QED  BY <1>9, <1>10, <1>11 DEF Poll, worker

LEMMA FailKeeps ==
    ASSUME ScanInvariant, NEW s \in Systems, NEW i \in WorkerIDs(s), Fail(s, i)
    PROVE  Kept(s)
<1> DEFINE worker == workers[s][i]
           next == WorkerAt(s, worker.rule, worker.attempt, Workers(s))
<1>1. ScanTyped /\ WorkersPlaced(s) /\ ReasonsRight(s)
  BY DEF ScanInvariant, ScanGood
<1>2. worker.at = "fail"  BY DEF Fail
<1>3. /\ phase[s] = "scan" /\ i \in 1..Workers(s) /\ Workers(s) \in Nat /\ Workers(s) > 0
      /\ worker.rule \in 1..RuleCount(s)
      /\ worker.attempt \in 1..Attempts[s][worker.rule]
      /\ Assigned(i, worker.rule, Workers(s)) /\ Stride(s) = Workers(s)
  BY <1>2, ActiveWorker
<1>4. UNCHANGED <<poolVars, phase, terminationReason, abortRequested, timedOut, tried, outcome, scans>>
  BY DEF Fail
<1>5. outcome[s] = "None"  BY <1>1, <1>3 DEF WorkersPlaced
<1>6. workers' = [workers EXCEPT ![s][i] = next]  BY <1>3 DEF Fail
<1>7. IsFailing(s)  BY <1>2, <1>3 DEF IsFailing
<1> HIDE DEF worker
<1>8. next \in Position(s, i, Workers(s)) /\ next.at = "poll"
  <2>1. worker.rule \in Nat /\ worker.rule > 0 /\ worker.attempt \in Nat
        /\ worker.attempt <= Attempts[s][worker.rule]
    BY <1>3, AttemptsType
  <2> QED  BY <1>3, <2>1, WorkerAtRight
<1> HIDE DEF next
<1>9. /\ WorkersPlaced(s)'
      /\ workers' \in [Systems -> Seq(AnyWorker)] /\ Workers(s)' = Workers(s)
      /\ workers'[s][i] = next
      /\ \A j \in 1..Workers(s) : j # i => workers'[s][j] = workers[s][j]
      /\ \A t \in Systems : t # s => workers'[t] = workers[t]
  BY <1>1, <1>3, <1>4, <1>6, <1>8, MovedInPlace
<1>10. /\ currentError' \in [Systems -> Errors]
       /\ currentError'[s] = (IF currentError[s] = "None" THEN "Aborted" ELSE currentError[s])
       /\ \A t \in Systems : t # s => currentError'[t] = currentError[t]
  BY <1>1 DEF Fail, SetCurrentErrorIfNone, ScanTyped, Errors
<1>11. TriedOnce(s)'  BY <1>4, <1>5, <1>10 DEF TriedOnce
<1>12. ReasonsRight(s)'
  <2>1. ReasonHolds(s)  BY <1>1, <1>3, <1>7 DEF ReasonsRight
  <2>2. ReasonHolds(s)'  BY <1>4, <2>1 DEF ReasonHolds
  <2>3. currentError'[s] # "None"  BY <1>10
  <2> QED  BY <1>4, <1>5, <2>2, <2>3 DEF ReasonsRight
<1>13. ScanTyped'  BY <1>1, <1>4, <1>9, <1>10 DEF ScanTyped, poolVars
<1>14. \A t \in Systems : t # s => SystemUnchanged(t)
  BY <1>4, <1>9, <1>10 DEF SystemUnchanged
<1> QED  BY <1>9, <1>11, <1>12, <1>13, <1>14 DEF Kept, ScanGood

LEMMA EntryIncremented ==
    ASSUME NEW row \in Seq(Nat), NEW at \in 1..Len(row)
    PROVE  /\ [row EXCEPT ![at] = @ + 1] \in Seq(Nat)
           /\ Len([row EXCEPT ![at] = @ + 1]) = Len(row)
           /\ \A n \in 1..Len(row) :
                [row EXCEPT ![at] = @ + 1][n] = IF n = at THEN row[n] + 1 ELSE row[n]
<1>1. row \in [1..Len(row) -> Nat] /\ Len(row) \in Nat  OBVIOUS
<1>2. [row EXCEPT ![at] = @ + 1] \in [1..Len(row) -> Nat]  BY <1>1
<1>3. \A f \in [1..Len(row) -> Nat] : f \in Seq(Nat) /\ Len(f) = Len(row)
  <2> DEFINE n == Len(row)
  <2>1. n \in Nat  BY <1>1
  <2> HIDE DEF n
  <2>2. \A f \in [1..n -> Nat] : f \in Seq(Nat) /\ Len(f) = n  BY <2>1
  <2> QED  BY <2>2 DEF n
<1>4. \A n \in 1..Len(row) :
        [row EXCEPT ![at] = @ + 1][n] = IF n = at THEN row[n] + 1 ELSE row[n]
  BY <1>1
<1> QED  BY <1>2, <1>3, <1>4

LEMMA RowReplaced ==
    ASSUME NEW rows \in Seq(Seq(Nat)), NEW at \in 1..Len(rows), NEW row \in Seq(Nat)
    PROVE  /\ [rows EXCEPT ![at] = row] \in Seq(Seq(Nat))
           /\ Len([rows EXCEPT ![at] = row]) = Len(rows)
           /\ \A r \in 1..Len(rows) :
                [rows EXCEPT ![at] = row][r] = IF r = at THEN row ELSE rows[r]
<1> DEFINE Row == Seq(Nat)
<1>1. rows \in Seq(Row) /\ row \in Row  OBVIOUS
<1> HIDE DEF Row
<1>2. /\ [rows EXCEPT ![at] = row] \in Seq(Row)
      /\ Len([rows EXCEPT ![at] = row]) = Len(rows)
      /\ \A r \in 1..Len(rows) :
           [rows EXCEPT ![at] = row][r] = IF r = at THEN row ELSE rows[r]
  BY <1>1
<1> QED  BY <1>2 DEF Row

\* Only worker i was to try this token, and had not done so before.
LEMMA TryKeeps ==
    ASSUME ScanInvariant, NEW s \in Systems, NEW i \in WorkerIDs(s), Try(s, i)
    PROVE  Kept(s)
<1> DEFINE worker == workers[s][i]
           next == WorkerAt(s, worker.rule, worker.attempt, Workers(s))
<1>1. ScanTyped /\ WorkersPlaced(s) /\ TriedOnce(s) /\ ReasonsRight(s)
  BY DEF ScanInvariant, ScanGood
<1>2. worker.at = "try"  BY DEF Try
<1>3. /\ phase[s] = "scan" /\ i \in 1..Workers(s) /\ Workers(s) \in Nat /\ Workers(s) > 0
      /\ worker.rule \in 1..RuleCount(s)
      /\ worker.attempt \in 1..Attempts[s][worker.rule]
      /\ Assigned(i, worker.rule, Workers(s)) /\ Stride(s) = Workers(s)
  BY <1>2, ActiveWorker
<1>4. UNCHANGED <<poolVars, phase, terminationReason, abortRequested, timedOut, outcome, scans>>
  BY DEF Try
<1>5. outcome[s] = "None"  BY <1>1, <1>3 DEF WorkersPlaced
<1>6. workers' = [workers EXCEPT ![s][i] = next]  BY <1>3 DEF Try
<1>7. tried' = [tried EXCEPT ![s][worker.rule][worker.attempt] = @ + 1]  BY DEF Try
<1>8. \/ UNCHANGED currentError
      \/ currentError' = [currentError EXCEPT ![s] = IF @ = "None" THEN "DisconnectedInputs" ELSE @]
  BY DEF Try, SetCurrentErrorIfNone
<1>9. /\ currentError' \in [Systems -> Errors]
      /\ currentError'[s] = currentError[s] \/ (currentError[s] = "None" /\ currentError'[s] = "DisconnectedInputs")
      /\ \A t \in Systems : t # s => currentError'[t] = currentError[t]
  <2>1. currentError \in [Systems -> Errors]  BY <1>1 DEF ScanTyped
  <2> QED  BY <1>8, <2>1 DEF Errors
<1> HIDE DEF worker
<1>10. /\ next \in Position(s, i, Workers(s)) /\ next.at = "poll"
       /\ \A r \in 1..RuleCount(s) : \A n \in 1..Attempts[s][r] :
            Assigned(i, r, Workers(s)) =>
                (Passed(next, r, n) <=> r < worker.rule \/ (r = worker.rule /\ n <= worker.attempt))
  <2>1. worker.rule \in Nat /\ worker.rule > 0 /\ worker.attempt \in Nat
        /\ worker.attempt <= Attempts[s][worker.rule]
    BY <1>3, AttemptsType
  <2> QED  BY <1>3, <2>1, WorkerAtRight
<1> HIDE DEF next
<1>11. /\ tried' \in [Systems -> Seq(Seq(Nat))]
       /\ \A t \in Systems : t # s => tried'[t] = tried[t]
       /\ Len(tried'[s]) = Len(tried[s])
       /\ \A r \in 1..RuleCount(s) : Len(tried'[s][r]) = Len(tried[s][r])
       /\ \A r \in 1..RuleCount(s) : \A n \in 1..Attempts[s][r] :
            tried'[s][r][n] = IF r = worker.rule /\ n = worker.attempt THEN tried[s][r][n] + 1
                              ELSE tried[s][r][n]
  <2> DEFINE row == [tried[s][worker.rule] EXCEPT ![worker.attempt] = @ + 1]
             table == [tried[s] EXCEPT ![worker.rule] = row]
  <2>1. /\ tried[s] \in Seq(Seq(Nat)) /\ Len(tried[s]) = RuleCount(s)
        /\ \A r \in 1..RuleCount(s) : tried[s][r] \in Seq(Nat) /\ Len(tried[s][r]) = Attempts[s][r]
    <3> HIDE DEF row, table
    <3>1. tried[s] \in Seq(Seq(Nat))  BY <1>1 DEF ScanTyped
    <3>2. Len(tried[s]) = RuleCount(s) /\ \A r \in 1..RuleCount(s) : Len(tried[s][r]) = Attempts[s][r]
      BY <1>1 DEF WorkersPlaced
    <3>3. \A r \in 1..Len(tried[s]) : tried[s][r] \in Seq(Nat)  BY <3>1
    <3> QED  BY <3>1, <3>2, <3>3
  <2>2. /\ row \in Seq(Nat) /\ Len(row) = Attempts[s][worker.rule]
        /\ \A n \in 1..Attempts[s][worker.rule] :
             row[n] = IF n = worker.attempt THEN tried[s][worker.rule][n] + 1 ELSE tried[s][worker.rule][n]
    <3> DEFINE old == tried[s][worker.rule]
    <3>1. old \in Seq(Nat) /\ worker.attempt \in 1..Len(old) /\ Len(old) = Attempts[s][worker.rule]
      BY <1>3, <2>1
    <3> HIDE DEF old
    <3>2. /\ [old EXCEPT ![worker.attempt] = @ + 1] \in Seq(Nat)
          /\ Len([old EXCEPT ![worker.attempt] = @ + 1]) = Len(old)
          /\ \A n \in 1..Len(old) : [old EXCEPT ![worker.attempt] = @ + 1][n] =
                IF n = worker.attempt THEN old[n] + 1 ELSE old[n]
      BY <3>1, EntryIncremented
    <3> QED  BY <3>1, <3>2 DEF old
  <2>3. tried' = [tried EXCEPT ![s] = table]
    BY <1>1, <1>7 DEF ScanTyped
  <2> HIDE DEF row
  <2>4. /\ table \in Seq(Seq(Nat)) /\ Len(table) = Len(tried[s])
        /\ \A r \in 1..RuleCount(s) : table[r] = IF r = worker.rule THEN row ELSE tried[s][r]
    <3> DEFINE all == tried[s]
    <3>1. all \in Seq(Seq(Nat)) /\ worker.rule \in 1..Len(all) /\ Len(all) = RuleCount(s)
      BY <1>3, <2>1
    <3> HIDE DEF all
    <3>2. /\ [all EXCEPT ![worker.rule] = row] \in Seq(Seq(Nat))
          /\ Len([all EXCEPT ![worker.rule] = row]) = Len(all)
          /\ \A r \in 1..Len(all) : [all EXCEPT ![worker.rule] = row][r] =
                IF r = worker.rule THEN row ELSE all[r]
      BY <2>2, <3>1, RowReplaced
    <3> QED  BY <3>1, <3>2 DEF all
  <2> HIDE DEF table
  <2>5. tried'[s] = table /\ tried' \in [Systems -> Seq(Seq(Nat))]
        /\ \A t \in Systems : t # s => tried'[t] = tried[t]
    BY <1>1, <2>3, <2>4 DEF ScanTyped
  <2> QED  BY <2>1, <2>2, <2>4, <2>5
<1>12. /\ WorkersPlaced(s)'
       /\ workers' \in [Systems -> Seq(AnyWorker)] /\ Workers(s)' = Workers(s)
       /\ workers'[s][i] = next
       /\ \A j \in 1..Workers(s) : j # i => workers'[s][j] = workers[s][j]
       /\ \A t \in Systems : t # s => workers'[t] = workers[t]
  BY <1>1, <1>3, <1>4, <1>6, <1>10, <1>11, MovedInPlace
<1>13. TriedOnce(s)'
  <2>1. SUFFICES ASSUME currentError[s] = "None",
                        NEW j \in 1..Workers(s), NEW r \in 1..RuleCount(s),
                        NEW n \in 1..Attempts[s][r], Assigned(j, r, Workers(s))
                 PROVE  tried'[s][r][n] = IF Passed(workers'[s][j], r, n) THEN 1 ELSE 0
    BY <1>4, <1>5, <1>9, <1>12 DEF TriedOnce
  <2>2. tried[s][r][n] = IF Passed(workers[s][j], r, n) THEN 1 ELSE 0
    BY <1>1, <1>3, <2>1 DEF TriedOnce
  <2>3. CASE j = i
    <3>1. Passed(workers'[s][j], r, n) <=> r < worker.rule \/ (r = worker.rule /\ n <= worker.attempt)
      BY <1>10, <1>12, <2>1, <2>3
    <3>2. Passed(workers[s][j], r, n) <=> r < worker.rule \/ (r = worker.rule /\ n < worker.attempt)
      BY <2>3 DEF Passed, worker
    <3>3. tried'[s][r][n] = IF r = worker.rule /\ n = worker.attempt THEN tried[s][r][n] + 1
                            ELSE tried[s][r][n]
      BY <1>11
    <3>4. r \in Nat /\ n \in Nat /\ worker.rule \in Nat /\ worker.attempt \in Nat  BY <1>3, AttemptsType
    <3> QED  BY <2>2, <3>1, <3>2, <3>3, <3>4
  <2>4. CASE j # i
    <3>1. r # worker.rule
      <4>1. SUFFICES ASSUME r = worker.rule PROVE FALSE  OBVIOUS
      <4>2. r \in Int  BY AttemptsType
      <4> QED  BY <1>3, <2>1, <2>4, <4>1, <4>2, CongruentOnce DEF Assigned
    <3> QED  BY <1>11, <1>12, <2>2, <2>4, <3>1
  <2> QED  BY <2>3, <2>4
<1>14. ReasonsRight(s)'
  <2>1. IsFailing(s)' <=> IsFailing(s)  BY <1>2, <1>3, <1>10, <1>12 DEF IsFailing, worker
  <2> QED  BY <1>1, <1>3, <1>4, <1>5, <1>9, <2>1 DEF ReasonsRight, ReasonHolds
<1>15. ScanTyped'  BY <1>1, <1>4, <1>9, <1>11, <1>12 DEF ScanTyped, poolVars
<1>16. \A t \in Systems : t # s => SystemUnchanged(t)
  BY <1>4, <1>9, <1>11, <1>12 DEF SystemUnchanged
<1> QED  BY <1>12, <1>13, <1>14, <1>15, <1>16 DEF Kept, ScanGood

LEMMA StartScanKeeps ==
    ASSUME ScanInvariant, NEW s \in Systems, StartScan(s)
    PROVE  Kept(s)
<1> DEFINE count == IF held'[s] = 0 THEN 1 ELSE held'[s]
           team == [i \in 1..count |-> WorkerAt(s, i, 0, count)]
<1>1. ScanTyped /\ WorkersPlaced(s)  BY DEF ScanInvariant, ScanGood
<1>2. phase[s] = "idle" /\ currentError[s] = "None" /\ UNCHANGED currentError
  BY <1>1 DEF StartScan, WorkersPlaced
<1>3. /\ held' \in [Systems -> Nat] /\ threadsInUse' \in Int
      /\ \A t \in Systems : t # s => held'[t] = held[t]
  <2>1. Reserved(RuleCount(s)) \in Nat
    BY <1>1, AttemptsType, HardwareAssumption DEF Reserved, Smaller, NumThreadsAvailable, ScanTyped
  <2> QED  BY <1>1, <2>1 DEF StartScan, Acquire, ScanTyped, Systems
<1>4. count \in Nat /\ count > 0  BY <1>3
<1>5. workers' = [workers EXCEPT ![s] = team]  BY DEF StartScan
<1> HIDE DEF count
<1>6. ASSUME NEW i \in 1..count
      PROVE  /\ team[i] \in Position(s, i, count) /\ team[i] \in AnyWorker
             /\ team[i].at = "poll"
             /\ \A r \in 1..RuleCount(s) : \A n \in 1..Attempts[s][r] :
                  Assigned(i, r, count) => ~Passed(team[i], r, n)
  <2>1. team[i] = WorkerAt(s, i, 0, count)  OBVIOUS
  <2>2. /\ team[i] \in Position(s, i, count) /\ team[i].at = "poll"
        /\ \A r \in 1..RuleCount(s) : \A n \in 1..Attempts[s][r] :
             Assigned(i, r, count) => ~Passed(team[i], r, n)
    BY <1>4, <2>1, WorkerStarts
  <2>3. team[i] \in AnyWorker  BY <2>2, AttemptsType DEF Position, AnyWorker
  <2> QED  BY <2>2, <2>3
<1>7. team \in Seq(AnyWorker) /\ Len(team) = count
  <2>1. team \in [1..count -> AnyWorker]  BY <1>6
  <2> HIDE DEF team
  <2> QED  BY <1>4, <2>1
<1> HIDE DEF team
<1>8. /\ workers' \in [Systems -> Seq(AnyWorker)] /\ workers'[s] = team
      /\ \A t \in Systems : t # s => workers'[t] = workers[t]
  BY <1>1, <1>5, <1>7 DEF ScanTyped
<1>9. Workers(s)' = count  BY <1>7, <1>8 DEF Workers
<1>10. /\ NoneTried(s) \in Seq(Seq(Nat)) /\ Len(NoneTried(s)) = RuleCount(s)
       /\ \A r \in 1..RuleCount(s) : Len(NoneTried(s)[r]) = Attempts[s][r]
       /\ \A r \in 1..RuleCount(s) : \A n \in 1..Attempts[s][r] : NoneTried(s)[r][n] = 0
  BY AttemptsType DEF NoneTried
<1>11. /\ tried' \in [Systems -> Seq(Seq(Nat))] /\ tried'[s] = NoneTried(s)
       /\ \A t \in Systems : t # s => tried'[t] = tried[t]
  BY <1>1, <1>10 DEF StartScan, ScanTyped
<1>12. phase'[s] = "scan" /\ terminationReason'[s] = "NotTerminated" /\ outcome'[s] = "None"
  BY <1>1 DEF StartScan, ScanTyped
<1>13. ScanTyped'
  <2>1. /\ phase' \in [Systems -> {"idle", "scan", "joined"}]
        /\ terminationReason' \in [Systems -> {"NotTerminated", "Aborted", "TimeConstrained"}]
        /\ abortRequested' \in [Systems -> BOOLEAN] /\ timedOut' \in [Systems -> BOOLEAN]
        /\ outcome' \in [Systems -> Errors \cup {"Found"}]
        /\ scans' \in [Systems -> Nat]
    BY <1>1 DEF StartScan, ScanTyped, Errors
  <2> QED  BY <1>1, <1>2, <1>3, <1>8, <1>11, <2>1 DEF ScanTyped
<1>14. WorkersPlaced(s)'
  BY <1>4, <1>6, <1>8, <1>9, <1>10, <1>11, <1>12 DEF WorkersPlaced
<1>15. TriedOnce(s)'
  BY <1>6, <1>8, <1>9, <1>10, <1>11, <1>12 DEF TriedOnce
<1>16. ReasonsRight(s)'
  <2>1. ~IsFailing(s)'  BY <1>6, <1>8, <1>9 DEF IsFailing
  <2> QED  BY <1>2, <1>12, <2>1 DEF ReasonsRight
<1>17. \A t \in Systems : t # s => SystemUnchanged(t)
  <2>1. \A t \in Systems : t # s =>
          /\ phase'[t] = phase[t] /\ terminationReason'[t] = terminationReason[t]
          /\ outcome'[t] = outcome[t] /\ abortRequested'[t] = abortRequested[t]
          /\ timedOut'[t] = timedOut[t]
    BY <1>1 DEF StartScan, ScanTyped
  <2> QED  BY <1>2, <1>8, <1>11, <2>1 DEF SystemUnchanged
<1> QED  BY <1>13, <1>14, <1>15, <1>16, <1>17 DEF Kept, ScanGood

LEMMA JoinKeeps ==
    ASSUME ScanInvariant, NEW s \in Systems, Join(s)
    PROVE  Kept(s)
<1>1. ScanTyped /\ WorkersPlaced(s) /\ TriedOnce(s) /\ ReasonsRight(s)
  BY DEF ScanInvariant, ScanGood
<1>2. /\ phase[s] = "scan" /\ phase' = [phase EXCEPT ![s] = "joined"] /\ Release(s)
      /\ UNCHANGED <<workers, currentError, terminationReason, abortRequested, timedOut,
                     tried, outcome, scans>>
  BY DEF Join
<1>3. /\ phase' \in [Systems -> {"idle", "scan", "joined"}] /\ phase'[s] = "joined"
      /\ \A t \in Systems : t # s => phase'[t] = phase[t]
  BY <1>1, <1>2 DEF ScanTyped
<1>4. held' \in [Systems -> Nat] /\ threadsInUse' \in Int
  BY <1>1, <1>2 DEF Release, ScanTyped, Systems
<1>5. \A i \in 1..Workers(s) : workers[s][i].rule > RuleCount(s)
  BY <1>1, WorkerIDsAndStride DEF Join, IsDone
<1>6. Workers(s)' = Workers(s)  BY <1>2 DEF Workers
<1>7. WorkersPlaced(s)'  BY <1>1, <1>2, <1>3, <1>5, <1>6 DEF WorkersPlaced
<1>8. TriedOnce(s)'  BY <1>1, <1>2, <1>3, <1>6 DEF TriedOnce
<1>9. ReasonsRight(s)'
  BY <1>1, <1>2, <1>3, <1>6 DEF ReasonsRight, ReasonHolds, IsFailing
<1>10. ScanTyped'  BY <1>1, <1>2, <1>3, <1>4 DEF ScanTyped
<1>11. \A t \in Systems : t # s => SystemUnchanged(t)
  BY <1>2, <1>3 DEF SystemUnchanged
<1> QED  BY <1>7, <1>8, <1>9, <1>10, <1>11 DEF Kept, ScanGood

\* Every token of every rule was passed by the worker the rule is assigned to.
LEMMA EndScanKeeps ==
    ASSUME ScanInvariant, NEW s \in Systems, EndScan(s)
    PROVE  Kept(s)
<1>1. ScanTyped /\ WorkersPlaced(s) /\ TriedOnce(s) /\ ReasonsRight(s)
  BY DEF ScanInvariant, ScanGood
<1>2. /\ phase[s] = "joined" /\ phase' = [phase EXCEPT ![s] = "idle"]
      /\ outcome' = [outcome EXCEPT ![s] = IF currentError[s] = "None" THEN "Found"
                                           ELSE currentError[s]]
      /\ currentError' = [currentError EXCEPT ![s] = "None"]
      /\ UNCHANGED <<poolVars, workers, terminationReason, abortRequested, timedOut, tried,
                     scans>>
  BY DEF EndScan
<1>3. /\ phase' \in [Systems -> {"idle", "scan", "joined"}] /\ phase'[s] = "idle"
      /\ currentError' \in [Systems -> Errors] /\ currentError'[s] = "None"
      /\ outcome' \in [Systems -> Errors \cup {"Found"}]
      /\ outcome'[s] = IF currentError[s] = "None" THEN "Found" ELSE currentError[s]
      /\ \A t \in Systems : t # s => /\ phase'[t] = phase[t] /\ outcome'[t] = outcome[t]
                                     /\ currentError'[t] = currentError[t]
  BY <1>1, <1>2 DEF ScanTyped, Errors
<1>4. Workers(s)' = Workers(s)  BY <1>2 DEF Workers
<1>5. Workers(s) \in Nat /\ Workers(s) > 0
  BY <1>1, <1>2, WorkerIDsAndStride DEF WorkersPlaced
<1>6. \A i \in 1..Workers(s) :
        /\ workers[s][i] \in Position(s, i, Workers(s)) /\ workers[s][i].rule > RuleCount(s)
        /\ workers[s][i].at = "poll"
  BY <1>1, <1>2 DEF WorkersPlaced, Position
<1>7. WorkersPlaced(s)'  BY <1>1, <1>2, <1>3, <1>4, <1>6 DEF WorkersPlaced
<1>8. ASSUME outcome'[s] = "Found"
      PROVE  currentError[s] = "None"
  BY <1>1, <1>3, <1>8 DEF ScanTyped, Errors
<1>9. TriedOnce(s)'
  <2>1. SUFFICES ASSUME currentError[s] = "None", NEW r \in 1..RuleCount(s),
                        NEW n \in 1..Attempts[s][r]
                 PROVE  tried[s][r][n] = 1
    BY <1>2, <1>3, <1>8 DEF TriedOnce
  <2>2. r \in Int  BY AttemptsType
  <2>3. PICK i \in 1..Workers(s) : Assigned(i, r, Workers(s))
    BY <1>5, <2>2, CongruentExists DEF Assigned
  <2>4. tried[s][r][n] = IF Passed(workers[s][i], r, n) THEN 1 ELSE 0
    BY <1>1, <1>2, <2>1, <2>3 DEF TriedOnce
  <2>5. Passed(workers[s][i], r, n)
    <3>1. workers[s][i].rule \in 1..(RuleCount(s) + 1) /\ workers[s][i].rule > RuleCount(s)
      BY <1>6, <2>3 DEF Position
    <3> QED  BY <3>1, AttemptsType DEF Passed
  <2> QED  BY <2>4, <2>5
<1>10. ReasonsRight(s)'
  <2>1. ~IsFailing(s)  BY <1>6 DEF IsFailing
  <2>2. outcome'[s] = "Found" => terminationReason[s] = "NotTerminated"
    BY <1>1, <1>2, <1>8, <2>1 DEF ReasonsRight
  <2>3. outcome'[s] = "Aborted" => currentError[s] = "Aborted"
    BY <1>3
  <2>4. outcome'[s] = "Aborted" => ReasonHolds(s)
    BY <1>1, <1>2, <2>3 DEF ReasonsRight
  <2>5. ReasonHolds(s)' <=> ReasonHolds(s)  BY <1>2 DEF ReasonHolds
  <2> QED  BY <1>2, <1>3, <2>2, <2>4, <2>5 DEF ReasonsRight
<1>11. ScanTyped'  BY <1>1, <1>2, <1>3 DEF ScanTyped, poolVars
<1>12. \A t \in Systems : t # s => SystemUnchanged(t)
  BY <1>2, <1>3 DEF SystemUnchanged
<1> QED  BY <1>7, <1>9, <1>10, <1>11, <1>12 DEF Kept, ScanGood

\* A reason that was the case stays so.
LEMMA InterruptKeeps ==
    ASSUME ScanInvariant, NEW s \in Systems, Interrupt(s)
    PROVE  Kept(s)
<1>1. ScanTyped /\ WorkersPlaced(s) /\ TriedOnce(s) /\ ReasonsRight(s)
  BY DEF ScanInvariant, ScanGood
<1>2. UNCHANGED <<poolVars, phase, workers, currentError, terminationReason, tried,
                  outcome, scans>>
  BY DEF Interrupt
<1>3. /\ abortRequested' \in [Systems -> BOOLEAN] /\ timedOut' \in [Systems -> BOOLEAN]
      /\ abortRequested[s] => abortRequested'[s]
      /\ timedOut[s] => timedOut'[s]
      /\ \A t \in Systems : t # s => /\ abortRequested'[t] = abortRequested[t]
                                     /\ timedOut'[t] = timedOut[t]
  <2>1. abortRequested \in [Systems -> BOOLEAN] /\ timedOut \in [Systems -> BOOLEAN]
    BY <1>1 DEF ScanTyped
  <2>2. CASE abortRequested' = [abortRequested EXCEPT ![s] = TRUE] /\ UNCHANGED timedOut
    BY <2>1, <2>2
  <2>3. CASE timedOut' = [timedOut EXCEPT ![s] = TRUE] /\ UNCHANGED abortRequested
    BY <2>1, <2>3
  <2> QED  BY <2>2, <2>3 DEF Interrupt
<1>4. WorkersPlaced(s)' /\ TriedOnce(s)'
  BY <1>1, <1>2 DEF WorkersPlaced, TriedOnce, Workers
<1>5. ReasonsRight(s)'
  <2>1. ReasonHolds(s) => ReasonHolds(s)'  BY <1>2, <1>3 DEF ReasonHolds
  <2>2. IsFailing(s)' <=> IsFailing(s)  BY <1>2 DEF IsFailing, Workers
  <2> QED  BY <1>1, <1>2, <2>1, <2>2 DEF ReasonsRight
<1>6. ScanTyped'  BY <1>1, <1>2, <1>3 DEF ScanTyped, poolVars
<1>7. \A t \in Systems : t # s => SystemUnchanged(t)
  BY <1>2, <1>3 DEF SystemUnchanged
<1> QED  BY <1>4, <1>5, <1>6, <1>7 DEF Kept, ScanGood

LEMMA ScanInvariantKept == ScanInvariant /\ [Next]_vars => ScanInvariant'
<1> SUFFICES ASSUME ScanInvariant, [Next]_vars PROVE ScanInvariant'  OBVIOUS
<1>1. ASSUME NEW s \in Systems, Kept(s) PROVE ScanInvariant'
  <2>1. ASSUME NEW t \in Systems, t # s PROVE ScanGood(t)'
    BY <1>1, <2>1, OthersStayGood DEF Kept, ScanInvariant
  <2> QED  BY <1>1, <2>1 DEF Kept, ScanInvariant
<1>2. CASE Next
  <2>1. PICK s \in Systems : \/ StartScan(s)
                             \/ \E i \in WorkerIDs(s) : Work(s, i)
                             \/ Join(s) \/ EndScan(s) \/ Interrupt(s)
    BY <1>2 DEF Next
  <2>2. CASE StartScan(s)  BY <1>1, <2>2, StartScanKeeps
  <2>3. ASSUME NEW i \in WorkerIDs(s), Work(s, i) PROVE ScanInvariant'
    BY <1>1, <2>3, PollKeeps, FailKeeps, TryKeeps DEF Work
  <2>4. CASE Join(s)  BY <1>1, <2>4, JoinKeeps
  <2>5. CASE EndScan(s)  BY <1>1, <2>5, EndScanKeeps
  <2>6. CASE Interrupt(s)  BY <1>1, <2>6, InterruptKeeps
  <2> QED  BY <2>1, <2>2, <2>3, <2>4, <2>5, <2>6
<1>3. CASE UNCHANGED vars
  <2>1. ScanTyped'  BY <1>3 DEF ScanInvariant, ScanTyped, vars, scanVars, poolVars
  <2>2. \A s \in Systems : SystemUnchanged(s)
    BY <1>3 DEF SystemUnchanged, vars, scanVars
  <2> QED  BY <2>1, <2>2, OthersStayGood DEF ScanInvariant
<1> QED  BY <1>2, <1>3

LEMMA ScanInvariantHolds == Spec => []ScanInvariant
BY ScanInit, ScanInvariantKept, PTL DEF Spec

-----------------------------------------------------------------------------
(* The theorems.                                                           *)

\* Every variable of the threads of a scan keeps its type: a worker is always at
\* a rule of its system or past the last one.
THEOREM ScanTypeCorrect == Spec => []TypeOK
<1>1. ScanInvariant => TypeOK
  <2> SUFFICES ASSUME ScanInvariant PROVE TypeOK  OBVIOUS
  <2>1. ASSUME NEW s \in Systems, NEW i \in WorkerIDs(s) PROVE workers[s][i] \in Worker(s)
    <3>1. workers[s][i] \in Position(s, i, Workers(s))
      BY WorkerIDsAndStride DEF ScanInvariant, ScanGood, WorkersPlaced
    <3> QED  BY <3>1 DEF Position, Worker
  <2>2. ASSUME NEW s \in Systems, NEW r \in DOMAIN Attempts[s] PROVE tried[s][r] \in Seq(Nat)
    <3>1. tried[s] \in Seq(Seq(Nat)) /\ Len(tried[s]) = RuleCount(s) /\ r \in 1..RuleCount(s)
      BY AttemptsType DEF ScanInvariant, ScanGood, ScanTyped, WorkersPlaced
    <3> QED  BY <3>1
  <2> QED  BY <2>1, <2>2 DEF ScanInvariant, ScanTyped, TypeOK
<1> QED  BY <1>1, ScanInvariantHolds, PTL

\* A scan that returns without an error has tried every token for every rule
\* exactly once, whatever number of threads Parallelism granted it.
THEOREM SuccessAlwaysComplete == Spec => []SuccessIsComplete
<1>1. ScanInvariant => SuccessIsComplete
  BY AttemptsType DEF ScanInvariant, ScanGood, TriedOnce, SuccessIsComplete
<1> QED  BY <1>1, ScanInvariantHolds, PTL

\* currentError is reset by the throw: no scan meets the error of another.
THEOREM ScansAlwaysStartClean == Spec => []ScansStartClean
<1>1. ScanInvariant => ScansStartClean
  BY DEF ScanInvariant, ScanGood, WorkersPlaced, ScansStartClean
<1> QED  BY <1>1, ScanInvariantHolds, PTL

\* terminationReason_, written by any thread and without a lock, is right when
\* the scan ends: a reason that was the case if it was aborted, none if not.
THEOREM ReasonsAlwaysRight == Spec => []ReasonIsRight
<1>1. ScanInvariant => ReasonIsRight
  BY DEF ScanInvariant, ScanGood, ReasonsRight, ReasonHolds, ReasonIsRight
<1> QED  BY <1>1, ScanInvariantHolds, PTL

\* setCurrentErrorIfNone: of the errors of several threads, the first is thrown.
THEOREM FirstErrorAlwaysKept == Spec => FirstErrorKept
<1> DEFINE Keeps == \A s \in Systems :
                currentError[s] # "None" =>
                    \/ currentError'[s] = currentError[s]
                    \/ currentError'[s] = "None" /\ outcome'[s] = currentError[s]
<1>1. ScanInvariant /\ [Next]_vars => [Keeps]_vars
  <2> SUFFICES ASSUME ScanInvariant, Next, NEW s \in Systems, currentError[s] # "None"
               PROVE  \/ currentError'[s] = currentError[s]
                      \/ currentError'[s] = "None" /\ outcome'[s] = currentError[s]
    OBVIOUS
  <2>1. currentError \in [Systems -> Errors] /\ outcome \in [Systems -> Errors \cup {"Found"}]
    BY DEF ScanInvariant, ScanTyped
  <2>2. PICK t \in Systems : \/ StartScan(t)
                             \/ \E i \in WorkerIDs(t) : Work(t, i)
                             \/ Join(t) \/ EndScan(t) \/ Interrupt(t)
    BY DEF Next
  <2>3. CASE EndScan(t)
    BY <2>1, <2>3 DEF EndScan
  <2>4. ASSUME NEW i \in WorkerIDs(t), Work(t, i) PROVE currentError'[s] = currentError[s]
    BY <2>1, <2>4 DEF Work, Poll, Fail, Try, SetCurrentErrorIfNone
  <2>5. CASE StartScan(t) \/ Join(t) \/ Interrupt(t)
    BY <2>5 DEF StartScan, Join, Interrupt
  <2> QED  BY <2>2, <2>3, <2>4, <2>5
<1> QED  BY <1>1, ScanInvariantHolds, PTL DEF Spec, FirstErrorKept

-----------------------------------------------------------------------------
(* The pool of threads.                                                    *)

\* Only a scan that runs holds threads: none are leaked by one that has ended.
PoolInvariant ==
    /\ PoolConserved
    /\ IsFiniteSet(HeldThreads)
    /\ held \in [Systems -> Nat]
    /\ \A s \in Systems : phase[s] # "scan" => held[s] = 0

\* The threads of one owner, counted.
LEMMA ThreadsOf ==
    ASSUME NEW o, NEW k \in Nat
    PROVE  IsFiniteSet({o} \X (1..k)) /\ Cardinality({o} \X (1..k)) = k
<1>1. IsFiniteSet({o}) /\ Cardinality({o}) = 1
  BY FS_Singleton
<1>2. IsFiniteSet(1..k) /\ Cardinality(1..k) = k
  BY FS_Interval
<1>3. /\ IsFiniteSet({o} \X (1..k))
      /\ Cardinality({o} \X (1..k)) = Cardinality({o}) * Cardinality(1..k)
  BY <1>1, <1>2, FS_Product
<1>4. 1 * k = k
  OBVIOUS
<1> QED  BY <1>1, <1>2, <1>3, <1>4

\* Threads given to an owner that has none are added to those that are held.
LEMMA ThreadsAdded ==
    ASSUME NEW S, IsFiniteSet(S), NEW o, NEW k \in Nat, \A n : <<o, n>> \notin S
    PROVE  /\ IsFiniteSet(S \cup ({o} \X (1..k)))
           /\ Cardinality(S \cup ({o} \X (1..k))) = Cardinality(S) + k
<1>1. S \cap ({o} \X (1..k)) = {}
  OBVIOUS
<1>2. IsFiniteSet({}) /\ Cardinality({}) = 0
  BY FS_EmptySet
<1>3. Cardinality(S) \in Nat
  BY FS_CardinalityType
<1>4. IsFiniteSet({o} \X (1..k)) /\ Cardinality({o} \X (1..k)) = k
  BY ThreadsOf
<1> DEFINE T == {o} \X (1..k)
<1>5. /\ IsFiniteSet(S \cup T)
      /\ Cardinality(S \cup T) = Cardinality(S) + Cardinality(T) - Cardinality(S \cap T)
  <2>1. IsFiniteSet(T)
    BY <1>4
  <2> HIDE DEF T
  <2> QED  BY <2>1, FS_Union
<1>6. S \cap T = {} /\ Cardinality(T) = k
  BY <1>1, <1>4
<1> HIDE DEF T
<1>7. IsFiniteSet(S \cup T) /\ Cardinality(S \cup T) = Cardinality(S) + k
  <2>1. Cardinality(S \cap T) = 0
    BY <1>2, <1>6
  <2> QED  BY <1>3, <1>5, <1>6, <2>1
<1> QED  BY <1>7 DEF T

LEMMA StartScanKeepsPool ==
    ASSUME PoolInvariant, phase \in [Systems -> {"idle", "scan", "joined"}],
           NEW s \in Systems, StartScan(s)
    PROVE  PoolInvariant'
<1> DEFINE k == Reserved(RuleCount(s))
<1>1. /\ held[s] = 0 /\ held' = [held EXCEPT ![s] = k] /\ threadsInUse' = threadsInUse + k
      /\ phase' = [phase EXCEPT ![s] = "scan"]
  BY DEF StartScan, Acquire, PoolInvariant
<1>2. /\ threadsInUse = Cardinality(HeldThreads) /\ IsFiniteSet(HeldThreads)
      /\ threadsInUse \in Nat /\ threadsInUse <= NumHardwareThreads
      /\ NumHardwareThreads \in Nat /\ held \in [Systems -> Nat]
      /\ \A o \in Systems : held[o] \in {0} \cup 2..NumHardwareThreads
  BY HardwareAssumption DEF PoolInvariant, PoolConserved, Systems
<1>3. k \in Nat /\ k # 1 /\ k <= NumHardwareThreads - threadsInUse
  <2>1. RuleCount(s) \in Nat
    BY AttemptsType
  <2>2. /\ NumThreadsAvailable \in Nat
        /\ NumThreadsAvailable <= NumHardwareThreads - threadsInUse
    BY <1>2 DEF NumThreadsAvailable
  <2>3. Smaller(RuleCount(s), NumThreadsAvailable) \in Nat
        /\ Smaller(RuleCount(s), NumThreadsAvailable) <= NumThreadsAvailable
    BY <2>1, <2>2 DEF Smaller
  <2>4. \/ k = 0
        \/ k = Smaller(RuleCount(s), NumThreadsAvailable) /\ k > 1
    <3>1. CASE RuleCount(s) <= 1 \/ Smaller(RuleCount(s), NumThreadsAvailable) <= 1
      BY <3>1 DEF Reserved
    <3>2. CASE ~(RuleCount(s) <= 1 \/ Smaller(RuleCount(s), NumThreadsAvailable) <= 1)
      <4>1. k = Smaller(RuleCount(s), NumThreadsAvailable)
        BY <3>2 DEF Reserved
      <4>2. Smaller(RuleCount(s), NumThreadsAvailable) > 1
        BY <2>3, <3>2
      <4> QED  BY <4>1, <4>2
    <3> QED  BY <3>1, <3>2
  <2> QED  BY <1>2, <2>2, <2>3, <2>4
<1> HIDE DEF k
<1>4. held' \in [Systems -> Nat] /\ held'[s] = k
      /\ \A o \in Systems : o # s => held'[o] = held[o]
  BY <1>1, <1>2, <1>3
<1>5. HeldThreads' = HeldThreads \cup ({s} \X (1..k))
  <2>1. \A o \in Systems, n \in 1..NumHardwareThreads :
          n <= held'[o] <=> n <= held[o] \/ (o = s /\ n <= k)
    BY <1>1, <1>2, <1>3, <1>4
  <2>2. \A n : n \in 1..k <=> n \in 1..NumHardwareThreads /\ n <= k
    BY <1>2, <1>3
  <2>3. \A o, n : <<o, n>> \in HeldThreads'
                    <=> o \in Systems /\ n \in 1..NumHardwareThreads /\ n <= held'[o]
    BY DEF HeldThreads, Systems
  <2>4. \A o, n : <<o, n>> \in HeldThreads
                    <=> o \in Systems /\ n \in 1..NumHardwareThreads /\ n <= held[o]
    BY DEF HeldThreads, Systems
  <2>5. \A o, n : <<o, n>> \in HeldThreads'
                    <=> <<o, n>> \in HeldThreads \/ <<o, n>> \in {s} \X (1..k)
    BY <2>1, <2>2, <2>3, <2>4
  <2>6. /\ \A t \in HeldThreads' : t = <<t[1], t[2]>>
        /\ \A t \in HeldThreads : t = <<t[1], t[2]>>
        /\ \A t \in {s} \X (1..k) : t = <<t[1], t[2]>>
    BY DEF HeldThreads
  <2> QED  BY <2>5, <2>6
<1>6. \A n : <<s, n>> \notin HeldThreads
  BY <1>1, <1>2 DEF HeldThreads
<1>7. /\ IsFiniteSet(HeldThreads')
      /\ Cardinality(HeldThreads') = Cardinality(HeldThreads) + k
  BY <1>2, <1>3, <1>5, <1>6, ThreadsAdded
<1>8. PoolConserved'
  <2>1. threadsInUse' \in 0..NumHardwareThreads
    BY <1>1, <1>2, <1>3
  <2>2. \A o \in Owners : held'[o] \in {0} \cup 2..NumHardwareThreads
    BY <1>2, <1>3, <1>4 DEF Systems
  <2> QED  BY <1>1, <1>2, <1>7, <2>1, <2>2 DEF PoolConserved
<1>9. \A o \in Systems : phase'[o] # "scan" => held'[o] = 0
  BY <1>1, <1>4 DEF PoolInvariant
<1> QED  BY <1>4, <1>7, <1>8, <1>9 DEF PoolInvariant

LEMMA JoinKeepsPool ==
    ASSUME PoolInvariant, phase \in [Systems -> {"idle", "scan", "joined"}],
           NEW s \in Systems, Join(s)
    PROVE  PoolInvariant'
<1> DEFINE k == held[s]
<1>1. /\ held' = [held EXCEPT ![s] = 0] /\ threadsInUse' = threadsInUse - k
      /\ phase' = [phase EXCEPT ![s] = "joined"]
  BY DEF Join, Release
<1>2. /\ threadsInUse = Cardinality(HeldThreads) /\ IsFiniteSet(HeldThreads)
      /\ threadsInUse \in Nat /\ threadsInUse <= NumHardwareThreads
      /\ NumHardwareThreads \in Nat /\ held \in [Systems -> Nat]
      /\ \A o \in Systems : held[o] \in {0} \cup 2..NumHardwareThreads
      /\ k \in Nat /\ k <= NumHardwareThreads
  BY HardwareAssumption DEF PoolInvariant, PoolConserved, Systems
<1>3. held' \in [Systems -> Nat] /\ held'[s] = 0
      /\ \A o \in Systems : o # s => held'[o] = held[o]
  BY <1>1, <1>2
<1>4. HeldThreads = HeldThreads' \cup ({s} \X (1..k))
  <2>1. \A o \in Systems, n \in 1..NumHardwareThreads :
          n <= held[o] <=> n <= held'[o] \/ (o = s /\ n <= k)
    BY <1>2, <1>3
  <2>2. \A n : n \in 1..k <=> n \in 1..NumHardwareThreads /\ n <= k
    BY <1>2
  <2>3. \A o, n : <<o, n>> \in HeldThreads'
                    <=> o \in Systems /\ n \in 1..NumHardwareThreads /\ n <= held'[o]
    BY DEF HeldThreads, Systems
  <2>4. \A o, n : <<o, n>> \in HeldThreads
                    <=> o \in Systems /\ n \in 1..NumHardwareThreads /\ n <= held[o]
    BY DEF HeldThreads, Systems
  <2> HIDE DEF k
  <2>5. \A o, n : <<o, n>> \in HeldThreads
                    <=> <<o, n>> \in HeldThreads' \/ <<o, n>> \in {s} \X (1..k)
    BY <2>1, <2>2, <2>3, <2>4
  <2>6. /\ \A t \in HeldThreads' : t = <<t[1], t[2]>>
        /\ \A t \in HeldThreads : t = <<t[1], t[2]>>
        /\ \A t \in {s} \X (1..k) : t = <<t[1], t[2]>>
    BY DEF HeldThreads
  <2> QED  BY <2>5, <2>6
<1>5. IsFiniteSet(HeldThreads')
  BY <1>2, <1>4, FS_Subset
<1>6. \A n : <<s, n>> \notin HeldThreads'
  BY <1>2, <1>3 DEF HeldThreads
<1>7. Cardinality(HeldThreads) = Cardinality(HeldThreads') + k
  <2> HIDE DEF k
  <2> QED  BY <1>2, <1>4, <1>5, <1>6, ThreadsAdded
<1>8. Cardinality(HeldThreads') \in Nat
  BY <1>5, FS_CardinalityType
<1> HIDE DEF k
<1>9. PoolConserved'
  <2>1. threadsInUse' = Cardinality(HeldThreads')
    BY <1>1, <1>2, <1>7, <1>8
  <2>2. threadsInUse' \in 0..NumHardwareThreads
    BY <1>1, <1>2, <1>8, <2>1
  <2>3. \A o \in Owners : held'[o] \in {0} \cup 2..NumHardwareThreads
    BY <1>2, <1>3 DEF Systems
  <2> QED  BY <2>1, <2>2, <2>3 DEF PoolConserved
<1>10. \A o \in Systems : phase'[o] # "scan" => held'[o] = 0
  BY <1>1, <1>3 DEF PoolInvariant
<1> QED  BY <1>3, <1>5, <1>9, <1>10 DEF PoolInvariant

\* Threads are reserved and given back exactly, however the scans of the systems
\* overlap and whether they succeed, fail or are aborted.
THEOREM PoolAlwaysConserved == Spec => []PoolConserved
<1>1. Init => PoolInvariant
  <2> SUFFICES ASSUME Init PROVE PoolInvariant
    OBVIOUS
  <2>1. threadsInUse = 0 /\ held = [o \in Systems |-> 0]
    BY DEF Init, PoolInit, Systems
  <2>2. HeldThreads = {}
    BY <2>1 DEF HeldThreads, Systems
  <2> QED  BY <2>1, <2>2, FS_EmptySet, HardwareAssumption DEF PoolInvariant, PoolConserved, Systems
<1>2. ASSUME ScanInvariant, PoolInvariant, [Next]_vars
      PROVE  PoolInvariant'
  <2>1. phase \in [Systems -> {"idle", "scan", "joined"}]
    BY <1>2 DEF ScanInvariant, ScanTyped
  <2>2. ASSUME UNCHANGED poolVars, \A s \in Systems : phase'[s] # "scan" => phase[s] # "scan"
        PROVE  PoolInvariant'
    BY <1>2, <2>2 DEF poolVars, PoolInvariant, PoolConserved, HeldThreads
  <2>3. CASE UNCHANGED vars
    BY <2>2, <2>3 DEF vars, scanVars
  <2>4. CASE Next
    <3>1. PICK s \in Systems : \/ StartScan(s)
                               \/ \E i \in WorkerIDs(s) : Work(s, i)
                               \/ Join(s) \/ EndScan(s) \/ Interrupt(s)
      BY <2>4 DEF Next
    <3>2. CASE StartScan(s)
      BY <1>2, <2>1, <3>2, StartScanKeepsPool
    <3>3. CASE Join(s)
      BY <1>2, <2>1, <3>3, JoinKeepsPool
    <3>4. ASSUME NEW i \in WorkerIDs(s), Work(s, i) PROVE PoolInvariant'
      <4>1. UNCHANGED poolVars /\ phase' = phase
        BY <3>4 DEF Work, Poll, Fail, Try
      <4> QED  BY <2>2, <4>1
    <3>5. CASE EndScan(s)
      BY <2>1, <2>2, <3>5 DEF EndScan
    <3>6. CASE Interrupt(s)
      BY <2>2, <3>6 DEF Interrupt
    <3> QED  BY <3>1, <3>2, <3>3, <3>4, <3>5, <3>6
  <2> QED  BY <1>2, <2>3, <2>4
<1>3. PoolInvariant => PoolConserved
  BY DEF PoolInvariant
<1> QED  BY <1>1, <1>2, <1>3, ScanInvariantHolds, PTL DEF Spec
=============================================================================
